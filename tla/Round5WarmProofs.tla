--------------------------- MODULE Round5WarmProofs ---------------------------
(***************************************************************************)
(* Theorems of Round5Warm, for any number of server processes, of claims,  *)
(* of generations and of leaders: its types, its three safety invariants   *)
(* and the promise of WarmSlot.  What several processes know of one row    *)
(* is related to the row by its fence, by its claim and by who has been    *)
(* fenced while arming.                                                    *)
(***************************************************************************)
EXTENDS Round5Warm, TLAPS

-----------------------------------------------------------------------------
(* The inductive invariant.                                                *)

(* A capsule is of a fence there was, and under the fence in the row only  *)
(* its leader has one.                                                     *)
CapsulesAreLed ==
  \A p \in Process : capsule[p] <= slot.fence /\ (Belongs(p) => slot.owner = p)

(* A probe whose row has not been written since is a probe of READY.       *)
ProbesReady == \A p \in Process : at[p] = "probing" => slot.state = "ready"

(* A manager at work has a claim in hand that was made, for it alone.      *)
InHand ==
  \A p \in Process :
    /\ mine[p] = None <=> doing[p] = "idle"
    /\ mine[p] # None => mine[p] \in used
    /\ \A q \in Process : mine[p] # None /\ mine[q] = mine[p] => q = p

(* What is in the row, and what is staged, was claimed.                    *)
Made == slot.claim \in used \cup {None} /\ staged \subseteq used

(* A manager that still arms its claim finds it in the row, and not under  *)
(* cleaning, or it has been fenced.                                        *)
ArmingStands ==
  \A p \in Process : doing[p] = "arming" /\ mine[p] \notin seized =>
    slot.claim = mine[p] /\ slot.state # "cleaning"

(* A claim somebody has seen clean is under cleaning, and has nothing      *)
(* staged that was not staged by a manager fenced while it armed.          *)
SeenClean ==
  \A p \in Process : verified[p] =>
    /\ slot.state = "cleaning"
    /\ slot.claim \in staged => slot.claim \in seized

WarmInv ==
  /\ WarmTypeOK /\ ClaimIsDebt /\ CapsulesAreLed /\ ProbesReady /\ InHand
  /\ Made /\ ArmingStands /\ SeenClean /\ NoStrandedResident

(* The row's type, and what is left to its fields.                         *)
States == {"warming", "ready", "blocked"} \cup Held

Row == [state : States, generation : 1..MaxGeneration, fence : 0..MaxFence,
        owner : Process \cup {None}, newer : BOOLEAN, claim : Claim \cup {None}]

LEMMA OriginType == ASSUME WarmTypeOK, NEW p \in Process PROVE Origin(p) \in 0..MaxFence
BY DEF WarmTypeOK, Origin

LEMMA LeavesType ==
  ASSUME ClaimLeaves
  PROVE  /\ claimLive' \in BOOLEAN /\ inherited' \in [Process -> BOOLEAN]
         /\ verified' \in [Process -> BOOLEAN] /\ origin' \in [Process -> 0..MaxFence]
<1>1. [q \in Process |-> FALSE] \in [Process -> BOOLEAN]
  BY Zenon
<1>2. [q \in Process |-> 0] \in [Process -> 0..MaxFence]
  BY WarmAssumption
<1> QED  BY <1>1, <1>2 DEF ClaimLeaves

(* The row in its next generation.                                         *)
LEMMA NextRow ==
  ASSUME slot \in Row, slot.generation < MaxGeneration, NEW b \in BOOLEAN
  PROVE  /\ [slot EXCEPT !.newer = b, !.state = "warming", !.generation = @ + 1] \in Row
         /\ [slot EXCEPT !.state = "warming", !.generation = @ + 1,
                         !.claim = None, !.newer = b] \in Row
<1>1. slot.generation + 1 \in 1..MaxGeneration
  BY WarmAssumption DEF Row
<1> QED  BY <1>1 DEF Row, States

LEMMA TypeStep ==
  ASSUME WarmInv, Next
  PROVE  WarmTypeOK'
<1> USE WarmAssumption
<1>0. WarmTypeOK /\ ClaimIsDebt /\ InHand
  BY DEF WarmInv
<1>1. ASSUME NEW p \in Process, Close(p) PROVE WarmTypeOK'
  BY <1>0, <1>1 DEF Close, Alive, Goes, Drops, Forgets, durable, WarmTypeOK,
    Held
<1>2. ASSUME NEW p \in Process, Crash(p) PROVE WarmTypeOK'
  BY <1>0, <1>2 DEF Crash, Alive, Goes, Drops, Forgets, durable, WarmTypeOK,
    Held
<1>3. ASSUME NEW p \in Process, Look(p) PROVE WarmTypeOK'
  BY <1>0, <1>3 DEF Look, Goes, durable, manager, WarmTypeOK, Held
<1>4. ASSUME NEW p \in Process, Probe(p) PROVE WarmTypeOK'
  BY <1>0, <1>4 DEF Probe, Finds, Goes, durable, known, manager, WarmTypeOK,
    Held
<1>5. ASSUME NEW p \in Process,
           LeadRefused(p) \/ RunsOn(p) \/ FinishRefused(p) \/
           AwaitsExpiry(p) \/ ProbeStrikes(p) \/ StaysBlocked(p) \/
           PrepareLost(p)
       PROVE WarmTypeOK'
  BY <1>0, <1>5 DEF LeadRefused, RunsOn, FinishRefused, AwaitsExpiry,
    ProbeStrikes, StaysBlocked, PrepareLost, Rests, Goes, durable, known,
    manager, WarmTypeOK, Held
<1>6. ASSUME NEW p \in Process, Lead(p) PROVE WarmTypeOK'
  <2>1. slot' \in Row
    <3>1. CASE slot.owner = p
      BY <1>0, <1>6, <3>1 DEF Lead, LoopWrites, WarmTypeOK, Row, States
    <3>2. CASE slot.owner # p
      <4> DEFINE s == IF slot.state \in {"ready", "blocked"} THEN "warming" ELSE slot.state
      <4>1. slot' = [slot EXCEPT !.owner = p, !.fence = @ + 1, !.state = s]
        BY <1>6, <3>2 DEF Lead, LoopWrites
      <4>2. s \in States /\ slot.fence + 1 \in 0..MaxFence /\ slot \in Row
        BY <1>0, <1>6, <3>2, WarmAssumption DEF Lead, WarmTypeOK, Row, States
      <4> HIDE DEF s
      <4> QED  BY <4>1, <4>2 DEF Row
    <3> QED  BY <3>1, <3>2
  <2> QED  BY <1>0, <1>6, <2>1 DEF Lead, LoopWrites, Outdated,
      LedByOther, known, manager, WarmTypeOK, Row, States, Held
<1>7. ASSUME NEW p \in Process, AdoptContract(p) PROVE WarmTypeOK'
  <2>0. slot \in Row /\ slot.generation < MaxGeneration /\ (p \in Newer) \in BOOLEAN
    BY <1>0, <1>7 DEF AdoptContract, WarmTypeOK, Row, States
  <2>1. slot' \in Row
    <3> DEFINE b == p \in Newer
    <3>1. slot' = [slot EXCEPT !.newer = b, !.state = "warming", !.generation = @ + 1]
      BY <1>7 DEF AdoptContract, LoopWrites
    <3>2. b \in BOOLEAN
      OBVIOUS
    <3> HIDE DEF b
    <3> QED  BY <2>0, <3>1, <3>2, NextRow
  <2> QED  BY <1>0, <1>7, <2>1 DEF AdoptContract, LoopWrites, Outdated,
      manager, WarmTypeOK, Row, States, Held
<1>8. ASSUME NEW p \in Process, FenceInherited(p) PROVE WarmTypeOK'
  <2>0. Origin(p) \in 0..MaxFence
    BY <1>0, OriginType
  <2>1. slot' \in Row
    BY <1>0, <1>8 DEF FenceInherited, FencesClaim, Writes, WarmTypeOK, Row, States, Held
  <2>2. seized' \in SUBSET Claim
    BY <1>0, <1>8 DEF FenceInherited, Finds, FencesClaim, WarmTypeOK, ClaimIsDebt, Held
  <2> QED  BY <1>0, <1>8, <2>1, <2>0, <2>2 DEF FenceInherited,
      FencesClaim, Writes, Outdated, Reconciles, manager, WarmTypeOK, Row,
      States, Held
<1>9. ASSUME NEW p \in Process, FenceExpired(p) PROVE WarmTypeOK'
  BY <1>0, <1>9 DEF FenceExpired, Finds, FencesClaim, Arming, Writes, Outdated,
    known, manager, WarmTypeOK, Held, ClaimIsDebt, InHand
<1>10. ASSUME NEW p \in Process, Converges(p) PROVE WarmTypeOK'
  <2>0. Origin(p) \in 0..MaxFence
    BY <1>0, OriginType
  <2>1. slot' \in Row
    BY <1>0, <1>10 DEF Converges, durable, WarmTypeOK, Row, States, Held
  <2> QED  BY <1>0, <1>10, <2>1, <2>0 DEF Converges, Reconciles, Goes,
      durable, manager, WarmTypeOK, Row, States, Held
<1>11. ASSUME NEW p \in Process, RenewClaim(p) PROVE WarmTypeOK'
  BY <1>0, <1>11 DEF RenewClaim, Writes, Outdated, known, manager, WarmTypeOK,
    Held
<1>12. ASSUME NEW p \in Process, Prepare(p) PROVE WarmTypeOK'
  BY <1>0, <1>12 DEF Prepare, Finds, LoopWrites, Outdated, known, manager,
    WarmTypeOK, Held
<1>13. ASSUME NEW p \in Process, ProbeCurrent(p) PROVE WarmTypeOK'
  BY <1>0, <1>13 DEF ProbeCurrent, Probing, LoopWrites, Goes, Outdated,
    manager, WarmTypeOK, Held
<1>14. ASSUME NEW p \in Process, CapsuleMissing(p) PROVE WarmTypeOK'
  BY <1>0, <1>14 DEF CapsuleMissing, Finds, Drops, Writes, Outdated, manager,
    WarmTypeOK, Held
<1>15. ASSUME NEW p \in Process, Recheck(p) PROVE WarmTypeOK'
  BY <1>0, <1>15 DEF Recheck, Finds, LoopWrites, Outdated, known, manager,
    WarmTypeOK, Held
<1>16. ASSUME NEW p \in Process, FreshnessLost(p) PROVE WarmTypeOK'
  BY <1>0, <1>16 DEF FreshnessLost, GivesUp, Probing, Drops, LoopWrites, Goes,
    Outdated, manager, WarmTypeOK, Held
<1>17. ASSUME NEW p \in Process, IdentityChanged(p) PROVE WarmTypeOK'
  BY <1>0, <1>17 DEF IdentityChanged, GivesUp, Probing, Drops, LoopWrites,
    Goes, Outdated, manager, WarmTypeOK, Held
<1>18. ASSUME NEW p \in Process,
           PublishReady(p) \/ PrepareFails(p)
       PROVE WarmTypeOK'
  BY <1>0, <1>18 DEF PublishReady, PrepareFails, StillHeld, LoopWrites,
    Outdated, manager, known, WarmTypeOK, Held
<1>19. ASSUME NEW p \in Process, Settle(p) PROVE WarmTypeOK'
  BY <1>0, <1>19 DEF Settle, Cleans, CurrentOwner, manager, WarmTypeOK, Held
<1>20. ASSUME NEW p \in Process, TaskEnds(p) PROVE WarmTypeOK'
  BY <1>0, <1>20 DEF TaskEnds, Writes, Outdated, manager, WarmTypeOK, Held
<1>21. ASSUME NEW p \in Process, FinishVerified(p) PROVE WarmTypeOK'
  <2>0. slot \in Row /\ slot.generation < MaxGeneration
    BY <1>0, <1>21 DEF FinishVerified, Finish, WarmTypeOK, Row, States
  <2>1. slot' \in Row
    <3> DEFINE b == p \in Newer
    <3>1. slot' = [slot EXCEPT !.state = "warming", !.generation = @ + 1, !.claim = None,
                               !.newer = b]
      BY <1>21 DEF FinishVerified, Finish, Writes
    <3>2. b \in BOOLEAN
      OBVIOUS
    <3> HIDE DEF b
    <3> QED  BY <2>0, <3>1, <3>2, NextRow
  <2>2. ClaimLeaves
    BY <1>21 DEF FinishVerified, Finish
  <2>3. task' \in [Process -> BOOLEAN]
    <3>1. [q \in Process |-> FALSE] \in [Process -> BOOLEAN]
      BY Zenon
    <3> QED  BY <1>21, <3>1 DEF FinishVerified, Finish
  <2> QED  BY <1>0, <1>21, <2>1, <2>2, <2>3, LeavesType DEF
      FinishVerified, Finish, Writes, Outdated, manager, WarmTypeOK, Row,
      States, Held
<1>22. ASSUME NEW p \in Process, FinishTask(p) PROVE WarmTypeOK'
  <2>0. slot \in Row /\ slot.generation < MaxGeneration
    BY <1>0, <1>22 DEF FinishTask, Finish, WarmTypeOK, Row, States
  <2>1. slot' \in Row
    <3> DEFINE b == p \in Newer
    <3>1. slot' = [slot EXCEPT !.state = "warming", !.generation = @ + 1, !.claim = None,
                               !.newer = b]
      BY <1>22 DEF FinishTask, Finish, Writes
    <3>2. b \in BOOLEAN
      OBVIOUS
    <3> HIDE DEF b
    <3> QED  BY <2>0, <3>1, <3>2, NextRow
  <2>2. ClaimLeaves
    BY <1>22 DEF FinishTask, Finish
  <2>3. task' \in [Process -> BOOLEAN]
    <3>1. [q \in Process |-> FALSE] \in [Process -> BOOLEAN]
      BY Zenon
    <3> QED  BY <1>22, <3>1 DEF FinishTask, Finish
  <2> QED  BY <1>0, <1>22, <2>1, <2>2, <2>3, LeavesType DEF FinishTask,
      Cleans, Finish, Writes, Outdated, manager, WarmTypeOK, Row, States, Held
<1>23. ASSUME NEW p \in Process, ReturnUnstarted(p) PROVE WarmTypeOK'
  <2>1. slot' \in Row
    BY <1>0, <1>23 DEF ReturnUnstarted, Writes, WarmTypeOK, Row, States
  <2>2. ring' \in Claim \cup {None} /\ ClaimLeaves
    BY <1>0, <1>23 DEF ReturnUnstarted, WarmTypeOK
  <2> QED  BY <1>0, <1>23, <2>1, <2>2, LeavesType DEF ReturnUnstarted,
      Alive, Writes, Outdated, Forgets, WarmTypeOK, Row, States, Held
<1>24. ASSUME NEW p \in Process, Stage(p) PROVE WarmTypeOK'
  BY <1>0, <1>24 DEF Stage, Alive, loop, WarmTypeOK, Held, ClaimIsDebt, InHand
<1>25. ASSUME NEW p \in Process, Bell(p) PROVE WarmTypeOK'
  BY <1>0, <1>25 DEF Bell, Alive, Writes, Outdated, known, WarmTypeOK, Held
<1>26. ASSUME NEW p \in Process, Abandon(p) PROVE WarmTypeOK'
  BY <1>0, <1>26 DEF Abandon, Alive, durable, loop, WarmTypeOK, Held
<1>27. ASSUME NEW p \in Process, Retire(p) PROVE WarmTypeOK'
  BY <1>0, <1>27 DEF Retire, Alive, Forgets, durable, loop, WarmTypeOK, Held
<1>28. ASSUME NEW p \in Process, InvalidateReadiness(p) PROVE WarmTypeOK'
  BY <1>0, <1>28 DEF InvalidateReadiness, Alive, durable, manager, WarmTypeOK,
    Held
<1>29. ASSUME NEW p \in Process, BeginCleanup(p) PROVE WarmTypeOK'
  BY <1>0, <1>29 DEF BeginCleanup, Alive, CurrentOwner, Writes, Outdated,
    Reconciles, manager, WarmTypeOK, Held
<1>30. ASSUME NEW p \in Process, NEW c \in Claim, ClaimReady(p, c) PROVE WarmTypeOK'
  BY <1>0, <1>30 DEF ClaimReady, Alive, Belongs, Writes, Outdated, known, Held,
    WarmTypeOK
<1>31. CASE LeaseLapses \/ ClaimLapses \/ RingLapses
  BY <1>0, <1>31 DEF LeaseLapses, ClaimLapses, RingLapses, loop, manager, Held,
    WarmTypeOK
<1> QED  BY <1>1, <1>2, <1>3, <1>4, <1>5, <1>6, <1>7, <1>8, <1>9, <1>10, <1>11,
    <1>12, <1>13, <1>14, <1>15, <1>16, <1>17, <1>18, <1>19, <1>20, <1>21,
    <1>22, <1>23, <1>24, <1>25, <1>26, <1>27, <1>28, <1>29, <1>30, <1>31 DEF
    Next, Loop, Tasks, Manages

LEMMA DebtStep ==
  ASSUME WarmInv, Next
  PROVE  ClaimIsDebt'
<1> USE WarmAssumption
<1>0. WarmTypeOK /\ ClaimIsDebt /\ ProbesReady /\ InHand
  BY DEF WarmInv
<1>1. ASSUME NEW p \in Process, Close(p) \/ Crash(p) PROVE ClaimIsDebt'
  BY <1>0, <1>1 DEF Close, Crash, Alive, Goes, Drops, Forgets, durable,
    WarmTypeOK, ClaimIsDebt, ProbesReady, InHand, Held
<1>2. ASSUME NEW p \in Process, Look(p) \/ Probe(p) PROVE ClaimIsDebt'
  BY <1>0, <1>2 DEF Look, Probe, Goes, durable, manager, Finds, known,
    WarmTypeOK, ClaimIsDebt, ProbesReady, InHand, Held
<1>3. ASSUME NEW p \in Process,
           LeadRefused(p) \/ RunsOn(p) \/ FinishRefused(p) \/
           AwaitsExpiry(p) \/ ProbeStrikes(p) \/ StaysBlocked(p) \/
           PrepareLost(p)
       PROVE ClaimIsDebt'
  BY <1>0, <1>3 DEF LeadRefused, RunsOn, FinishRefused, AwaitsExpiry,
    ProbeStrikes, StaysBlocked, PrepareLost, Rests, Goes, durable, known,
    manager, WarmTypeOK, ClaimIsDebt, ProbesReady, InHand, Held
<1>4. ASSUME NEW p \in Process, Lead(p) PROVE ClaimIsDebt'
  BY <1>0, <1>4 DEF Lead, LoopWrites, Outdated, LedByOther, known, manager,
    WarmTypeOK, ClaimIsDebt, ProbesReady, InHand, Held
<1>5. ASSUME NEW p \in Process, AdoptContract(p) PROVE ClaimIsDebt'
  BY <1>0, <1>5 DEF AdoptContract, LoopWrites, Outdated, manager, WarmTypeOK,
    ClaimIsDebt, ProbesReady, InHand, Held
<1>6. ASSUME NEW p \in Process,
           FenceInherited(p) \/ FenceExpired(p)
       PROVE ClaimIsDebt'
  BY <1>0, <1>6 DEF FenceInherited, FenceExpired, Finds, FencesClaim, Arming,
    Writes, Outdated, Reconciles, manager, known, WarmTypeOK, ClaimIsDebt,
    ProbesReady, InHand, Held
<1>7. ASSUME NEW p \in Process, Converges(p) PROVE ClaimIsDebt'
  BY <1>0, <1>7 DEF Converges, Finds, Reconciles, Goes, durable, manager,
    WarmTypeOK, ClaimIsDebt, ProbesReady, InHand, Held
<1>8. ASSUME NEW p \in Process,
           RenewClaim(p) \/ Prepare(p) \/ ProbeCurrent(p)
       PROVE ClaimIsDebt'
  BY <1>0, <1>8 DEF RenewClaim, Prepare, ProbeCurrent, Writes, Outdated, known,
    manager, Finds, LoopWrites, Probing, Goes, WarmTypeOK, ClaimIsDebt,
    ProbesReady, InHand, Held
<1>9. ASSUME NEW p \in Process,
           CapsuleMissing(p) \/ Recheck(p)
       PROVE ClaimIsDebt'
  BY <1>0, <1>9 DEF CapsuleMissing, Recheck, Finds, Drops, Writes, Outdated,
    manager, LoopWrites, known, WarmTypeOK, ClaimIsDebt, ProbesReady, InHand,
    Held
<1>10. ASSUME NEW p \in Process,
           FreshnessLost(p) \/ IdentityChanged(p)
       PROVE ClaimIsDebt'
  BY <1>0, <1>10 DEF FreshnessLost, IdentityChanged, GivesUp, Probing, Drops,
    LoopWrites, Goes, Outdated, manager, WarmTypeOK, ClaimIsDebt, ProbesReady,
    InHand, Held
<1>11. ASSUME NEW p \in Process,
           PublishReady(p) \/ PrepareFails(p)
       PROVE ClaimIsDebt'
  BY <1>0, <1>11 DEF PublishReady, PrepareFails, StillHeld, LoopWrites,
    Outdated, manager, known, WarmTypeOK, ClaimIsDebt, ProbesReady, InHand,
    Held
<1>12. ASSUME NEW p \in Process, Settle(p) PROVE ClaimIsDebt'
  BY <1>0, <1>12 DEF Settle, Cleans, CurrentOwner, manager, WarmTypeOK,
    ClaimIsDebt, ProbesReady, InHand, Held
<1>13. ASSUME NEW p \in Process, TaskEnds(p) PROVE ClaimIsDebt'
  BY <1>0, <1>13 DEF TaskEnds, Writes, Outdated, manager, WarmTypeOK,
    ClaimIsDebt, ProbesReady, InHand, Held
<1>14. ASSUME NEW p \in Process, FinishVerified(p) PROVE ClaimIsDebt'
  BY <1>0, <1>14 DEF FinishVerified, Finds, Finish, Writes, Outdated,
    ClaimLeaves, CurrentOwner, Origin, manager, WarmTypeOK, ClaimIsDebt,
    ProbesReady, InHand, Held
<1>15. ASSUME NEW p \in Process, FinishTask(p) PROVE ClaimIsDebt'
  BY <1>0, <1>15 DEF FinishTask, Cleans, CurrentOwner, Finish, Writes,
    Outdated, ClaimLeaves, Origin, manager, WarmTypeOK, ClaimIsDebt,
    ProbesReady, InHand, Held
<1>16. ASSUME NEW p \in Process, ReturnUnstarted(p) PROVE ClaimIsDebt'
  BY <1>0, <1>16 DEF ReturnUnstarted, Alive, Writes, Outdated, ClaimLeaves,
    Forgets, WarmTypeOK, ClaimIsDebt, ProbesReady, InHand, Held
<1>17. ASSUME NEW p \in Process, Stage(p) PROVE ClaimIsDebt'
  BY <1>0, <1>17 DEF Stage, Alive, loop, WarmTypeOK, ClaimIsDebt, ProbesReady,
    InHand, Held
<1>18. ASSUME NEW p \in Process, Bell(p) PROVE ClaimIsDebt'
  BY <1>0, <1>18 DEF Bell, Alive, Writes, Outdated, known, WarmTypeOK,
    ClaimIsDebt, ProbesReady, InHand, Held
<1>19. ASSUME NEW p \in Process,
           Abandon(p) \/ Retire(p) \/ InvalidateReadiness(p)
       PROVE ClaimIsDebt'
  BY <1>0, <1>19 DEF Abandon, Retire, InvalidateReadiness, Alive, durable,
    loop, Forgets, manager, WarmTypeOK, ClaimIsDebt, ProbesReady, InHand, Held
<1>20. ASSUME NEW p \in Process, BeginCleanup(p) PROVE ClaimIsDebt'
  BY <1>0, <1>20 DEF BeginCleanup, Alive, CurrentOwner, Writes, Outdated,
    Reconciles, manager, WarmTypeOK, ClaimIsDebt, ProbesReady, InHand, Held
<1>21. ASSUME NEW p \in Process, NEW c \in Claim, ClaimReady(p, c) PROVE ClaimIsDebt'
  BY <1>0, <1>21 DEF ClaimReady, Alive, Belongs, Writes, Outdated, known, Held,
    WarmTypeOK, ClaimIsDebt, ProbesReady, InHand
<1>22. CASE LeaseLapses \/ ClaimLapses \/ RingLapses
  BY <1>0, <1>22 DEF LeaseLapses, ClaimLapses, RingLapses, loop, manager, Held,
    WarmTypeOK, ClaimIsDebt, ProbesReady, InHand
<1> QED  BY <1>1, <1>2, <1>3, <1>4, <1>5, <1>6, <1>7, <1>8, <1>9, <1>10, <1>11,
    <1>12, <1>13, <1>14, <1>15, <1>16, <1>17, <1>18, <1>19, <1>20, <1>21, <1>22
    DEF Next, Loop, Tasks, Manages

LEMMA CapsuleStep ==
  ASSUME WarmInv, Next
  PROVE  CapsulesAreLed'
<1> USE WarmAssumption
<1>0. WarmTypeOK /\ CapsulesAreLed
  BY DEF WarmInv
<1>1. ASSUME NEW p \in Process, Close(p) \/ Crash(p) PROVE CapsulesAreLed'
  BY <1>0, <1>1 DEF Close, Crash, Alive, Goes, Drops, Forgets, durable,
    WarmTypeOK, CapsulesAreLed, Belongs, Held
<1>2. ASSUME NEW p \in Process, Look(p) \/ Probe(p) PROVE CapsulesAreLed'
  BY <1>0, <1>2 DEF Look, Probe, Goes, durable, manager, Finds, known,
    WarmTypeOK, CapsulesAreLed, Belongs, Held
<1>3. ASSUME NEW p \in Process,
           LeadRefused(p) \/ RunsOn(p) \/ FinishRefused(p) \/
           AwaitsExpiry(p) \/ ProbeStrikes(p) \/ StaysBlocked(p) \/
           PrepareLost(p)
       PROVE CapsulesAreLed'
  BY <1>0, <1>3 DEF LeadRefused, RunsOn, FinishRefused, AwaitsExpiry,
    ProbeStrikes, StaysBlocked, PrepareLost, Rests, Goes, durable, known,
    manager, WarmTypeOK, CapsulesAreLed, Belongs, Held
<1>4. ASSUME NEW p \in Process, Lead(p) PROVE CapsulesAreLed'
  BY <1>0, <1>4 DEF Lead, LoopWrites, Outdated, LedByOther, known, manager,
    WarmTypeOK, CapsulesAreLed, Belongs, Held
<1>5. ASSUME NEW p \in Process, AdoptContract(p) PROVE CapsulesAreLed'
  BY <1>0, <1>5 DEF AdoptContract, LoopWrites, Outdated, manager, WarmTypeOK,
    CapsulesAreLed, Belongs, Held
<1>6. ASSUME NEW p \in Process,
           FenceInherited(p) \/ FenceExpired(p)
       PROVE CapsulesAreLed'
  BY <1>0, <1>6 DEF FenceInherited, FenceExpired, Finds, FencesClaim, Arming,
    Writes, Outdated, Reconciles, manager, known, WarmTypeOK, CapsulesAreLed,
    Belongs, Held
<1>7. ASSUME NEW p \in Process, Converges(p) PROVE CapsulesAreLed'
  BY <1>0, <1>7 DEF Converges, Finds, Reconciles, Goes, durable, manager,
    WarmTypeOK, CapsulesAreLed, Belongs, Held
<1>8. ASSUME NEW p \in Process,
           RenewClaim(p) \/ Prepare(p) \/ ProbeCurrent(p)
       PROVE CapsulesAreLed'
  BY <1>0, <1>8 DEF RenewClaim, Prepare, ProbeCurrent, Writes, Outdated, known,
    manager, Finds, LoopWrites, Probing, Goes, WarmTypeOK, CapsulesAreLed,
    Belongs, Held
<1>9. ASSUME NEW p \in Process,
           CapsuleMissing(p) \/ Recheck(p)
       PROVE CapsulesAreLed'
  BY <1>0, <1>9 DEF CapsuleMissing, Recheck, Finds, Drops, Writes, Outdated,
    manager, LoopWrites, known, WarmTypeOK, CapsulesAreLed, Belongs, Held
<1>10. ASSUME NEW p \in Process,
           FreshnessLost(p) \/ IdentityChanged(p)
       PROVE CapsulesAreLed'
  BY <1>0, <1>10 DEF FreshnessLost, IdentityChanged, GivesUp, Probing, Drops,
    LoopWrites, Goes, Outdated, manager, WarmTypeOK, CapsulesAreLed, Belongs,
    Held
<1>11. ASSUME NEW p \in Process,
           PublishReady(p) \/ PrepareFails(p)
       PROVE CapsulesAreLed'
  BY <1>0, <1>11 DEF PublishReady, PrepareFails, StillHeld, LoopWrites,
    Outdated, manager, known, WarmTypeOK, CapsulesAreLed, Belongs, Held
<1>12. ASSUME NEW p \in Process, Settle(p) PROVE CapsulesAreLed'
  BY <1>0, <1>12 DEF Settle, Cleans, CurrentOwner, manager, WarmTypeOK,
    CapsulesAreLed, Belongs, Held
<1>13. ASSUME NEW p \in Process, TaskEnds(p) PROVE CapsulesAreLed'
  BY <1>0, <1>13 DEF TaskEnds, Writes, Outdated, manager, WarmTypeOK,
    CapsulesAreLed, Belongs, Held
<1>14. ASSUME NEW p \in Process, FinishVerified(p) PROVE CapsulesAreLed'
  BY <1>0, <1>14 DEF FinishVerified, Finds, Finish, Writes, Outdated,
    ClaimLeaves, CurrentOwner, Origin, manager, WarmTypeOK, CapsulesAreLed,
    Belongs, Held
<1>15. ASSUME NEW p \in Process, FinishTask(p) PROVE CapsulesAreLed'
  BY <1>0, <1>15 DEF FinishTask, Cleans, CurrentOwner, Finish, Writes,
    Outdated, ClaimLeaves, Origin, manager, WarmTypeOK, CapsulesAreLed,
    Belongs, Held
<1>16. ASSUME NEW p \in Process, ReturnUnstarted(p) PROVE CapsulesAreLed'
  BY <1>0, <1>16 DEF ReturnUnstarted, Alive, Writes, Outdated, ClaimLeaves,
    Forgets, WarmTypeOK, CapsulesAreLed, Belongs, Held
<1>17. ASSUME NEW p \in Process, Stage(p) PROVE CapsulesAreLed'
  BY <1>0, <1>17 DEF Stage, Alive, loop, WarmTypeOK, CapsulesAreLed, Belongs,
    Held
<1>18. ASSUME NEW p \in Process, Bell(p) PROVE CapsulesAreLed'
  BY <1>0, <1>18 DEF Bell, Alive, Writes, Outdated, known, WarmTypeOK,
    CapsulesAreLed, Belongs, Held
<1>19. ASSUME NEW p \in Process,
           Abandon(p) \/ Retire(p) \/ InvalidateReadiness(p)
       PROVE CapsulesAreLed'
  BY <1>0, <1>19 DEF Abandon, Retire, InvalidateReadiness, Alive, durable,
    loop, Forgets, manager, WarmTypeOK, CapsulesAreLed, Belongs, Held
<1>20. ASSUME NEW p \in Process, BeginCleanup(p) PROVE CapsulesAreLed'
  BY <1>0, <1>20 DEF BeginCleanup, Alive, CurrentOwner, Writes, Outdated,
    Reconciles, manager, WarmTypeOK, CapsulesAreLed, Belongs, Held
<1>21. ASSUME NEW p \in Process, NEW c \in Claim, ClaimReady(p, c) PROVE CapsulesAreLed'
  BY <1>0, <1>21 DEF ClaimReady, Alive, Belongs, Writes, Outdated, known, Held,
    WarmTypeOK, CapsulesAreLed
<1>22. CASE LeaseLapses \/ ClaimLapses \/ RingLapses
  BY <1>0, <1>22 DEF LeaseLapses, ClaimLapses, RingLapses, loop, manager, Held,
    WarmTypeOK, CapsulesAreLed, Belongs
<1> QED  BY <1>1, <1>2, <1>3, <1>4, <1>5, <1>6, <1>7, <1>8, <1>9, <1>10, <1>11,
    <1>12, <1>13, <1>14, <1>15, <1>16, <1>17, <1>18, <1>19, <1>20, <1>21, <1>22
    DEF Next, Loop, Tasks, Manages

LEMMA ProbeStep ==
  ASSUME WarmInv, Next
  PROVE  ProbesReady'
<1> USE WarmAssumption
<1>0. WarmTypeOK /\ ProbesReady
  BY DEF WarmInv
<1>1. ASSUME NEW p \in Process, Close(p) \/ Crash(p) PROVE ProbesReady'
  BY <1>0, <1>1 DEF Close, Crash, Alive, Goes, Drops, Forgets, durable,
    WarmTypeOK, ProbesReady, Held
<1>2. ASSUME NEW p \in Process, Look(p) \/ Probe(p) PROVE ProbesReady'
  BY <1>0, <1>2 DEF Look, Probe, Goes, durable, manager, Finds, known,
    WarmTypeOK, ProbesReady, Held
<1>3. ASSUME NEW p \in Process,
           LeadRefused(p) \/ RunsOn(p) \/ FinishRefused(p) \/
           AwaitsExpiry(p) \/ ProbeStrikes(p) \/ StaysBlocked(p) \/
           PrepareLost(p)
       PROVE ProbesReady'
  BY <1>0, <1>3 DEF LeadRefused, RunsOn, FinishRefused, AwaitsExpiry,
    ProbeStrikes, StaysBlocked, PrepareLost, Rests, Goes, durable, known,
    manager, WarmTypeOK, ProbesReady, Held
<1>4. ASSUME NEW p \in Process, Lead(p) PROVE ProbesReady'
  BY <1>0, <1>4 DEF Lead, LoopWrites, Outdated, LedByOther, known, manager,
    WarmTypeOK, ProbesReady, Held
<1>5. ASSUME NEW p \in Process, AdoptContract(p) PROVE ProbesReady'
  BY <1>0, <1>5 DEF AdoptContract, LoopWrites, Outdated, manager, WarmTypeOK,
    ProbesReady, Held
<1>6. ASSUME NEW p \in Process,
           FenceInherited(p) \/ FenceExpired(p)
       PROVE ProbesReady'
  BY <1>0, <1>6 DEF FenceInherited, FenceExpired, Finds, FencesClaim, Arming,
    Writes, Outdated, Reconciles, manager, known, WarmTypeOK, ProbesReady, Held
<1>7. ASSUME NEW p \in Process, Converges(p) PROVE ProbesReady'
  BY <1>0, <1>7 DEF Converges, Finds, Reconciles, Goes, durable, manager,
    WarmTypeOK, ProbesReady, Held
<1>8. ASSUME NEW p \in Process,
           RenewClaim(p) \/ Prepare(p) \/ ProbeCurrent(p)
       PROVE ProbesReady'
  BY <1>0, <1>8 DEF RenewClaim, Prepare, ProbeCurrent, Writes, Outdated, known,
    manager, Finds, LoopWrites, Probing, Goes, WarmTypeOK, ProbesReady, Held
<1>9. ASSUME NEW p \in Process,
           CapsuleMissing(p) \/ Recheck(p)
       PROVE ProbesReady'
  BY <1>0, <1>9 DEF CapsuleMissing, Recheck, Finds, Drops, Writes, Outdated,
    manager, LoopWrites, known, WarmTypeOK, ProbesReady, Held
<1>10. ASSUME NEW p \in Process,
           FreshnessLost(p) \/ IdentityChanged(p)
       PROVE ProbesReady'
  BY <1>0, <1>10 DEF FreshnessLost, IdentityChanged, GivesUp, Probing, Drops,
    LoopWrites, Goes, Outdated, manager, WarmTypeOK, ProbesReady, Held
<1>11. ASSUME NEW p \in Process,
           PublishReady(p) \/ PrepareFails(p)
       PROVE ProbesReady'
  BY <1>0, <1>11 DEF PublishReady, PrepareFails, StillHeld, LoopWrites,
    Outdated, manager, known, WarmTypeOK, ProbesReady, Held
<1>12. ASSUME NEW p \in Process, Settle(p) PROVE ProbesReady'
  BY <1>0, <1>12 DEF Settle, Cleans, CurrentOwner, manager, WarmTypeOK,
    ProbesReady, Held
<1>13. ASSUME NEW p \in Process, TaskEnds(p) PROVE ProbesReady'
  BY <1>0, <1>13 DEF TaskEnds, Writes, Outdated, manager, WarmTypeOK,
    ProbesReady, Held
<1>14. ASSUME NEW p \in Process, FinishVerified(p) PROVE ProbesReady'
  BY <1>0, <1>14 DEF FinishVerified, Finds, Finish, Writes, Outdated,
    ClaimLeaves, CurrentOwner, Origin, manager, WarmTypeOK, ProbesReady, Held
<1>15. ASSUME NEW p \in Process, FinishTask(p) PROVE ProbesReady'
  BY <1>0, <1>15 DEF FinishTask, Cleans, CurrentOwner, Finish, Writes,
    Outdated, ClaimLeaves, Origin, manager, WarmTypeOK, ProbesReady, Held
<1>16. ASSUME NEW p \in Process, ReturnUnstarted(p) PROVE ProbesReady'
  BY <1>0, <1>16 DEF ReturnUnstarted, Alive, Writes, Outdated, ClaimLeaves,
    Forgets, WarmTypeOK, ProbesReady, Held
<1>17. ASSUME NEW p \in Process, Stage(p) PROVE ProbesReady'
  BY <1>0, <1>17 DEF Stage, Alive, loop, WarmTypeOK, ProbesReady, Held
<1>18. ASSUME NEW p \in Process, Bell(p) PROVE ProbesReady'
  BY <1>0, <1>18 DEF Bell, Alive, Writes, Outdated, known, WarmTypeOK,
    ProbesReady, Held
<1>19. ASSUME NEW p \in Process,
           Abandon(p) \/ Retire(p) \/ InvalidateReadiness(p)
       PROVE ProbesReady'
  BY <1>0, <1>19 DEF Abandon, Retire, InvalidateReadiness, Alive, durable,
    loop, Forgets, manager, WarmTypeOK, ProbesReady, Held
<1>20. ASSUME NEW p \in Process, BeginCleanup(p) PROVE ProbesReady'
  BY <1>0, <1>20 DEF BeginCleanup, Alive, CurrentOwner, Writes, Outdated,
    Reconciles, manager, WarmTypeOK, ProbesReady, Held
<1>21. ASSUME NEW p \in Process, NEW c \in Claim, ClaimReady(p, c) PROVE ProbesReady'
  BY <1>0, <1>21 DEF ClaimReady, Alive, Belongs, Writes, Outdated, known, Held,
    WarmTypeOK, ProbesReady
<1>22. CASE LeaseLapses \/ ClaimLapses \/ RingLapses
  BY <1>0, <1>22 DEF LeaseLapses, ClaimLapses, RingLapses, loop, manager, Held,
    WarmTypeOK, ProbesReady
<1> QED  BY <1>1, <1>2, <1>3, <1>4, <1>5, <1>6, <1>7, <1>8, <1>9, <1>10, <1>11,
    <1>12, <1>13, <1>14, <1>15, <1>16, <1>17, <1>18, <1>19, <1>20, <1>21, <1>22
    DEF Next, Loop, Tasks, Manages

LEMMA HandStep ==
  ASSUME WarmInv, Next
  PROVE  InHand'
<1> USE WarmAssumption
<1>0. WarmTypeOK /\ InHand
  BY DEF WarmInv
<1>1. ASSUME NEW p \in Process, Close(p) \/ Crash(p) PROVE InHand'
  BY <1>0, <1>1 DEF Close, Crash, Alive, Goes, Drops, Forgets, durable,
    WarmTypeOK, InHand, Held
<1>2. ASSUME NEW p \in Process, Look(p) \/ Probe(p) PROVE InHand'
  BY <1>0, <1>2 DEF Look, Probe, Goes, durable, manager, Finds, known,
    WarmTypeOK, InHand, Held
<1>3. ASSUME NEW p \in Process,
           LeadRefused(p) \/ RunsOn(p) \/ FinishRefused(p) \/
           AwaitsExpiry(p) \/ ProbeStrikes(p) \/ StaysBlocked(p) \/
           PrepareLost(p)
       PROVE InHand'
  BY <1>0, <1>3 DEF LeadRefused, RunsOn, FinishRefused, AwaitsExpiry,
    ProbeStrikes, StaysBlocked, PrepareLost, Rests, Goes, durable, known,
    manager, WarmTypeOK, InHand, Held
<1>4. ASSUME NEW p \in Process, Lead(p) PROVE InHand'
  BY <1>0, <1>4 DEF Lead, LoopWrites, Outdated, LedByOther, known, manager,
    WarmTypeOK, InHand, Held
<1>5. ASSUME NEW p \in Process, AdoptContract(p) PROVE InHand'
  BY <1>0, <1>5 DEF AdoptContract, LoopWrites, Outdated, manager, WarmTypeOK,
    InHand, Held
<1>6. ASSUME NEW p \in Process,
           FenceInherited(p) \/ FenceExpired(p)
       PROVE InHand'
  BY <1>0, <1>6 DEF FenceInherited, FenceExpired, Finds, FencesClaim, Arming,
    Writes, Outdated, Reconciles, manager, known, WarmTypeOK, InHand, Held
<1>7. ASSUME NEW p \in Process, Converges(p) PROVE InHand'
  BY <1>0, <1>7 DEF Converges, Finds, Reconciles, Goes, durable, manager,
    WarmTypeOK, InHand, Held
<1>8. ASSUME NEW p \in Process,
           RenewClaim(p) \/ Prepare(p) \/ ProbeCurrent(p)
       PROVE InHand'
  BY <1>0, <1>8 DEF RenewClaim, Prepare, ProbeCurrent, Writes, Outdated, known,
    manager, Finds, LoopWrites, Probing, Goes, WarmTypeOK, InHand, Held
<1>9. ASSUME NEW p \in Process, CapsuleMissing(p) \/ Recheck(p) PROVE InHand'
  BY <1>0, <1>9 DEF CapsuleMissing, Recheck, Finds, Drops, Writes, Outdated,
    manager, LoopWrites, known, WarmTypeOK, InHand, Held
<1>10. ASSUME NEW p \in Process,
           FreshnessLost(p) \/ IdentityChanged(p)
       PROVE InHand'
  BY <1>0, <1>10 DEF FreshnessLost, IdentityChanged, GivesUp, Probing, Drops,
    LoopWrites, Goes, Outdated, manager, WarmTypeOK, InHand, Held
<1>11. ASSUME NEW p \in Process,
           PublishReady(p) \/ PrepareFails(p)
       PROVE InHand'
  BY <1>0, <1>11 DEF PublishReady, PrepareFails, StillHeld, LoopWrites,
    Outdated, manager, known, WarmTypeOK, InHand, Held
<1>12. ASSUME NEW p \in Process, Settle(p) PROVE InHand'
  BY <1>0, <1>12 DEF Settle, Cleans, CurrentOwner, manager, WarmTypeOK, InHand,
    Held
<1>13. ASSUME NEW p \in Process, TaskEnds(p) PROVE InHand'
  BY <1>0, <1>13 DEF TaskEnds, Writes, Outdated, manager, WarmTypeOK, InHand,
    Held
<1>14. ASSUME NEW p \in Process, FinishVerified(p) PROVE InHand'
  BY <1>0, <1>14 DEF FinishVerified, Finds, Finish, Writes, Outdated,
    ClaimLeaves, CurrentOwner, Origin, manager, WarmTypeOK, InHand, Held
<1>15. ASSUME NEW p \in Process, FinishTask(p) PROVE InHand'
  BY <1>0, <1>15 DEF FinishTask, Cleans, CurrentOwner, Finish, Writes,
    Outdated, ClaimLeaves, Origin, manager, WarmTypeOK, InHand, Held
<1>16. ASSUME NEW p \in Process, ReturnUnstarted(p) PROVE InHand'
  BY <1>0, <1>16 DEF ReturnUnstarted, Alive, Writes, Outdated, ClaimLeaves,
    Forgets, WarmTypeOK, InHand, Held
<1>17. ASSUME NEW p \in Process, Stage(p) PROVE InHand'
  BY <1>0, <1>17 DEF Stage, Alive, loop, WarmTypeOK, InHand, Held
<1>18. ASSUME NEW p \in Process, Bell(p) PROVE InHand'
  BY <1>0, <1>18 DEF Bell, Alive, Writes, Outdated, known, WarmTypeOK, InHand,
    Held
<1>19. ASSUME NEW p \in Process,
           Abandon(p) \/ Retire(p) \/ InvalidateReadiness(p)
       PROVE InHand'
  BY <1>0, <1>19 DEF Abandon, Retire, InvalidateReadiness, Alive, durable,
    loop, Forgets, manager, WarmTypeOK, InHand, Held
<1>20. ASSUME NEW p \in Process, BeginCleanup(p) PROVE InHand'
  BY <1>0, <1>20 DEF BeginCleanup, Alive, CurrentOwner, Writes, Outdated,
    Reconciles, manager, WarmTypeOK, InHand, Held
<1>21. ASSUME NEW p \in Process, NEW c \in Claim, ClaimReady(p, c) PROVE InHand'
  BY <1>0, <1>21 DEF ClaimReady, Alive, Belongs, Writes, Outdated, known, Held,
    WarmTypeOK, InHand
<1>22. CASE LeaseLapses \/ ClaimLapses \/ RingLapses
  BY <1>0, <1>22 DEF LeaseLapses, ClaimLapses, RingLapses, loop, manager, Held,
    WarmTypeOK, InHand
<1> QED  BY <1>1, <1>2, <1>3, <1>4, <1>5, <1>6, <1>7, <1>8, <1>9, <1>10, <1>11,
    <1>12, <1>13, <1>14, <1>15, <1>16, <1>17, <1>18, <1>19, <1>20, <1>21, <1>22
    DEF Next, Loop, Tasks, Manages

LEMMA MadeStep ==
  ASSUME WarmInv, Next
  PROVE  Made'
<1> USE WarmAssumption
<1>0. WarmTypeOK /\ Made /\ InHand
  BY DEF WarmInv
<1>1. ASSUME NEW p \in Process, Close(p) \/ Crash(p) PROVE Made'
  BY <1>0, <1>1 DEF Close, Crash, Alive, Goes, Drops, Forgets, durable,
    WarmTypeOK, Made, InHand, Held
<1>2. ASSUME NEW p \in Process, Look(p) \/ Probe(p) PROVE Made'
  BY <1>0, <1>2 DEF Look, Probe, Goes, durable, manager, Finds, known,
    WarmTypeOK, Made, InHand, Held
<1>3. ASSUME NEW p \in Process,
           LeadRefused(p) \/ RunsOn(p) \/ FinishRefused(p) \/
           AwaitsExpiry(p) \/ ProbeStrikes(p) \/ StaysBlocked(p) \/
           PrepareLost(p)
       PROVE Made'
  BY <1>0, <1>3 DEF LeadRefused, RunsOn, FinishRefused, AwaitsExpiry,
    ProbeStrikes, StaysBlocked, PrepareLost, Rests, Goes, durable, known,
    manager, WarmTypeOK, Made, InHand, Held
<1>4. ASSUME NEW p \in Process, Lead(p) PROVE Made'
  BY <1>0, <1>4 DEF Lead, LoopWrites, Outdated, LedByOther, known, manager,
    WarmTypeOK, Made, InHand, Held
<1>5. ASSUME NEW p \in Process, AdoptContract(p) PROVE Made'
  BY <1>0, <1>5 DEF AdoptContract, LoopWrites, Outdated, manager, WarmTypeOK,
    Made, InHand, Held
<1>6. ASSUME NEW p \in Process,
           FenceInherited(p) \/ FenceExpired(p)
       PROVE Made'
  BY <1>0, <1>6 DEF FenceInherited, FenceExpired, Finds, FencesClaim, Arming,
    Writes, Outdated, Reconciles, manager, known, WarmTypeOK, Made, InHand,
    Held
<1>7. ASSUME NEW p \in Process, Converges(p) PROVE Made'
  BY <1>0, <1>7 DEF Converges, Finds, Reconciles, Goes, durable, manager,
    WarmTypeOK, Made, InHand, Held
<1>8. ASSUME NEW p \in Process,
           RenewClaim(p) \/ Prepare(p) \/ ProbeCurrent(p)
       PROVE Made'
  BY <1>0, <1>8 DEF RenewClaim, Prepare, ProbeCurrent, Writes, Outdated, known,
    manager, Finds, LoopWrites, Probing, Goes, WarmTypeOK, Made, InHand, Held
<1>9. ASSUME NEW p \in Process, CapsuleMissing(p) \/ Recheck(p) PROVE Made'
  BY <1>0, <1>9 DEF CapsuleMissing, Recheck, Finds, Drops, Writes, Outdated,
    manager, LoopWrites, known, WarmTypeOK, Made, InHand, Held
<1>10. ASSUME NEW p \in Process,
           FreshnessLost(p) \/ IdentityChanged(p)
       PROVE Made'
  BY <1>0, <1>10 DEF FreshnessLost, IdentityChanged, GivesUp, Probing, Drops,
    LoopWrites, Goes, Outdated, manager, WarmTypeOK, Made, InHand, Held
<1>11. ASSUME NEW p \in Process, PublishReady(p) \/ PrepareFails(p) PROVE Made'
  BY <1>0, <1>11 DEF PublishReady, PrepareFails, StillHeld, LoopWrites,
    Outdated, manager, known, WarmTypeOK, Made, InHand, Held
<1>12. ASSUME NEW p \in Process, Settle(p) PROVE Made'
  BY <1>0, <1>12 DEF Settle, Cleans, CurrentOwner, manager, WarmTypeOK, Made,
    InHand, Held
<1>13. ASSUME NEW p \in Process, TaskEnds(p) PROVE Made'
  BY <1>0, <1>13 DEF TaskEnds, Writes, Outdated, manager, WarmTypeOK, Made,
    InHand, Held
<1>14. ASSUME NEW p \in Process, FinishVerified(p) PROVE Made'
  BY <1>0, <1>14 DEF FinishVerified, Finds, Finish, Writes, Outdated,
    ClaimLeaves, CurrentOwner, Origin, manager, WarmTypeOK, Made, InHand, Held
<1>15. ASSUME NEW p \in Process, FinishTask(p) PROVE Made'
  BY <1>0, <1>15 DEF FinishTask, Cleans, CurrentOwner, Finish, Writes,
    Outdated, ClaimLeaves, Origin, manager, WarmTypeOK, Made, InHand, Held
<1>16. ASSUME NEW p \in Process, ReturnUnstarted(p) PROVE Made'
  BY <1>0, <1>16 DEF ReturnUnstarted, Alive, Writes, Outdated, ClaimLeaves,
    Forgets, WarmTypeOK, Made, InHand, Held
<1>17. ASSUME NEW p \in Process, Stage(p) PROVE Made'
  BY <1>0, <1>17 DEF Stage, Alive, loop, WarmTypeOK, Made, InHand, Held
<1>18. ASSUME NEW p \in Process, Bell(p) PROVE Made'
  BY <1>0, <1>18 DEF Bell, Alive, Writes, Outdated, known, WarmTypeOK, Made,
    InHand, Held
<1>19. ASSUME NEW p \in Process,
           Abandon(p) \/ Retire(p) \/ InvalidateReadiness(p)
       PROVE Made'
  BY <1>0, <1>19 DEF Abandon, Retire, InvalidateReadiness, Alive, durable,
    loop, Forgets, manager, WarmTypeOK, Made, InHand, Held
<1>20. ASSUME NEW p \in Process, BeginCleanup(p) PROVE Made'
  BY <1>0, <1>20 DEF BeginCleanup, Alive, CurrentOwner, Writes, Outdated,
    Reconciles, manager, WarmTypeOK, Made, InHand, Held
<1>21. ASSUME NEW p \in Process, NEW c \in Claim, ClaimReady(p, c) PROVE Made'
  BY <1>0, <1>21 DEF ClaimReady, Alive, Belongs, Writes, Outdated, known, Held,
    WarmTypeOK, Made, InHand
<1>22. CASE LeaseLapses \/ ClaimLapses \/ RingLapses
  BY <1>0, <1>22 DEF LeaseLapses, ClaimLapses, RingLapses, loop, manager, Held,
    WarmTypeOK, Made, InHand
<1> QED  BY <1>1, <1>2, <1>3, <1>4, <1>5, <1>6, <1>7, <1>8, <1>9, <1>10, <1>11,
    <1>12, <1>13, <1>14, <1>15, <1>16, <1>17, <1>18, <1>19, <1>20, <1>21, <1>22
    DEF Next, Loop, Tasks, Manages

LEMMA ArmingStep ==
  ASSUME WarmInv, Next
  PROVE  ArmingStands'
<1> USE WarmAssumption
<1>0. WarmTypeOK /\ ArmingStands /\ InHand /\ ClaimIsDebt /\ Made /\ SeenClean /\ ProbesReady
  BY DEF WarmInv
<1>1. ASSUME NEW p \in Process, Close(p) \/ Crash(p) PROVE ArmingStands'
  BY <1>0, <1>1 DEF Close, Crash, Alive, Goes, Drops, Forgets, durable,
    WarmTypeOK, ArmingStands, InHand, ClaimIsDebt, Made, SeenClean,
    ProbesReady, Held
<1>2. ASSUME NEW p \in Process, Look(p) \/ Probe(p) PROVE ArmingStands'
  BY <1>0, <1>2 DEF Look, Probe, Goes, durable, manager, Finds, known,
    WarmTypeOK, ArmingStands, InHand, ClaimIsDebt, Made, SeenClean,
    ProbesReady, Held
<1>3. ASSUME NEW p \in Process,
           LeadRefused(p) \/ RunsOn(p) \/ FinishRefused(p) \/
           AwaitsExpiry(p) \/ ProbeStrikes(p) \/ StaysBlocked(p) \/
           PrepareLost(p)
       PROVE ArmingStands'
  BY <1>0, <1>3 DEF LeadRefused, RunsOn, FinishRefused, AwaitsExpiry,
    ProbeStrikes, StaysBlocked, PrepareLost, Rests, Goes, durable, known,
    manager, WarmTypeOK, ArmingStands, InHand, ClaimIsDebt, Made, SeenClean,
    ProbesReady, Held
<1>4. ASSUME NEW p \in Process, Lead(p) PROVE ArmingStands'
  BY <1>0, <1>4 DEF Lead, LoopWrites, Outdated, LedByOther, known, manager,
    WarmTypeOK, ArmingStands, InHand, ClaimIsDebt, Made, SeenClean,
    ProbesReady, Held
<1>5. ASSUME NEW p \in Process, AdoptContract(p) PROVE ArmingStands'
  BY <1>0, <1>5 DEF AdoptContract, LoopWrites, Outdated, manager, WarmTypeOK,
    ArmingStands, InHand, ClaimIsDebt, Made, SeenClean, ProbesReady, Held
<1>6. ASSUME NEW p \in Process,
           FenceInherited(p) \/ FenceExpired(p)
       PROVE ArmingStands'
  BY <1>0, <1>6 DEF FenceInherited, FenceExpired, Finds, FencesClaim, Arming,
    Writes, Outdated, Reconciles, manager, known, WarmTypeOK, ArmingStands,
    InHand, ClaimIsDebt, Made, SeenClean, ProbesReady, Held
<1>7. ASSUME NEW p \in Process, Converges(p) PROVE ArmingStands'
  BY <1>0, <1>7 DEF Converges, Finds, Reconciles, Goes, durable, manager,
    WarmTypeOK, ArmingStands, InHand, ClaimIsDebt, Made, SeenClean,
    ProbesReady, Held
<1>8. ASSUME NEW p \in Process,
           RenewClaim(p) \/ Prepare(p) \/ ProbeCurrent(p)
       PROVE ArmingStands'
  BY <1>0, <1>8 DEF RenewClaim, Prepare, ProbeCurrent, Writes, Outdated, known,
    manager, Finds, LoopWrites, Probing, Goes, WarmTypeOK, ArmingStands,
    InHand, ClaimIsDebt, Made, SeenClean, ProbesReady, Held
<1>9. ASSUME NEW p \in Process,
           CapsuleMissing(p) \/ Recheck(p)
       PROVE ArmingStands'
  BY <1>0, <1>9 DEF CapsuleMissing, Recheck, Finds, Drops, Writes, Outdated,
    manager, LoopWrites, known, WarmTypeOK, ArmingStands, InHand, ClaimIsDebt,
    Made, SeenClean, ProbesReady, Held
<1>10. ASSUME NEW p \in Process,
           FreshnessLost(p) \/ IdentityChanged(p)
       PROVE ArmingStands'
  BY <1>0, <1>10 DEF FreshnessLost, IdentityChanged, GivesUp, Probing, Drops,
    LoopWrites, Goes, Outdated, manager, WarmTypeOK, ArmingStands, InHand,
    ClaimIsDebt, Made, SeenClean, ProbesReady, Held
<1>11. ASSUME NEW p \in Process,
           PublishReady(p) \/ PrepareFails(p)
       PROVE ArmingStands'
  BY <1>0, <1>11 DEF PublishReady, PrepareFails, StillHeld, LoopWrites,
    Outdated, manager, known, WarmTypeOK, ArmingStands, InHand, ClaimIsDebt,
    Made, SeenClean, ProbesReady, Held
<1>12. ASSUME NEW p \in Process, Settle(p) PROVE ArmingStands'
  BY <1>0, <1>12 DEF Settle, Cleans, CurrentOwner, manager, WarmTypeOK,
    ArmingStands, InHand, ClaimIsDebt, Made, SeenClean, ProbesReady, Held
<1>13. ASSUME NEW p \in Process, TaskEnds(p) PROVE ArmingStands'
  BY <1>0, <1>13 DEF TaskEnds, Writes, Outdated, manager, WarmTypeOK,
    ArmingStands, InHand, ClaimIsDebt, Made, SeenClean, ProbesReady, Held
<1>14. ASSUME NEW p \in Process, FinishVerified(p) PROVE ArmingStands'
  BY <1>0, <1>14 DEF FinishVerified, Finds, Finish, Writes, Outdated,
    ClaimLeaves, CurrentOwner, Origin, manager, WarmTypeOK, ArmingStands,
    InHand, ClaimIsDebt, Made, SeenClean, ProbesReady, Held
<1>15. ASSUME NEW p \in Process, FinishTask(p) PROVE ArmingStands'
  BY <1>0, <1>15 DEF FinishTask, Cleans, CurrentOwner, Finish, Writes,
    Outdated, ClaimLeaves, Origin, manager, WarmTypeOK, ArmingStands, InHand,
    ClaimIsDebt, Made, SeenClean, ProbesReady, Held
<1>16. ASSUME NEW p \in Process, ReturnUnstarted(p) PROVE ArmingStands'
  BY <1>0, <1>16 DEF ReturnUnstarted, Alive, Writes, Outdated, ClaimLeaves,
    Forgets, WarmTypeOK, ArmingStands, InHand, ClaimIsDebt, Made, SeenClean,
    ProbesReady, Held
<1>17. ASSUME NEW p \in Process, Stage(p) PROVE ArmingStands'
  BY <1>0, <1>17 DEF Stage, Alive, loop, WarmTypeOK, ArmingStands, InHand,
    ClaimIsDebt, Made, SeenClean, ProbesReady, Held
<1>18. ASSUME NEW p \in Process, Bell(p) PROVE ArmingStands'
  BY <1>0, <1>18 DEF Bell, Alive, Writes, Outdated, known, WarmTypeOK,
    ArmingStands, InHand, ClaimIsDebt, Made, SeenClean, ProbesReady, Held
<1>19. ASSUME NEW p \in Process,
           Abandon(p) \/ Retire(p) \/ InvalidateReadiness(p)
       PROVE ArmingStands'
  BY <1>0, <1>19 DEF Abandon, Retire, InvalidateReadiness, Alive, durable,
    loop, Forgets, manager, WarmTypeOK, ArmingStands, InHand, ClaimIsDebt,
    Made, SeenClean, ProbesReady, Held
<1>20. ASSUME NEW p \in Process, BeginCleanup(p) PROVE ArmingStands'
  BY <1>0, <1>20 DEF BeginCleanup, Alive, CurrentOwner, Writes, Outdated,
    Reconciles, manager, WarmTypeOK, ArmingStands, InHand, ClaimIsDebt, Made,
    SeenClean, ProbesReady, Held
<1>21. ASSUME NEW p \in Process, NEW c \in Claim, ClaimReady(p, c) PROVE ArmingStands'
  BY <1>0, <1>21 DEF ClaimReady, Alive, Belongs, Writes, Outdated, known, Held,
    WarmTypeOK, ArmingStands, InHand, ClaimIsDebt, Made, SeenClean, ProbesReady
<1>22. CASE LeaseLapses \/ ClaimLapses \/ RingLapses
  BY <1>0, <1>22 DEF LeaseLapses, ClaimLapses, RingLapses, loop, manager, Held,
    WarmTypeOK, ArmingStands, InHand, ClaimIsDebt, Made, SeenClean, ProbesReady
<1> QED  BY <1>1, <1>2, <1>3, <1>4, <1>5, <1>6, <1>7, <1>8, <1>9, <1>10, <1>11,
    <1>12, <1>13, <1>14, <1>15, <1>16, <1>17, <1>18, <1>19, <1>20, <1>21, <1>22
    DEF Next, Loop, Tasks, Manages

LEMMA SeenStep ==
  ASSUME WarmInv, Next
  PROVE  SeenClean'
<1> USE WarmAssumption
<1>0. WarmTypeOK /\ SeenClean /\ ArmingStands /\ ProbesReady /\ InHand /\ ClaimIsDebt
  BY DEF WarmInv
<1>1. ASSUME NEW p \in Process, Close(p) \/ Crash(p) PROVE SeenClean'
  BY <1>0, <1>1 DEF Close, Crash, Alive, Goes, Drops, Forgets, durable,
    WarmTypeOK, SeenClean, ArmingStands, ProbesReady, InHand, ClaimIsDebt, Held
<1>2. ASSUME NEW p \in Process, Look(p) \/ Probe(p) PROVE SeenClean'
  BY <1>0, <1>2 DEF Look, Probe, Goes, durable, manager, Finds, known,
    WarmTypeOK, SeenClean, ArmingStands, ProbesReady, InHand, ClaimIsDebt, Held
<1>3. ASSUME NEW p \in Process,
           LeadRefused(p) \/ RunsOn(p) \/ FinishRefused(p) \/
           AwaitsExpiry(p) \/ ProbeStrikes(p) \/ StaysBlocked(p) \/
           PrepareLost(p)
       PROVE SeenClean'
  BY <1>0, <1>3 DEF LeadRefused, RunsOn, FinishRefused, AwaitsExpiry,
    ProbeStrikes, StaysBlocked, PrepareLost, Rests, Goes, durable, known,
    manager, WarmTypeOK, SeenClean, ArmingStands, ProbesReady, InHand,
    ClaimIsDebt, Held
<1>4. ASSUME NEW p \in Process, Lead(p) PROVE SeenClean'
  BY <1>0, <1>4 DEF Lead, LoopWrites, Outdated, LedByOther, known, manager,
    WarmTypeOK, SeenClean, ArmingStands, ProbesReady, InHand, ClaimIsDebt, Held
<1>5. ASSUME NEW p \in Process, AdoptContract(p) PROVE SeenClean'
  BY <1>0, <1>5 DEF AdoptContract, LoopWrites, Outdated, manager, WarmTypeOK,
    SeenClean, ArmingStands, ProbesReady, InHand, ClaimIsDebt, Held
<1>6. ASSUME NEW p \in Process,
           FenceInherited(p) \/ FenceExpired(p)
       PROVE SeenClean'
  BY <1>0, <1>6 DEF FenceInherited, FenceExpired, Finds, FencesClaim, Arming,
    Writes, Outdated, Reconciles, manager, known, WarmTypeOK, SeenClean,
    ArmingStands, ProbesReady, InHand, ClaimIsDebt, Held
<1>7. ASSUME NEW p \in Process, Converges(p) PROVE SeenClean'
  BY <1>0, <1>7 DEF Converges, Finds, Reconciles, Goes, durable, manager,
    WarmTypeOK, SeenClean, ArmingStands, ProbesReady, InHand, ClaimIsDebt, Held
<1>8. ASSUME NEW p \in Process,
           RenewClaim(p) \/ Prepare(p) \/ ProbeCurrent(p)
       PROVE SeenClean'
  BY <1>0, <1>8 DEF RenewClaim, Prepare, ProbeCurrent, Writes, Outdated, known,
    manager, Finds, LoopWrites, Probing, Goes, WarmTypeOK, SeenClean,
    ArmingStands, ProbesReady, InHand, ClaimIsDebt, Held
<1>9. ASSUME NEW p \in Process,
           CapsuleMissing(p) \/ Recheck(p)
       PROVE SeenClean'
  BY <1>0, <1>9 DEF CapsuleMissing, Recheck, Finds, Drops, Writes, Outdated,
    manager, LoopWrites, known, WarmTypeOK, SeenClean, ArmingStands,
    ProbesReady, InHand, ClaimIsDebt, Held
<1>10. ASSUME NEW p \in Process,
           FreshnessLost(p) \/ IdentityChanged(p)
       PROVE SeenClean'
  BY <1>0, <1>10 DEF FreshnessLost, IdentityChanged, GivesUp, Probing, Drops,
    LoopWrites, Goes, Outdated, manager, WarmTypeOK, SeenClean, ArmingStands,
    ProbesReady, InHand, ClaimIsDebt, Held
<1>11. ASSUME NEW p \in Process,
           PublishReady(p) \/ PrepareFails(p)
       PROVE SeenClean'
  BY <1>0, <1>11 DEF PublishReady, PrepareFails, StillHeld, LoopWrites,
    Outdated, manager, known, WarmTypeOK, SeenClean, ArmingStands, ProbesReady,
    InHand, ClaimIsDebt, Held
<1>12. ASSUME NEW p \in Process, Settle(p) PROVE SeenClean'
  BY <1>0, <1>12 DEF Settle, Cleans, CurrentOwner, manager, WarmTypeOK,
    SeenClean, ArmingStands, ProbesReady, InHand, ClaimIsDebt, Held
<1>13. ASSUME NEW p \in Process, TaskEnds(p) PROVE SeenClean'
  BY <1>0, <1>13 DEF TaskEnds, Writes, Outdated, manager, WarmTypeOK,
    SeenClean, ArmingStands, ProbesReady, InHand, ClaimIsDebt, Held
<1>14. ASSUME NEW p \in Process, FinishVerified(p) PROVE SeenClean'
  BY <1>0, <1>14 DEF FinishVerified, Finds, Finish, Writes, Outdated,
    ClaimLeaves, CurrentOwner, Origin, manager, WarmTypeOK, SeenClean,
    ArmingStands, ProbesReady, InHand, ClaimIsDebt, Held
<1>15. ASSUME NEW p \in Process, FinishTask(p) PROVE SeenClean'
  BY <1>0, <1>15 DEF FinishTask, Cleans, CurrentOwner, Finish, Writes,
    Outdated, ClaimLeaves, Origin, manager, WarmTypeOK, SeenClean,
    ArmingStands, ProbesReady, InHand, ClaimIsDebt, Held
<1>16. ASSUME NEW p \in Process, ReturnUnstarted(p) PROVE SeenClean'
  BY <1>0, <1>16 DEF ReturnUnstarted, Alive, Writes, Outdated, ClaimLeaves,
    Forgets, WarmTypeOK, SeenClean, ArmingStands, ProbesReady, InHand,
    ClaimIsDebt, Held
<1>17. ASSUME NEW p \in Process, Stage(p) PROVE SeenClean'
  BY <1>0, <1>17 DEF Stage, Alive, loop, WarmTypeOK, SeenClean, ArmingStands,
    ProbesReady, InHand, ClaimIsDebt, Held
<1>18. ASSUME NEW p \in Process, Bell(p) PROVE SeenClean'
  BY <1>0, <1>18 DEF Bell, Alive, Writes, Outdated, known, WarmTypeOK,
    SeenClean, ArmingStands, ProbesReady, InHand, ClaimIsDebt, Held
<1>19. ASSUME NEW p \in Process,
           Abandon(p) \/ Retire(p) \/ InvalidateReadiness(p)
       PROVE SeenClean'
  BY <1>0, <1>19 DEF Abandon, Retire, InvalidateReadiness, Alive, durable,
    loop, Forgets, manager, WarmTypeOK, SeenClean, ArmingStands, ProbesReady,
    InHand, ClaimIsDebt, Held
<1>20. ASSUME NEW p \in Process, BeginCleanup(p) PROVE SeenClean'
  BY <1>0, <1>20 DEF BeginCleanup, Alive, CurrentOwner, Writes, Outdated,
    Reconciles, manager, WarmTypeOK, SeenClean, ArmingStands, ProbesReady,
    InHand, ClaimIsDebt, Held
<1>21. ASSUME NEW p \in Process, NEW c \in Claim, ClaimReady(p, c) PROVE SeenClean'
  BY <1>0, <1>21 DEF ClaimReady, Alive, Belongs, Writes, Outdated, known, Held,
    WarmTypeOK, SeenClean, ArmingStands, ProbesReady, InHand, ClaimIsDebt
<1>22. CASE LeaseLapses \/ ClaimLapses \/ RingLapses
  BY <1>0, <1>22 DEF LeaseLapses, ClaimLapses, RingLapses, loop, manager, Held,
    WarmTypeOK, SeenClean, ArmingStands, ProbesReady, InHand, ClaimIsDebt
<1> QED  BY <1>1, <1>2, <1>3, <1>4, <1>5, <1>6, <1>7, <1>8, <1>9, <1>10, <1>11,
    <1>12, <1>13, <1>14, <1>15, <1>16, <1>17, <1>18, <1>19, <1>20, <1>21, <1>22
    DEF Next, Loop, Tasks, Manages

LEMMA StrandedStep ==
  ASSUME WarmInv, Next
  PROVE  NoStrandedResident'
<1> USE WarmAssumption
<1>0. WarmTypeOK /\ NoStrandedResident /\ ArmingStands /\ InHand /\ Made /\ SeenClean /\ ClaimIsDebt /\ ProbesReady
  BY DEF WarmInv
<1>1. ASSUME NEW p \in Process, Close(p) \/ Crash(p) PROVE NoStrandedResident'
  BY <1>0, <1>1 DEF Close, Crash, Alive, Goes, Drops, Forgets, durable,
    WarmTypeOK, NoStrandedResident, ArmingStands, InHand, Made, SeenClean,
    ClaimIsDebt, ProbesReady, Held
<1>2. ASSUME NEW p \in Process, Look(p) \/ Probe(p) PROVE NoStrandedResident'
  BY <1>0, <1>2 DEF Look, Probe, Goes, durable, manager, Finds, known,
    WarmTypeOK, NoStrandedResident, ArmingStands, InHand, Made, SeenClean,
    ClaimIsDebt, ProbesReady, Held
<1>3. ASSUME NEW p \in Process,
           LeadRefused(p) \/ RunsOn(p) \/ FinishRefused(p) \/
           AwaitsExpiry(p) \/ ProbeStrikes(p) \/ StaysBlocked(p) \/
           PrepareLost(p)
       PROVE NoStrandedResident'
  BY <1>0, <1>3 DEF LeadRefused, RunsOn, FinishRefused, AwaitsExpiry,
    ProbeStrikes, StaysBlocked, PrepareLost, Rests, Goes, durable, known,
    manager, WarmTypeOK, NoStrandedResident, ArmingStands, InHand, Made,
    SeenClean, ClaimIsDebt, ProbesReady, Held
<1>4. ASSUME NEW p \in Process, Lead(p) PROVE NoStrandedResident'
  BY <1>0, <1>4 DEF Lead, LoopWrites, Outdated, LedByOther, known, manager,
    WarmTypeOK, NoStrandedResident, ArmingStands, InHand, Made, SeenClean,
    ClaimIsDebt, ProbesReady, Held
<1>5. ASSUME NEW p \in Process, AdoptContract(p) PROVE NoStrandedResident'
  BY <1>0, <1>5 DEF AdoptContract, LoopWrites, Outdated, manager, WarmTypeOK,
    NoStrandedResident, ArmingStands, InHand, Made, SeenClean, ClaimIsDebt,
    ProbesReady, Held
<1>6. ASSUME NEW p \in Process,
           FenceInherited(p) \/ FenceExpired(p)
       PROVE NoStrandedResident'
  BY <1>0, <1>6 DEF FenceInherited, FenceExpired, Finds, FencesClaim, Arming,
    Writes, Outdated, Reconciles, manager, known, WarmTypeOK,
    NoStrandedResident, ArmingStands, InHand, Made, SeenClean, ClaimIsDebt,
    ProbesReady, Held
<1>7. ASSUME NEW p \in Process, Converges(p) PROVE NoStrandedResident'
  BY <1>0, <1>7 DEF Converges, Finds, Reconciles, Goes, durable, manager,
    WarmTypeOK, NoStrandedResident, ArmingStands, InHand, Made, SeenClean,
    ClaimIsDebt, ProbesReady, Held
<1>8. ASSUME NEW p \in Process,
           RenewClaim(p) \/ Prepare(p) \/ ProbeCurrent(p)
       PROVE NoStrandedResident'
  BY <1>0, <1>8 DEF RenewClaim, Prepare, ProbeCurrent, Writes, Outdated, known,
    manager, Finds, LoopWrites, Probing, Goes, WarmTypeOK, NoStrandedResident,
    ArmingStands, InHand, Made, SeenClean, ClaimIsDebt, ProbesReady, Held
<1>9. ASSUME NEW p \in Process,
           CapsuleMissing(p) \/ Recheck(p)
       PROVE NoStrandedResident'
  BY <1>0, <1>9 DEF CapsuleMissing, Recheck, Finds, Drops, Writes, Outdated,
    manager, LoopWrites, known, WarmTypeOK, NoStrandedResident, ArmingStands,
    InHand, Made, SeenClean, ClaimIsDebt, ProbesReady, Held
<1>10. ASSUME NEW p \in Process,
           FreshnessLost(p) \/ IdentityChanged(p)
       PROVE NoStrandedResident'
  BY <1>0, <1>10 DEF FreshnessLost, IdentityChanged, GivesUp, Probing, Drops,
    LoopWrites, Goes, Outdated, manager, WarmTypeOK, NoStrandedResident,
    ArmingStands, InHand, Made, SeenClean, ClaimIsDebt, ProbesReady, Held
<1>11. ASSUME NEW p \in Process,
           PublishReady(p) \/ PrepareFails(p)
       PROVE NoStrandedResident'
  BY <1>0, <1>11 DEF PublishReady, PrepareFails, StillHeld, LoopWrites,
    Outdated, manager, known, WarmTypeOK, NoStrandedResident, ArmingStands,
    InHand, Made, SeenClean, ClaimIsDebt, ProbesReady, Held
<1>12. ASSUME NEW p \in Process, Settle(p) PROVE NoStrandedResident'
  BY <1>0, <1>12 DEF Settle, Cleans, CurrentOwner, manager, WarmTypeOK,
    NoStrandedResident, ArmingStands, InHand, Made, SeenClean, ClaimIsDebt,
    ProbesReady, Held
<1>13. ASSUME NEW p \in Process, TaskEnds(p) PROVE NoStrandedResident'
  BY <1>0, <1>13 DEF TaskEnds, Writes, Outdated, manager, WarmTypeOK,
    NoStrandedResident, ArmingStands, InHand, Made, SeenClean, ClaimIsDebt,
    ProbesReady, Held
<1>14. ASSUME NEW p \in Process, FinishVerified(p) PROVE NoStrandedResident'
  BY <1>0, <1>14 DEF FinishVerified, Finds, Finish, Writes, Outdated,
    ClaimLeaves, CurrentOwner, Origin, manager, WarmTypeOK, NoStrandedResident,
    ArmingStands, InHand, Made, SeenClean, ClaimIsDebt, ProbesReady, Held
<1>15. ASSUME NEW p \in Process, FinishTask(p) PROVE NoStrandedResident'
  BY <1>0, <1>15 DEF FinishTask, Cleans, CurrentOwner, Finish, Writes,
    Outdated, ClaimLeaves, Origin, manager, WarmTypeOK, NoStrandedResident,
    ArmingStands, InHand, Made, SeenClean, ClaimIsDebt, ProbesReady, Held
<1>16. ASSUME NEW p \in Process, ReturnUnstarted(p) PROVE NoStrandedResident'
  BY <1>0, <1>16 DEF ReturnUnstarted, Alive, Writes, Outdated, ClaimLeaves,
    Forgets, WarmTypeOK, NoStrandedResident, ArmingStands, InHand, Made,
    SeenClean, ClaimIsDebt, ProbesReady, Held
<1>17. ASSUME NEW p \in Process, Stage(p) PROVE NoStrandedResident'
  BY <1>0, <1>17 DEF Stage, Alive, loop, WarmTypeOK, NoStrandedResident,
    ArmingStands, InHand, Made, SeenClean, ClaimIsDebt, ProbesReady, Held
<1>18. ASSUME NEW p \in Process, Bell(p) PROVE NoStrandedResident'
  BY <1>0, <1>18 DEF Bell, Alive, Writes, Outdated, known, WarmTypeOK,
    NoStrandedResident, ArmingStands, InHand, Made, SeenClean, ClaimIsDebt,
    ProbesReady, Held
<1>19. ASSUME NEW p \in Process,
           Abandon(p) \/ Retire(p) \/ InvalidateReadiness(p)
       PROVE NoStrandedResident'
  BY <1>0, <1>19 DEF Abandon, Retire, InvalidateReadiness, Alive, durable,
    loop, Forgets, manager, WarmTypeOK, NoStrandedResident, ArmingStands,
    InHand, Made, SeenClean, ClaimIsDebt, ProbesReady, Held
<1>20. ASSUME NEW p \in Process, BeginCleanup(p) PROVE NoStrandedResident'
  BY <1>0, <1>20 DEF BeginCleanup, Alive, CurrentOwner, Writes, Outdated,
    Reconciles, manager, WarmTypeOK, NoStrandedResident, ArmingStands, InHand,
    Made, SeenClean, ClaimIsDebt, ProbesReady, Held
<1>21. ASSUME NEW p \in Process, NEW c \in Claim, ClaimReady(p, c) PROVE NoStrandedResident'
  BY <1>0, <1>21 DEF ClaimReady, Alive, Belongs, Writes, Outdated, known, Held,
    WarmTypeOK, NoStrandedResident, ArmingStands, InHand, Made, SeenClean,
    ClaimIsDebt, ProbesReady
<1>22. CASE LeaseLapses \/ ClaimLapses \/ RingLapses
  BY <1>0, <1>22 DEF LeaseLapses, ClaimLapses, RingLapses, loop, manager, Held,
    WarmTypeOK, NoStrandedResident, ArmingStands, InHand, Made, SeenClean,
    ClaimIsDebt, ProbesReady
<1> QED  BY <1>1, <1>2, <1>3, <1>4, <1>5, <1>6, <1>7, <1>8, <1>9, <1>10, <1>11,
    <1>12, <1>13, <1>14, <1>15, <1>16, <1>17, <1>18, <1>19, <1>20, <1>21, <1>22
    DEF Next, Loop, Tasks, Manages

-----------------------------------------------------------------------------
(* The promise of the slot, step by step.                                  *)
Use == IF slot.state \in Held THEN slot.state ELSE "idle"

(* What the promise does not tell apart.                                   *)
Same ==
  slot'.generation = slot.generation /\ Use' = Use /\ slot'.claim = slot.claim /\ used' = used

LEMMA SameIsStutter == ASSUME Same PROVE UNCHANGED Promise!slotVars
BY DEF Same, Use, Promise!slotVars

LEMMA PromiseStep ==
  ASSUME WarmInv, Next
  PROVE  Promise!SlotNext \/ UNCHANGED Promise!slotVars
<1> USE WarmAssumption
<1>0. WarmTypeOK /\ ClaimIsDebt /\ ProbesReady /\ InHand
  BY DEF WarmInv
<1> DEFINE Goal == Promise!SlotNext \/ UNCHANGED Promise!slotVars
<1>1. ASSUME NEW p \in Process, Close(p) \/ Crash(p) PROVE Goal
  <2>1. Same
    BY <1>0, <1>1 DEF Close, Crash, Alive, Goes, Drops, Forgets, durable,
      WarmTypeOK, Held, Use, Same
  <2> QED  BY <2>1, SameIsStutter
<1>2. ASSUME NEW p \in Process, Look(p) \/ Probe(p) PROVE Goal
  <2>1. Same
    BY <1>0, <1>2 DEF Look, Probe, Goes, durable, manager, Finds, known,
      WarmTypeOK, Held, Use, Same
  <2> QED  BY <2>1, SameIsStutter
<1>3. ASSUME NEW p \in Process,
           LeadRefused(p) \/ RunsOn(p) \/ FinishRefused(p) \/
           AwaitsExpiry(p) \/ ProbeStrikes(p) \/ StaysBlocked(p) \/
           PrepareLost(p)
       PROVE Goal
  <2>1. Same
    BY <1>0, <1>3 DEF LeadRefused, RunsOn, FinishRefused, AwaitsExpiry,
      ProbeStrikes, StaysBlocked, PrepareLost, Rests, Goes, durable, known,
      manager, WarmTypeOK, Held, Use, Same
  <2> QED  BY <2>1, SameIsStutter
<1>4. ASSUME NEW p \in Process, Lead(p) PROVE Goal
  <2>1. Same
    BY <1>0, <1>4 DEF Lead, LoopWrites, Outdated, LedByOther, known, manager,
      WarmTypeOK, Held, Use, Same
  <2> QED  BY <2>1, SameIsStutter
<1>5. ASSUME NEW p \in Process, AdoptContract(p) PROVE Goal
  <2>1. Promise!Replace
    BY <1>0, <1>5 DEF AdoptContract, LoopWrites, Outdated, manager, WarmTypeOK,
      Held, Use, Promise!Replace
  <2> QED  BY <2>1 DEF Promise!SlotNext
<1>6. ASSUME NEW p \in Process, FenceInherited(p) \/ FenceExpired(p) PROVE Goal
  <2>1. Promise!Fence
    BY <1>0, <1>6 DEF FenceInherited, FenceExpired, Finds, FencesClaim, Arming,
      Writes, Outdated, Reconciles, manager, known, WarmTypeOK, Held, Use,
      Promise!Fence
  <2> QED  BY <2>1 DEF Promise!SlotNext
<1>7. ASSUME NEW p \in Process, Converges(p) PROVE Goal
  <2>1. Same
    BY <1>0, <1>7 DEF Converges, Finds, Reconciles, Goes, durable, manager,
      WarmTypeOK, Held, Use, Same
  <2> QED  BY <2>1, SameIsStutter
<1>8. ASSUME NEW p \in Process,
           RenewClaim(p) \/ Prepare(p) \/ ProbeCurrent(p)
       PROVE Goal
  <2>1. Same
    BY <1>0, <1>8 DEF RenewClaim, Prepare, ProbeCurrent, Writes, Outdated,
      known, manager, Finds, LoopWrites, Probing, Goes, WarmTypeOK, Held, Use,
      Same
  <2> QED  BY <2>1, SameIsStutter
<1>9. ASSUME NEW p \in Process, CapsuleMissing(p) \/ Recheck(p) PROVE Goal
  <2>1. Same
    BY <1>0, <1>9 DEF CapsuleMissing, Recheck, Finds, Drops, Writes, Outdated,
      manager, LoopWrites, known, WarmTypeOK, Held, Use, Same
  <2> QED  BY <2>1, SameIsStutter
<1>10. ASSUME NEW p \in Process,
           FreshnessLost(p) \/ IdentityChanged(p)
       PROVE Goal
  <2>1. Same
    BY <1>0, <1>10 DEF FreshnessLost, IdentityChanged, GivesUp, Probing, Drops,
      LoopWrites, Goes, Outdated, manager, WarmTypeOK, ProbesReady, Held, Use,
      Same
  <2> QED  BY <2>1, SameIsStutter
<1>11. ASSUME NEW p \in Process, PublishReady(p) \/ PrepareFails(p) PROVE Goal
  <2>1. Same
    BY <1>0, <1>11 DEF PublishReady, PrepareFails, StillHeld, LoopWrites,
      Outdated, manager, known, WarmTypeOK, Held, Use, Same
  <2> QED  BY <2>1, SameIsStutter
<1>12. ASSUME NEW p \in Process, Settle(p) PROVE Goal
  <2>1. Same
    BY <1>0, <1>12 DEF Settle, Cleans, CurrentOwner, manager, WarmTypeOK, Held,
      Use, Same
  <2> QED  BY <2>1, SameIsStutter
<1>13. ASSUME NEW p \in Process, TaskEnds(p) PROVE Goal
  <2>1. Same
    BY <1>0, <1>13 DEF TaskEnds, Writes, Outdated, manager, WarmTypeOK, Held,
      Use, Same
  <2> QED  BY <2>1, SameIsStutter
<1>14. ASSUME NEW p \in Process, FinishVerified(p) PROVE Goal
  <2>1. Promise!Cleaned
    BY <1>0, <1>14 DEF FinishVerified, Finds, Finish, Writes, ClaimLeaves,
      manager, WarmTypeOK, Held, Use, Promise!Cleaned
  <2> QED  BY <2>1 DEF Promise!SlotNext
<1>15. ASSUME NEW p \in Process, FinishTask(p) PROVE Goal
  <2>1. Promise!Cleaned
    BY <1>0, <1>15 DEF FinishTask, Cleans, Finish, Writes, ClaimLeaves,
      manager, WarmTypeOK, Held, Use, Promise!Cleaned
  <2> QED  BY <2>1 DEF Promise!SlotNext
<1>16. ASSUME NEW p \in Process, ReturnUnstarted(p) PROVE Goal
  <2>1. Promise!GiveBack
    BY <1>0, <1>16 DEF ReturnUnstarted, Alive, Writes, Outdated, ClaimLeaves,
      Forgets, WarmTypeOK, Held, Use, Promise!GiveBack
  <2> QED  BY <2>1 DEF Promise!SlotNext
<1>17. ASSUME NEW p \in Process, Stage(p) PROVE Goal
  <2>1. Same
    BY <1>0, <1>17 DEF Stage, Alive, loop, WarmTypeOK, Held, Use, Same
  <2> QED  BY <2>1, SameIsStutter
<1>18. ASSUME NEW p \in Process, Bell(p) PROVE Goal
  <2>1. Promise!Ring
    BY <1>0, <1>18 DEF Bell, Alive, Writes, Outdated, known, WarmTypeOK, Held,
      Use, Promise!Ring
  <2> QED  BY <2>1 DEF Promise!SlotNext
<1>19. ASSUME NEW p \in Process,
           Abandon(p) \/ Retire(p) \/ InvalidateReadiness(p)
       PROVE Goal
  <2>1. Same
    BY <1>0, <1>19 DEF Abandon, Retire, InvalidateReadiness, Alive, durable,
      loop, Forgets, manager, WarmTypeOK, Held, Use, Same
  <2> QED  BY <2>1, SameIsStutter
<1>20. ASSUME NEW p \in Process, BeginCleanup(p) PROVE Goal
  <2>1. CASE slot.state = "cleaning"
    <3>1. Same
      BY <1>0, <1>20, <2>1 DEF BeginCleanup, Alive, CurrentOwner, Writes,
        Outdated, Reconciles, manager, WarmTypeOK, ClaimIsDebt, ProbesReady,
        InHand, Held, Use, Same
    <3> QED  BY <3>1, SameIsStutter
  <2>2. CASE slot.state # "cleaning"
    <3>1. Promise!Fence
      BY <1>0, <1>20, <2>2 DEF BeginCleanup, Alive, CurrentOwner, Writes,
        Outdated, Reconciles, manager, WarmTypeOK, ClaimIsDebt, ProbesReady,
        InHand, Held, Use, Promise!Fence
    <3> QED  BY <3>1 DEF Promise!SlotNext
  <2> QED  BY <2>1, <2>2
<1>21. ASSUME NEW p \in Process, NEW c \in Claim, ClaimReady(p, c) PROVE Goal
  <2>1. Promise!Lend(c)
    BY <1>0, <1>21 DEF ClaimReady, Writes, known, WarmTypeOK, ClaimIsDebt,
      Held, Promise!Lend
  <2> QED  BY <2>1 DEF Promise!SlotNext
<1>22. CASE LeaseLapses \/ ClaimLapses \/ RingLapses
  <2>1. Same
    BY <1>22 DEF LeaseLapses, ClaimLapses, RingLapses, Same, Use
  <2> QED  BY <2>1, SameIsStutter
<1> QED  BY <1>1, <1>2, <1>3, <1>4, <1>5, <1>6, <1>7, <1>8, <1>9, <1>10, <1>11,
    <1>12, <1>13, <1>14, <1>15, <1>16, <1>17, <1>18, <1>19, <1>20, <1>21, <1>22
    DEF Next, Loop, Tasks, Manages

-----------------------------------------------------------------------------
(* The theorems.                                                           *)
LEMMA WarmInitially == ASSUME Init PROVE WarmInv
<1> USE WarmAssumption
<1>1. [q \in Process |-> FALSE] \in [Process -> BOOLEAN]
  BY Zenon
<1>2. slot \in Row
  BY DEF Init, Row, States
<1>3. WarmTypeOK
  BY <1>1, <1>2 DEF Init, WarmTypeOK, Row, States
<1> QED
  BY <1>3 DEF Init, WarmInv, ClaimIsDebt, Held, CapsulesAreLed, Belongs, ProbesReady, InHand,
    Made, ArmingStands, SeenClean, NoStrandedResident

LEMMA WarmInvariance == Spec => []WarmInv
<1>1. ASSUME WarmInv, Next PROVE WarmInv'
  BY <1>1, TypeStep, DebtStep, CapsuleStep, ProbeStep, HandStep, MadeStep, ArmingStep, SeenStep,
    StrandedStep DEF WarmInv
<1>2. ASSUME WarmInv, UNCHANGED vars PROVE WarmInv'
  BY <1>2 DEF vars, WarmInv, WarmTypeOK, ClaimIsDebt, Held, CapsulesAreLed, Belongs, ProbesReady,
    InHand, Made, ArmingStands, SeenClean, NoStrandedResident
<1> QED  BY WarmInitially, <1>1, <1>2, PTL DEF Spec

(* Row, rings, loops, capsules and managers keep their types.              *)
THEOREM WarmTypeCorrect == Spec => []WarmTypeOK
<1>1. WarmInv => WarmTypeOK
  BY DEF WarmInv
<1> QED  BY <1>1, WarmInvariance, PTL

(* The row owes a cleanup exactly while it holds a claim, whichever of any *)
(* number of processes warms, probes, publishes, fences or finishes it.    *)
THEOREM DebtIsInTheRow == Spec => []ClaimIsDebt
<1>1. WarmInv => ClaimIsDebt
  BY DEF WarmInv
<1> QED  BY <1>1, WarmInvariance, PTL

(* Of all processes that ever led the slot, at most one holds a capsule it *)
(* could launch from: the fence of the row belongs to one leader.          *)
THEOREM OneCanLaunch == Spec => []OneLauncher
<1>1. WarmInv => OneLauncher
  BY DEF WarmInv, CapsulesAreLed, OneLauncher
<1> QED  BY <1>1, WarmInvariance, PTL

(* A claim that left the row has nothing staged, unless it was fenced      *)
(* under a manager that was still arming it.                               *)
THEOREM NothingStaysStaged == Spec => []NoStrandedResident
<1>1. WarmInv => NoStrandedResident
  BY DEF WarmInv
<1> QED  BY <1>1, WarmInvariance, PTL

(* The slot keeps its promise to those who arm: a generation is lent to    *)
(* one claim at a time and rung for one bout at most.                      *)
THEOREM SlotKeepsPromise == Spec => KeepsPromise
<1>1. Init => Promise!SlotInit
  BY DEF Init, Held, Promise!SlotInit
<1>2. ASSUME WarmInv, [Next]_vars PROVE [Promise!SlotNext]_(Promise!slotVars)
  <2>1. CASE UNCHANGED vars
    BY <2>1 DEF vars, Promise!slotVars
  <2> QED  BY <1>2, <2>1, PromiseStep
<1> QED  BY <1>1, <1>2, WarmInvariance, PTL DEF Spec, KeepsPromise, Promise!SlotSpec
=============================================================================
