-------------------------- MODULE PipelinePowerProofs --------------------------
(***************************************************************************)
(* Theorems of PipelinePower, for every set of replicas and every bound:   *)
(* its types, what a recorded stop settles, what can stop the pipeline     *)
(* under a race, and that a process serving alone, whose bouts do not      *)
(* overlap, never hides a running start's debt.                            *)
(***************************************************************************)
EXTENDS PipelinePower, TLAPS

-----------------------------------------------------------------------------
(* Type correctness.                                                       *)

LEMMA Names ==
  /\ \A c \in Card : c.of \in Replica /\ c.slot \in Slot /\ c \in Holder /\ c # None
  /\ \A r \in Replica : Recoverer(r) \in Holder \ Card /\ Recoverer(r) # None
BY NoneAssumption DEF Card, Holder, Recoverer

LEMMA NoLaneType == NoLane \in Lane
BY DEF NoLane, Lane, Stage

LEMMA NewProcessType ==
  /\ NewProcess \in Process
  /\ [NewProcess EXCEPT !.life = "down"] \in Process
  /\ [NewProcess EXCEPT !.life = "closed"] \in Process
BY DEF NewProcess, Process

(* What Settles makes of a lane.                                           *)
LEMMA SettlingType ==
  ASSUME NEW l \in Lane
  PROVE  [l EXCEPT !.stage = "settling", !.after = "idle", !.minting = FALSE, !.reserved = 0]
           \in Lane
BY DEF Lane, Stage

LEMMA LaneTyped ==
  ASSUME PowerTypeOK, NEW c \in Card, NEW l \in Lane, Becomes(c, l)
  PROVE  lane' \in [Card -> Lane]
BY DEF PowerTypeOK, Becomes

LEMMA RememberTyped ==
  ASSUME PowerTypeOK, NEW c \in Card, NEW s \in Slot \cup {None},
         proc' = [proc EXCEPT ![c.of].prior = s]
  PROVE  proc' \in [Replica -> Process]
BY Names DEF PowerTypeOK, Process

LEMMA ForgetTyped ==
  ASSUME PowerTypeOK, NEW c \in Card, Forgets(c)
  PROVE  proc' \in [Replica -> Process]
BY Names DEF PowerTypeOK, Process, Forgets

(* A process that goes or comes takes all its cards along.                 *)
LEMMA CardsReset ==
  ASSUME PowerTypeOK, NEW r \in Replica,
         lane' = [c \in Card |-> IF c.of = r THEN NoLane ELSE lane[c]]
  PROVE  lane' \in [Card -> Lane]
BY NoLaneType DEF PowerTypeOK

LEMMA NoRecoveryType == NoRecovery \in Recovery
BY DEF NoRecovery, Recovery, Step

LEMMA RecoveryReads ==
  ASSUME NEW x \in Recovery, NEW s \in Step, NEW n \in Start \cup {0}
  PROVE  [x EXCEPT !.step = s, !.debt = n] \in Recovery
BY DEF Recovery

LEMMA RecoverySees ==
  ASSUME NEW x \in Recovery, NEW s \in Step, NEW c \in {"healthy", "stopped", "failed"}
  PROVE  [x EXCEPT !.step = s, !.signals = c] \in Recovery
BY DEF Recovery

LEMMA RecoveryBegins ==
  ASSUME NEW x \in Recovery, NEW s \in Step, NEW n \in Start \cup {0}
  PROVE  [x EXCEPT !.debt = n, !.step = s] \in Recovery
BY DEF Recovery

LEMMA DebtIsNamed ==
  ASSUME PowerTypeOK, NEW r \in Replica, NEW x, RecBecomes(r, x), x.step # "off" => x.debt # 0
  PROVE  \A o \in Replica : rec'[o].step # "off" => rec'[o].debt # 0
BY DEF RecBecomes, PowerTypeOK

LEMMA RingLeft ==
  ASSUME ring \in Holder \cup {None}, NEW h
  PROVE  Without(h) \in Holder \cup {None}
BY DEF Without

LEMMA ReadKeeps ==
  ASSUME PowerTypeOK, NEW r \in Replica, NEW from, NEW to \in Step, RecRead(r, from, to)
  PROVE  PowerTypeOK'
<1> USE DEF PowerTypeOK
<1>1. PICK debt \in Start \cup {0} :
        LET paid == debt = 0
            early == ~paid /\ debt \notin due
            s == IF paid THEN "off" ELSE IF early THEN "waiting" ELSE to
        IN /\ rec' = [rec EXCEPT ![r] = [rec[r] EXCEPT !.step = s, !.debt = debt]]
           /\ ring' = IF paid \/ early THEN Without(Recoverer(r)) ELSE ring
  BY DEF RecRead, RecBecomes
<1> DEFINE s == IF debt = 0 THEN "off" ELSE IF debt \notin due THEN "waiting" ELSE to
           x == [rec[r] EXCEPT !.step = s, !.debt = debt]
<1>2. s \in Step /\ rec[r] \in Recovery
  BY DEF Step
<1>3. x \in Recovery /\ x.step = s /\ x.debt = debt
  <2>1. x \in Recovery
    <3> HIDE DEF s
    <3> QED  BY <1>2, RecoveryReads
  <2> QED  BY <1>2, <2>1 DEF Recovery
<1>4. rec' = [rec EXCEPT ![r] = x]
  BY <1>1
<1> HIDE DEF x
<1>5. rec' \in [Replica -> Recovery]
  BY <1>3, <1>4
<1>6. \A o \in Replica : rec'[o].step # "off" => rec'[o].debt # 0
  <2>1. x.step # "off" => x.debt # 0
    BY <1>3
  <2> QED  BY <1>4, <2>1
<1>7. ring' \in Holder \cup {None}
  BY <1>1, RingLeft
<1> QED  BY <1>5, <1>6, <1>7 DEF RecRead, cloud, history

LEMMA BootKeeps ==
  ASSUME PowerTypeOK, NEW r \in Replica, Boot(r)
  PROVE  PowerTypeOK'
<1> USE DEF PowerTypeOK
<1>1. PICK debt \in Start \cup {0} :
        rec' = [rec EXCEPT ![r] = [NoRecovery EXCEPT
                  !.debt = debt, !.step = IF debt = 0 THEN "off" ELSE "waiting"]]
  BY DEF Boot, RecBecomes
<1> DEFINE s == IF debt = 0 THEN "off" ELSE "waiting"
           x == [NoRecovery EXCEPT !.debt = debt, !.step = s]
<1>2. x \in Recovery /\ x.step = s /\ x.debt = debt
  <2>1. s \in Step
    BY DEF Step
  <2> HIDE DEF s
  <2> QED  BY <2>1, NoRecoveryType, RecoveryBegins DEF NoRecovery
<1>3. rec' = [rec EXCEPT ![r] = x]
  BY <1>1
<1> HIDE DEF x
<1>4. rec' \in [Replica -> Recovery]
  BY <1>2, <1>3
<1>5. \A o \in Replica : rec'[o].step # "off" => rec'[o].debt # 0
  <2>1. x.step # "off" => x.debt # 0
    BY <1>2
  <2> QED  BY <1>3, <2>1
<1>6. lane' \in [Card -> Lane]
  BY CardsReset DEF Boot
<1>7. proc' \in [Replica -> Process]
  BY NewProcessType DEF Boot
<1> QED  BY <1>4, <1>5, <1>6, <1>7 DEF Boot, cloud, history

LEMMA CardTypes ==
  ASSUME PowerTypeOK, NEW c \in Card, CardStep(c)
  PROVE  PowerTypeOK'
<1> USE DEF PowerTypeOK, cloud, history
<1>a. /\ lane[c] \in Lane /\ c.of \in Replica /\ c.slot \in Slot /\ c \in Holder
      /\ proc[c.of] \in Process
  BY Names
<1>b. Without(c) \in Holder \cup {None}
  BY RingLeft
<1>1. CASE ReadFloor(c)
  <2>1. [lane[c] EXCEPT !.minting = TRUE, !.floor = newest] \in Lane
    BY <1>a DEF Lane
  <2> QED  BY <1>1, <2>1, LaneTyped DEF ReadFloor
<1>2. CASE Reserve(c)
  <2>1. PICK n \in Start :
          /\ newest' = n
          /\ proc' = [proc EXCEPT ![c.of].last = n]
          /\ Becomes(c, [lane[c] EXCEPT
               !.minting = FALSE, !.floor = 0,
               !.reserved = IF ForStart(c) THEN n ELSE @,
               !.pair = IF ForStart(c) THEN @ ELSE n])
    BY <1>2 DEF Reserve
  <2>2. [lane[c] EXCEPT !.minting = FALSE, !.floor = 0,
           !.reserved = IF ForStart(c) THEN n ELSE @,
           !.pair = IF ForStart(c) THEN @ ELSE n] \in Lane
    BY <1>a DEF Lane
  <2>3. lane' \in [Card -> Lane]
    BY <2>1, <2>2, LaneTyped
  <2>4. proc' \in [Replica -> Process]
    BY <1>a, <2>1 DEF Process
  <2> QED  BY <1>2, <2>1, <2>3, <2>4 DEF Reserve
<1>3. CASE Claim(c)
  <2>1. [NoLane EXCEPT !.stage = "waiting", !.heeds = proc[c.of].prior] \in Lane
    BY <1>a, NoLaneType DEF Lane, Process, Stage
  <2> QED  BY <1>a, <1>3, <2>1, LaneTyped DEF Claim
<1>4. CASE Prepare(c)
  <2>1. GoesPast(c) \in SUBSET Slot
    BY Names DEF GoesPast, Others, Cards
  <2>2. [lane[c] EXCEPT !.stage = "preparing", !.heeds = None, !.past = GoesPast(c)] \in Lane
    BY <1>a, <2>1 DEF Lane, Stage
  <2> QED  BY <1>4, <2>2, LaneTyped DEF Prepare, Overlaps
<1>5. CASE Park(c)
  <2>1. pending' \in [Replica -> SUBSET Row]
    BY <1>5, <1>a DEF Park, Row, Lane
  <2> QED  BY <1>5, <2>1 DEF Park
<1>6. CASE ParkUnrecorded(c)
  <2>1. [lane[c] EXCEPT !.minting = FALSE] \in Lane
    BY <1>a DEF Lane
  <2>2. lane' \in [Card -> Lane]
    BY <1>6, <2>1, LaneTyped, NoLaneType DEF ParkUnrecorded
  <2>3. ring' \in Holder \cup {None}
    BY <1>b, <1>6 DEF ParkUnrecorded
  <2>4. running' = 0 /\ failed' = FALSE /\ faults' \in Nat
    BY <1>6 DEF ParkUnrecorded, Fault
  <2> QED  BY <1>6, <2>2, <2>3, <2>4 DEF ParkUnrecorded
<1>7. CASE Armed(c)
  <2>1. [lane[c] EXCEPT !.stage = "armed"] \in Lane
    BY <1>a DEF Lane, Stage
  <2> QED  BY <1>7, <2>1, LaneTyped DEF Armed, Goto
<1>8. CASE SettleFirst(c)
  <2>1. [lane[c] EXCEPT !.stage = "settling", !.after = "armed"] \in Lane
    BY <1>a DEF Lane, Stage
  <2> QED  BY <1>8, <2>1, LaneTyped DEF SettleFirst
<1>9. CASE Abandon(c)
  BY <1>9, <1>b, LaneTyped, NoLaneType DEF Abandon
<1>10. CASE RingBell(c)
  <2>1. [lane[c] EXCEPT !.stage = "ringing"] \in Lane
    BY <1>a DEF Lane, Stage
  <2> QED  BY <1>10, <2>1, LaneTyped DEF RingBell, Goto
<1>11. ASSUME NEW records \in SUBSET Row, Started(c, records), faults' \in Nat PROVE PowerTypeOK'
  <2>1. [lane[c] EXCEPT !.stage = IF @ = "ringing" THEN "racing" ELSE "settling",
                        !.pair = lane[c].reserved, !.reserved = 0] \in Lane
    BY <1>a DEF Lane, Stage
  <2>2. lane' \in [Card -> Lane]
    BY <1>11, <2>1, LaneTyped DEF Started
  <2>3. pending' \in [Replica -> SUBSET Row] /\ running' \in Start \cup {0}
    BY <1>11, <1>a DEF Started, Lane
  <2> QED  BY <1>11, <2>2, <2>3 DEF Started
<1>12. CASE StartLane(c)
  <2>1. [intent : {"resuming", "stop_owed"}, start : {lane[c].reserved}] \in SUBSET Row
    BY <1>a, <1>12 DEF StartLane, Started, Row, Lane
  <2> QED  BY <1>11, <1>12, <2>1 DEF StartLane
<1>13. CASE StartUnanswered(c)
  BY <1>11, <1>13 DEF StartUnanswered, Fault
<1>14. CASE RaceEnds(c)
  <2>1. [lane[c] EXCEPT !.stage = "ended", !.minting = FALSE, !.reserved = 0] \in Lane
    BY <1>a DEF Lane, Stage
  <2> QED  BY <1>b, <1>14, <2>1, LaneTyped DEF RaceEnds
<1>15. CASE Schedule(c)
  <2>1. lane' \in [Card -> Lane]
    BY <1>a, <1>15, SettlingType, LaneTyped DEF Schedule, Settles
  <2>2. proc' \in [Replica -> Process]
    BY <1>a, <1>15, RememberTyped DEF Schedule
  <2> QED  BY <1>15, <2>1, <2>2 DEF Schedule
<1>16. CASE Towel(c)
  <2>1. lane' \in [Card -> Lane]
    BY <1>a, <1>16, SettlingType, LaneTyped DEF Towel, Settles
  <2> QED  BY <1>16, <2>1 DEF Towel
<1>17. CASE LoseRing(c)
  <2>1. [lane[c] EXCEPT !.lost = TRUE] \in Lane
    BY <1>a DEF Lane
  <2>2. lane' \in [Card -> Lane]
    BY <1>17, <2>1, SettlingType, LaneTyped DEF LoseRing, Settles
  <2>3. proc' \in [Replica -> Process]
    BY <1>a, <1>17, RememberTyped DEF LoseRing
  <2> QED  BY <1>b, <1>17, <2>2, <2>3 DEF LoseRing, Overlaps
<1>18. CASE Carry(c)
  <2>1. [lane[c] EXCEPT !.stage = "carrying"] \in Lane
    BY <1>a DEF Lane, Stage
  <2> QED  BY <1>18, <2>1, LaneTyped DEF Carry, Goto
<1>19. CASE CarryFails(c)
  <2>1. [lane[c] EXCEPT !.stage = "settling", !.minting = FALSE, !.reserved = 0] \in Lane
    BY <1>a DEF Lane, Stage
  <2> QED  BY <1>19, <2>1, LaneTyped DEF CarryFails
<1>20. CASE SettleEnds(c)
  <2>1. [lane[c] EXCEPT !.stage = "armed", !.after = "idle", !.minting = FALSE] \in Lane
    BY <1>a DEF Lane, Stage
  <2>2. lane' \in [Card -> Lane]
    BY <1>20, <2>1, LaneTyped, NoLaneType DEF SettleEnds
  <2>3. proc' \in [Replica -> Process]
    BY <1>20, ForgetTyped DEF SettleEnds
  <2> QED  BY <1>b, <1>20, <2>2, <2>3 DEF SettleEnds
<1>21. CASE SettleGivesUp(c)
  <2>1. lane' \in [Card -> Lane] /\ proc' \in [Replica -> Process]
    BY <1>21, LaneTyped, NoLaneType, ForgetTyped DEF SettleGivesUp
  <2> QED  BY <1>b, <1>21, <2>1 DEF SettleGivesUp, Fault
<1> QED
  BY <1>1, <1>2, <1>3, <1>4, <1>5, <1>6, <1>7, <1>8, <1>9, <1>10, <1>12, <1>13, <1>14, <1>15,
     <1>16, <1>17, <1>18, <1>19, <1>20, <1>21
  DEF CardStep, Carries

LEMMA ReplicaTypes ==
  ASSUME PowerTypeOK, NEW r \in Replica, ReplicaStep(r)
  PROVE  PowerTypeOK'
<1> USE DEF PowerTypeOK, cloud, history, RecBecomes
<1>a. rec[r] \in Recovery
  OBVIOUS
<1>b. Without(Recoverer(r)) \in Holder \cup {None} /\ Recoverer(r) \in Holder
  BY RingLeft, Names
<1>1. CASE CommitRow(r)
  <2>1. rows' \subseteq Row
    BY <1>1 DEF CommitRow
  <2> QED  BY <1>1, <2>1 DEF CommitRow
<1>2. CASE LoseRow(r)
  BY <1>2 DEF LoseRow, Fault
<1>3. CASE RecRead(r, "claimed", "reading")
  BY <1>3, ReadKeeps DEF Step
<1>4. CASE RecSignals(r)
  <2>1. rec' \in [Replica -> Recovery]
    BY <1>4, RecoverySees DEF RecSignals, Step
  <2> QED  BY <1>4, <2>1 DEF RecSignals
<1>5. CASE RecRead(r, "read", "deciding")
  BY <1>5, ReadKeeps DEF Step
<1>6. CASE RecAct(r)
  <2>1. rec' \in [Replica -> Recovery]
    BY <1>6 DEF RecAct, Recovery, Step, Enter
  <2>2. \A o \in Replica : rec'[o].step # "off" => rec'[o].debt # 0
    BY <1>6, <1>a, DebtIsNamed DEF RecAct, Enter, Recovery
  <2> QED  BY <1>6, <1>b, <2>1, <2>2 DEF RecAct
<1>7. CASE RecAppend(r)
  <2>1. rec' \in [Replica -> Recovery]
    BY <1>7, NoRecoveryType DEF RecAppend
  <2>2. rows' \subseteq Row
    BY <1>7 DEF RecAppend, Row, Repayment, Recovery
  <2>3. \A o \in Replica : rec'[o].step # "off" => rec'[o].debt # 0
    BY <1>7, DebtIsNamed DEF RecAppend, NoRecovery
  <2> QED  BY <1>7, <1>b, <2>1, <2>2, <2>3 DEF RecAppend
<1>8. CASE RecClaim(r)
  <2>1. rec' \in [Replica -> Recovery]
    BY <1>8 DEF RecClaim, Recovery, Step, Enter
  <2>2. \A o \in Replica : rec'[o].step # "off" => rec'[o].debt # 0
    BY <1>8, <1>a, DebtIsNamed DEF RecClaim, Enter, Recovery
  <2> QED  BY <1>8, <1>b, <2>1, <2>2 DEF RecClaim
<1>9. CASE RecFails(r)
  <2>1. rec' \in [Replica -> Recovery]
    BY <1>9 DEF RecFails, Recovery, Step, Enter
  <2>2. \A o \in Replica : rec'[o].step # "off" => rec'[o].debt # 0
    BY <1>9, <1>a, DebtIsNamed DEF RecFails, Enter, Recovery, Fenced
  <2> QED  BY <1>9, <1>b, <2>1, <2>2 DEF RecFails, Fault
<1>10. CASE Crash(r)
  <2>1. lane' \in [Card -> Lane] /\ proc' \in [Replica -> Process]
    BY <1>10, CardsReset, NewProcessType DEF Crash
  <2>2. rec' \in [Replica -> Recovery]
    BY <1>10, NoRecoveryType DEF Crash
  <2>3. \A o \in Replica : rec'[o].step # "off" => rec'[o].debt # 0
    BY <1>10, DebtIsNamed DEF Crash, NoRecovery
  <2> QED  BY <1>10, <2>1, <2>2, <2>3 DEF Crash
<1>11. CASE Shutdown(r)
  <2>1. \A c \in Card : [NoLane EXCEPT !.pair = lane[c].pair] \in Lane
    BY NoLaneType DEF Lane
  <2>2. lane' \in [Card -> Lane] /\ proc' \in [Replica -> Process]
    BY <1>11, <2>1, NewProcessType DEF Shutdown
  <2>3. rec' \in [Replica -> Recovery]
    BY <1>11, NoRecoveryType DEF Shutdown
  <2>4. \A o \in Replica : rec'[o].step # "off" => rec'[o].debt # 0
    BY <1>11, DebtIsNamed DEF Shutdown, NoRecovery
  <2> QED  BY <1>11, <2>2, <2>3, <2>4 DEF Shutdown
<1>12. CASE Boot(r)
  BY <1>12, BootKeeps
<1> QED
  BY <1>1, <1>2, <1>3, <1>4, <1>5, <1>6, <1>7, <1>8, <1>9, <1>10, <1>11, <1>12
  DEF ReplicaStep, Recovers

LEMMA TypesHold == PowerTypeOK /\ [Next]_vars => PowerTypeOK'
<1> SUFFICES ASSUME PowerTypeOK, [Next]_vars PROVE PowerTypeOK'
  OBVIOUS
<1> USE DEF cloud, history
<1>1. CASE FallDue
  BY <1>1 DEF FallDue, Owing, PowerTypeOK
<1>2. CASE StopsElsewhere
  BY <1>2 DEF StopsElsewhere, Fault, PowerTypeOK
<1>3. CASE Lapse
  BY <1>3 DEF Lapse, PowerTypeOK
<1>4. CASE UNCHANGED vars
  BY <1>4 DEF vars, PowerTypeOK
<1> QED  BY <1>1, <1>2, <1>3, <1>4, CardTypes, ReplicaTypes DEF Next

(* Every variable keeps its type.                                          *)
THEOREM PowerTypeCorrect == Spec => []PowerTypeOK
<1>1. Init => PowerTypeOK
  <2> SUFFICES ASSUME Init PROVE PowerTypeOK
    OBVIOUS
  <2>1. /\ lane \in [Card -> Lane] /\ rec \in [Replica -> Recovery]
        /\ proc \in [Replica -> Process]
    BY NoLaneType, NoRecoveryType, NewProcessType DEF Init
  <2>2. \A r \in Replica : rec[r].step = "off"
    BY DEF Init, NoRecovery
  <2> QED  BY <2>1, <2>2 DEF Init, PowerTypeOK
<1> QED  BY <1>1, TypesHold, PTL DEF Spec

-----------------------------------------------------------------------------
(* What a recorded stop settles.                                           *)

LEMMA HistoryGrows == [Next]_vars => rows \subseteq rows'
<1> USE DEF cloud, history
<1>1. ASSUME NEW c \in Card, CardStep(c) PROVE rows \subseteq rows'
  <2>1. CASE Carries(c)
    BY <2>1 DEF Carries, ReadFloor, Reserve, Park, Armed, Abandon, StartLane, Started,
      RaceEnds, Schedule, CarryFails, SettleEnds
  <2>2. CASE \/ Claim(c) \/ Prepare(c) \/ ParkUnrecorded(c) \/ SettleFirst(c) \/ RingBell(c)
             \/ StartUnanswered(c) \/ Towel(c) \/ LoseRing(c) \/ Carry(c) \/ SettleGivesUp(c)
    BY <2>2 DEF Claim, Prepare, ParkUnrecorded, SettleFirst, RingBell, StartUnanswered, Started,
      Towel, LoseRing, Carry, SettleGivesUp
  <2> QED  BY <1>1, <2>1, <2>2 DEF CardStep
<1>2. ASSUME NEW r \in Replica, ReplicaStep(r) PROVE rows \subseteq rows'
  <2>1. CASE Recovers(r)
    BY <2>1 DEF Recovers, RecRead, RecSignals, RecAct, RecAppend
  <2>2. CASE \/ CommitRow(r) \/ LoseRow(r) \/ RecClaim(r) \/ RecFails(r)
             \/ Crash(r) \/ Shutdown(r) \/ Boot(r)
    BY <2>2 DEF CommitRow, LoseRow, RecClaim, RecFails, Crash, Shutdown, Boot
  <2> QED  BY <1>2, <2>1, <2>2 DEF ReplicaStep
<1>3. CASE FallDue \/ StopsElsewhere \/ Lapse \/ UNCHANGED vars
  BY <1>3 DEF FallDue, StopsElsewhere, Lapse, vars
<1> QED  BY <1>1, <1>2, <1>3 DEF Next

(* No start at or below a recorded park ever owes a stop again, in         *)
(* whatever order the rows of its own start arrive (_unmatched_owed_stop). *)
THEOREM ParkIsFinal == Spec => SettledStaysSettled
<1>1. [Next]_vars => [\A p \in Settled(rows), n \in Owing(rows') : n > p]_vars
  <2> SUFFICES ASSUME [Next]_vars, NEW p \in Settled(rows), NEW n \in Owing(rows')
               PROVE  n > p
    OBVIOUS
  <2>1. p \in Settled(rows')
    BY HistoryGrows DEF Settled
  <2> QED  BY <2>1 DEF Owing
<1> QED  BY <1>1, PTL DEF Spec, SettledStaysSettled

-----------------------------------------------------------------------------
(* The ring keeps a recovery out of every bout: a card up to its race, a   *)
(* settle on Prepare's behalf, and a recovery in an attempt each hold it.  *)
(* And a card that is on its way knows every settlement of its process     *)
(* that is still ahead.                                                    *)

(* On its way from Prepare to the end of its race.                         *)
Begun(c) ==
  \/ At(c, {"preparing", "armed", "ringing", "racing"})
  \/ Settling(c) /\ lane[c].after = "armed"

Fences(c) == At(c, {"waiting"}) \/ Begun(c) => ring = c

RecFences(r) == rec[r].step \in Fenced => ring = Recoverer(r)

Serialised == (\A c \in Card : Fences(c)) /\ (\A r \in Replica : RecFences(r))

Knows(c) == Begun(c) => \A d \in Others(c) : AtWork(d) => d.slot \in lane[c].past

NoneUnknown == \A c \in Card : Knows(c)

LEMMA CardFences ==
  ASSUME PowerTypeOK, Serialised, NoneUnknown, NEW c \in Card, NEW l,
         lane' = [lane EXCEPT ![c] = l], rec' = rec,
         ring' = ring \/ ring \in {None, c},
         Fences(c)', Knows(c)',
         AtWork(c)' => AtWork(c) \/ ring = c
  PROVE  Serialised' /\ NoneUnknown'
<1>1. ASSUME NEW d \in Card, d # c PROVE Fences(d)' /\ Knows(d)'
  <2>1. lane'[d] = lane[d] /\ Fences(d) /\ Knows(d)
    BY <1>1 DEF PowerTypeOK, Serialised, NoneUnknown
  <2>2. (At(d, {"waiting"})' <=> At(d, {"waiting"})) /\ (Begun(d)' <=> Begun(d))
    BY <2>1 DEF At, Begun, Settling
  <2>3. d # None
    BY Names
  <2>4. Fences(d)'
    BY <1>1, <2>1, <2>2, <2>3 DEF Fences
  <2>5. Knows(d)'
    <3> SUFFICES ASSUME Begun(d), NEW e \in Others(d), AtWork(e)' PROVE e.slot \in lane[d].past
      BY <2>1, <2>2 DEF Knows
    <3>1. ring = d /\ ~(ring = c)
      BY <1>1, <2>1 DEF Fences
    <3>2. AtWork(e)
      <4>1. CASE e = c
        BY <3>1, <4>1
      <4>2. CASE e # c
        <5>1. lane'[e] = lane[e]
          BY <4>2 DEF PowerTypeOK, Others, Cards
        <5> QED  BY <5>1 DEF AtWork, Settling, At
      <4> QED  BY <4>1, <4>2
    <3> QED  BY <2>1, <3>2 DEF Knows
  <2> QED  BY <2>4, <2>5
<1>2. ASSUME NEW r \in Replica PROVE RecFences(r)'
  BY Names DEF RecFences, Serialised
<1> QED  BY <1>1, <1>2 DEF Serialised, NoneUnknown

(* A step of a card that does not begin it.                                *)
LEMMA CardGoesOn ==
  ASSUME PowerTypeOK, Serialised, NoneUnknown, NEW c \in Card, NEW l,
         lane' = [lane EXCEPT ![c] = l], rec' = rec,
         ring' = ring \/ ring \in {None, c},
         l.stage # "waiting",
         (\/ l.stage \in {"preparing", "armed", "ringing", "racing"}
          \/ l.stage \in {"settling", "carrying"} /\ l.after = "armed")
           => Begun(c) /\ l.past = lane[c].past /\ ring' = ring,
         l.stage \in {"ended", "settling", "carrying"}
           => AtWork(c) \/ Begun(c) \/ At(c, {"waiting"})
  PROVE  Serialised' /\ NoneUnknown'
<1>1. lane'[c] = l /\ \A d \in Others(c) : lane'[d] = lane[d]
  BY DEF PowerTypeOK, Others, Cards
<1>2. Begun(c)' => Begun(c) /\ l.past = lane[c].past /\ ring' = ring
  BY <1>1 DEF Begun, Settling, At
<1>3. Fences(c)'
  BY <1>1, <1>2 DEF Serialised, Fences, At
<1>4. Knows(c)'
  <2>1. \A d \in Others(c) : AtWork(d)' <=> AtWork(d)
    BY <1>1 DEF AtWork, Settling, At
  <2>2. Others(c)' = Others(c)
    BY DEF Others, Cards
  <2> QED  BY <1>1, <1>2, <2>1, <2>2 DEF NoneUnknown, Knows
<1>5. AtWork(c)' => AtWork(c) \/ ring = c
  BY <1>1 DEF AtWork, Settling, At, Serialised, Fences
<1> QED  BY <1>3, <1>4, <1>5, CardFences

LEMMA CardGoesIdle ==
  ASSUME PowerTypeOK, Serialised, NoneUnknown, NEW c \in Card,
         lane' = [lane EXCEPT ![c] = NoLane], rec' = rec, ring' = Without(c)
  PROVE  Serialised' /\ NoneUnknown'
<1>1. NoLane.stage = "idle"
  BY DEF NoLane
<1>2. ring' = ring \/ ring \in {None, c}
  BY DEF Without
<1> HIDE DEF NoLane
<1> QED  BY <1>1, <1>2, CardGoesOn

LEMMA CardSettles ==
  ASSUME PowerTypeOK, Serialised, NoneUnknown, NEW c \in Card, NEW l \in Lane,
         Settles(c, l), rec' = rec, ring' = ring \/ ring \in {None, c},
         AtWork(c) \/ Begun(c) \/ At(c, {"waiting"})
  PROVE  Serialised' /\ NoneUnknown'
<1> DEFINE m == [l EXCEPT !.stage = "settling", !.after = "idle", !.minting = FALSE, !.reserved = 0]
<1>1. m.stage = "settling" /\ m.after = "idle"
  BY DEF Lane
<1>2. lane' = [lane EXCEPT ![c] = m]
  BY DEF Settles, Becomes
<1> HIDE DEF m
<1> QED  BY <1>1, <1>2, CardGoesOn

LEMMA RecoveryFences ==
  ASSUME PowerTypeOK, Serialised, NoneUnknown, NEW r \in Replica, NEW x,
         lane' = lane, rec' = [rec EXCEPT ![r] = x],
         ring' = ring \/ ring \in {None, Recoverer(r)},
         RecFences(r)'
  PROVE  Serialised' /\ NoneUnknown'
<1>1. \A o \in Replica : o # r => Recoverer(o) # Recoverer(r) /\ Recoverer(o) # None
  BY Names DEF Recoverer
<1>2. ASSUME NEW o \in Replica, o # r PROVE RecFences(o)'
  BY <1>1, <1>2 DEF PowerTypeOK, Serialised, RecFences
<1>3. ASSUME NEW c \in Card PROVE Fences(c)' /\ Knows(c)'
  BY Names DEF Serialised, NoneUnknown, Fences, Knows, Begun, AtWork, Settling, At
<1> QED  BY <1>2, <1>3 DEF Serialised, NoneUnknown

LEMMA ReadMoves ==
  ASSUME PowerTypeOK, NEW r \in Replica, NEW from, NEW to \in Step, RecRead(r, from, to)
  PROVE  \E debt \in Start \cup {0}, s \in Step :
           /\ rec' = [rec EXCEPT ![r] = [rec[r] EXCEPT !.step = s, !.debt = debt]]
           /\ s \in Fenced => ring' = ring
           /\ ring' \in {ring, Without(Recoverer(r))}
<1>1. PICK debt \in Start \cup {0} :
        LET paid == debt = 0
            early == ~paid /\ debt \notin due
            s == IF paid THEN "off" ELSE IF early THEN "waiting" ELSE to
        IN /\ rec' = [rec EXCEPT ![r] = [rec[r] EXCEPT !.step = s, !.debt = debt]]
           /\ ring' = IF paid \/ early THEN Without(Recoverer(r)) ELSE ring
  BY DEF RecRead, RecBecomes, PowerTypeOK
<1> DEFINE s == IF debt = 0 THEN "off" ELSE IF debt \notin due THEN "waiting" ELSE to
<1>2. s \in Step /\ (s \in Fenced => debt # 0 /\ debt \in due)
  BY DEF Step, Fenced
<1>3. rec' = [rec EXCEPT ![r] = [rec[r] EXCEPT !.step = s, !.debt = debt]]
  BY <1>1
<1>4. ring' \in {ring, Without(Recoverer(r))} /\ (s \in Fenced => ring' = ring)
  <2> HIDE DEF s
  <2> QED  BY <1>1, <1>2
<1> HIDE DEF s
<1> QED  BY <1>2, <1>3, <1>4

LEMMA CardSerialised ==
  ASSUME PowerTypeOK, Serialised, NoneUnknown, NEW c \in Card, CardStep(c)
  PROVE  Serialised' /\ NoneUnknown'
<1> USE DEF cloud, history, Becomes, Goto
<1>a. /\ lane \in [Card -> Lane] /\ lane[c] \in Lane /\ Fences(c) /\ c # None
      /\ lane = [lane EXCEPT ![c] = lane[c]]
  BY Names DEF PowerTypeOK, Serialised
<1>b. Without(c) = ring \/ ring = c
  BY DEF Without
<1>1. CASE ReadFloor(c)
  <2> DEFINE l == [lane[c] EXCEPT !.minting = TRUE, !.floor = newest]
  <2>1. l.stage = lane[c].stage /\ l.after = lane[c].after /\ l.past = lane[c].past
    BY <1>a DEF Lane
  <2>2. lane' = [lane EXCEPT ![c] = l] /\ ring' = ring /\ rec' = rec /\ ~At(c, {"waiting"})
    BY <1>1 DEF ReadFloor, ForStart, ForPark, At
  <2> HIDE DEF l
  <2> QED  BY <2>1, <2>2, CardGoesOn DEF Begun, AtWork, Settling, At
<1>2. CASE Reserve(c)
  <2>1. PICK n \in Start :
          lane' = [lane EXCEPT ![c] = [lane[c] EXCEPT !.minting = FALSE, !.floor = 0,
            !.reserved = IF ForStart(c) THEN n ELSE @,
            !.pair = IF ForStart(c) THEN @ ELSE n]]
    BY <1>2 DEF Reserve
  <2> DEFINE l == [lane[c] EXCEPT !.minting = FALSE, !.floor = 0,
                     !.reserved = IF ForStart(c) THEN n ELSE @,
                     !.pair = IF ForStart(c) THEN @ ELSE n]
  <2>2. l.stage = lane[c].stage /\ l.after = lane[c].after /\ l.past = lane[c].past
    BY <1>a DEF Lane
  <2>3. lane' = [lane EXCEPT ![c] = l] /\ ring' = ring /\ rec' = rec
    BY <1>2, <2>1 DEF Reserve
  <2>4. lane'[c] = l /\ \A d \in Others(c) : lane'[d] = lane[d]
    BY <1>a, <2>1 DEF Others, Cards
  <2> HIDE DEF l
  <2>5. /\ At(c, {"waiting"})' <=> At(c, {"waiting"})
        /\ \A d \in Cards(c.of) : AtWork(d)' <=> AtWork(d)
        /\ Begun(c)' <=> Begun(c)
    BY <2>2, <2>4 DEF Others, Begun, AtWork, Settling, At
  <2>6. Fences(c)' /\ Knows(c)' /\ (AtWork(c)' => AtWork(c))
    <3>1. Others(c)' = Others(c) /\ Others(c) \subseteq Cards(c.of) /\ c \in Cards(c.of)
      BY DEF Others, Cards
    <3> QED  BY <1>a, <2>2, <2>3, <2>4, <2>5, <3>1 DEF Fences, Knows, NoneUnknown
  <2> QED  BY <2>3, <2>6, CardFences
<1>3. CASE Claim(c)
  <2> DEFINE l == [NoLane EXCEPT !.stage = "waiting", !.heeds = proc[c.of].prior]
  <2>1. l.stage = "waiting"
    BY DEF NoLane
  <2>2. lane' = [lane EXCEPT ![c] = l] /\ rec' = rec /\ ring = None /\ ring' = c
    BY <1>3 DEF Claim
  <2> HIDE DEF l
  <2>3. Fences(c)' /\ Knows(c)' /\ ~AtWork(c)'
    BY <1>a, <2>1, <2>2 DEF Fences, Knows, Begun, AtWork, Settling, At
  <2> QED  BY <2>2, <2>3, CardFences
<1>4. CASE Prepare(c)
  <2> DEFINE l == [lane[c] EXCEPT !.stage = "preparing", !.heeds = None, !.past = GoesPast(c)]
  <2>1. l.stage = "preparing" /\ l.past = GoesPast(c)
    BY <1>a DEF Lane
  <2>2. lane' = [lane EXCEPT ![c] = l] /\ rec' = rec /\ ring' = ring /\ ring = c
    BY <1>a, <1>4 DEF Prepare, Fences
  <2>3. \A d \in Others(c) : AtWork(d) => d.slot \in GoesPast(c)
    BY <1>4 DEF Prepare, PriorIsDone, GoesPast, AtWork
  <2> HIDE DEF l
  <2>4. lane'[c] = l /\ \A d \in Others(c) : lane'[d] = lane[d]
    BY <1>a, <2>2 DEF Others, Cards
  <2>5. Knows(c)'
    <3>1. Others(c)' = Others(c) /\ \A d \in Others(c) : AtWork(d)' <=> AtWork(d)
      BY <2>4 DEF Others, Cards, AtWork, Settling, At
    <3> QED  BY <2>1, <2>3, <2>4, <3>1 DEF Knows
  <2>6. Fences(c)' /\ ~AtWork(c)'
    BY <2>1, <2>2, <2>4 DEF Fences, AtWork, Settling, At
  <2> QED  BY <2>2, <2>5, <2>6, CardFences
<1>5. CASE Park(c)
  BY <1>5 DEF Park, Serialised, NoneUnknown, Fences, RecFences, Knows, Begun, AtWork, Settling, At
<1>6. CASE ParkUnrecorded(c)
  <2>1. CASE At(c, {"preparing"})
    BY <1>6, <2>1, CardGoesIdle DEF ParkUnrecorded
  <2>2. CASE ~At(c, {"preparing"})
    <3> DEFINE l == [lane[c] EXCEPT !.minting = FALSE]
    <3>1. l.stage = lane[c].stage /\ l.after = lane[c].after /\ l.past = lane[c].past
      BY <1>a DEF Lane
    <3>2. /\ lane' = [lane EXCEPT ![c] = l] /\ ring' = ring /\ rec' = rec
          /\ At(c, {"settling"})
      BY <1>6, <2>2 DEF ParkUnrecorded, At
    <3> HIDE DEF l
    <3> QED  BY <3>1, <3>2, CardGoesOn DEF Begun, AtWork, Settling, At
  <2> QED  BY <2>1, <2>2
<1>7. CASE Armed(c)
  <2> DEFINE l == [lane[c] EXCEPT !.stage = "armed"]
  <2>1. l.stage = "armed" /\ l.past = lane[c].past
    BY <1>a DEF Lane
  <2>2. lane' = [lane EXCEPT ![c] = l] /\ ring' = ring /\ rec' = rec /\ At(c, {"preparing"})
    BY <1>7 DEF Armed
  <2> HIDE DEF l
  <2> QED  BY <2>1, <2>2, CardGoesOn DEF Begun, At
<1>8. CASE SettleFirst(c)
  <2> DEFINE l == [lane[c] EXCEPT !.stage = "settling", !.after = "armed"]
  <2>1. l.stage = "settling" /\ l.past = lane[c].past
    BY <1>a DEF Lane
  <2>2. lane' = [lane EXCEPT ![c] = l] /\ ring' = ring /\ rec' = rec /\ At(c, {"preparing"})
    BY <1>8 DEF SettleFirst
  <2> HIDE DEF l
  <2> QED  BY <2>1, <2>2, CardGoesOn DEF Begun, At
<1>9. CASE Abandon(c)
  BY <1>9, CardGoesIdle DEF Abandon
<1>10. CASE RingBell(c)
  <2> DEFINE l == [lane[c] EXCEPT !.stage = "ringing"]
  <2>1. l.stage = "ringing" /\ l.past = lane[c].past
    BY <1>a DEF Lane
  <2>2. lane' = [lane EXCEPT ![c] = l] /\ ring' = ring /\ rec' = rec /\ At(c, {"armed"})
    BY <1>10 DEF RingBell
  <2> HIDE DEF l
  <2> QED  BY <2>1, <2>2, CardGoesOn DEF Begun, At
<1>11. ASSUME NEW records, Started(c, records) PROVE Serialised' /\ NoneUnknown'
  <2> DEFINE l == [lane[c] EXCEPT !.stage = IF @ = "ringing" THEN "racing" ELSE "settling",
                                  !.pair = lane[c].reserved, !.reserved = 0]
  <2>1. /\ l.stage = IF lane[c].stage = "ringing" THEN "racing" ELSE "settling"
        /\ l.after = lane[c].after /\ l.past = lane[c].past
    BY <1>a DEF Lane
  <2>2. /\ lane' = [lane EXCEPT ![c] = l] /\ ring' = ring /\ rec' = rec
        /\ At(c, {"ringing", "carrying"})
    BY <1>11 DEF Started
  <2> HIDE DEF l
  <2> QED  BY <2>1, <2>2, CardGoesOn DEF Begun, AtWork, Settling, At
<1>12. CASE StartLane(c)
  BY <1>11, <1>12 DEF StartLane
<1>13. CASE StartUnanswered(c)
  BY <1>11, <1>13 DEF StartUnanswered
<1>14. CASE RaceEnds(c)
  <2> DEFINE l == [lane[c] EXCEPT !.stage = "ended", !.minting = FALSE, !.reserved = 0]
  <2>1. l.stage = "ended"
    BY <1>a DEF Lane
  <2>2. /\ lane' = [lane EXCEPT ![c] = l] /\ ring' = Without(c) /\ rec' = rec
        /\ At(c, {"ringing", "racing"})
    BY <1>14 DEF RaceEnds
  <2> HIDE DEF l
  <2> QED  BY <1>b, <2>1, <2>2, CardGoesOn DEF Begun, At
<1>15. CASE Schedule(c)
  BY <1>a, <1>15, CardSettles DEF Schedule, AtWork
<1>16. CASE Towel(c)
  BY <1>a, <1>16, CardSettles DEF Towel, Begun, At
<1>17. CASE LoseRing(c)
  <2>1. [lane[c] EXCEPT !.lost = TRUE] \in Lane
    BY <1>a DEF Lane
  <2>2. AtWork(c) \/ Begun(c) \/ At(c, {"waiting"})
    BY <1>17 DEF LoseRing, Begun, At
  <2> QED  BY <1>b, <1>17, <2>1, <2>2, CardSettles DEF LoseRing
<1>18. CASE Carry(c)
  <2> DEFINE l == [lane[c] EXCEPT !.stage = "carrying"]
  <2>1. l.stage = "carrying" /\ l.after = lane[c].after /\ l.past = lane[c].past
    BY <1>a DEF Lane
  <2>2. lane' = [lane EXCEPT ![c] = l] /\ ring' = ring /\ rec' = rec /\ At(c, {"settling"})
    BY <1>18 DEF Carry
  <2> HIDE DEF l
  <2> QED  BY <2>1, <2>2, CardGoesOn DEF Begun, AtWork, Settling, At
<1>19. CASE CarryFails(c)
  <2> DEFINE l == [lane[c] EXCEPT !.stage = "settling", !.minting = FALSE, !.reserved = 0]
  <2>1. l.stage = "settling" /\ l.after = lane[c].after /\ l.past = lane[c].past
    BY <1>a DEF Lane
  <2>2. lane' = [lane EXCEPT ![c] = l] /\ ring' = ring /\ rec' = rec /\ At(c, {"carrying"})
    BY <1>19 DEF CarryFails
  <2> HIDE DEF l
  <2> QED  BY <2>1, <2>2, CardGoesOn DEF Begun, AtWork, Settling, At
<1>20. CASE SettleEnds(c)
  <2>1. CASE lane[c].after = "armed"
    <3> DEFINE l == [lane[c] EXCEPT !.stage = "armed", !.after = "idle", !.minting = FALSE]
    <3>1. l.stage = "armed" /\ l.past = lane[c].past
      BY <1>a DEF Lane
    <3>2. lane' = [lane EXCEPT ![c] = l] /\ ring' = ring /\ rec' = rec /\ At(c, {"settling"})
      BY <1>20, <2>1 DEF SettleEnds
    <3> HIDE DEF l
    <3> QED  BY <2>1, <3>1, <3>2, CardGoesOn DEF Begun, Settling, At
  <2>2. CASE lane[c].after # "armed"
    BY <1>20, <2>2, CardGoesIdle DEF SettleEnds
  <2> QED  BY <2>1, <2>2
<1>21. CASE SettleGivesUp(c)
  BY <1>21, CardGoesIdle DEF SettleGivesUp
<1> QED
  BY <1>1, <1>2, <1>3, <1>4, <1>5, <1>6, <1>7, <1>8, <1>9, <1>10, <1>12, <1>13, <1>14, <1>15,
     <1>16, <1>17, <1>18, <1>19, <1>20, <1>21
  DEF CardStep, Carries

(* A process that goes or comes holds nothing and is in no attempt.        *)
LEMMA ResetSerialised ==
  ASSUME PowerTypeOK, Serialised, NoneUnknown, NEW r \in Replica,
         \A c \in Card : lane'[c] = lane[c] \/ (c.of = r /\ lane'[c].stage = "idle"),
         \A c \in Cards(r) : lane'[c].stage = "idle",
         NEW x, x.step \notin Fenced, rec' = [rec EXCEPT ![r] = x],
         ring' = ring \/ ring \in {None, Recoverer(r)} \cup Cards(r)
  PROVE  Serialised' /\ NoneUnknown'
<1>1. ASSUME NEW c \in Card PROVE Fences(c)' /\ Knows(c)'
  <2>1. CASE c.of = r
    <3>1. lane'[c].stage = "idle"
      BY <2>1 DEF Cards
    <3> QED  BY <3>1 DEF Fences, Knows, Begun, Settling, At
  <2>2. CASE c.of # r
    <3>1. lane'[c] = lane[c] /\ \A d \in Others(c) : lane'[d] = lane[d]
      BY <2>2 DEF Others, Cards
    <3>2. c # None /\ c # Recoverer(r) /\ c \notin Cards(r)
      BY <2>2, Names DEF Cards
    <3>3. Fences(c)'
      BY <3>1, <3>2 DEF Serialised, Fences, Begun, Settling, At
    <3>4. Knows(c)'
      BY <3>1 DEF NoneUnknown, Knows, Begun, AtWork, Settling, At, Others, Cards
    <3> QED  BY <3>3, <3>4
  <2> QED  BY <2>1, <2>2
<1>2. ASSUME NEW o \in Replica PROVE RecFences(o)'
  <2>1. CASE o = r
    BY <2>1 DEF RecFences, PowerTypeOK
  <2>2. CASE o # r
    <3>1. rec'[o] = rec[o] /\ RecFences(o)
      BY <2>2 DEF PowerTypeOK, Serialised
    <3>2. Recoverer(o) \notin {None, Recoverer(r)} \cup Cards(r)
      BY <2>2, Names DEF Recoverer, Cards
    <3> QED  BY <3>1, <3>2 DEF RecFences
  <2> QED  BY <2>1, <2>2
<1> QED  BY <1>1, <1>2 DEF Serialised, NoneUnknown

LEMMA ReplicaSerialised ==
  ASSUME PowerTypeOK, Serialised, NoneUnknown, NEW r \in Replica, ReplicaStep(r)
  PROVE  Serialised' /\ NoneUnknown'
<1> USE DEF cloud, history, RecBecomes, Enter
<1>a. /\ rec \in [Replica -> Recovery] /\ rec[r] \in Recovery /\ RecFences(r)
      /\ lane \in [Card -> Lane] /\ Recoverer(r) # None
      /\ Without(Recoverer(r)) = ring \/ ring = Recoverer(r)
  BY Names DEF PowerTypeOK, Serialised, Without
<1>b. ASSUME UNCHANGED <<lane, rec, ring>> PROVE Serialised' /\ NoneUnknown'
  BY <1>b DEF Serialised, NoneUnknown, Fences, RecFences, Knows, Begun, AtWork, Settling, At
<1>c. ASSUME NEW to, rec' = [rec EXCEPT ![r] = [rec[r] EXCEPT !.step = to]], lane' = lane,
             \/ to \notin Fenced /\ ring' = Without(Recoverer(r))
             \/ rec[r].step \in Fenced /\ ring' = ring
             \/ ring = None /\ ring' = Recoverer(r)
      PROVE  Serialised' /\ NoneUnknown'
  <2> DEFINE x == [rec[r] EXCEPT !.step = to]
  <2>1. x.step = to
    BY <1>a DEF Recovery
  <2> HIDE DEF x
  <2>2. RecFences(r)'
    BY <1>a, <1>c, <2>1 DEF RecFences, x
  <2>3. rec' = [rec EXCEPT ![r] = x]
    BY <1>c DEF x
  <2>4. ring' = ring \/ ring \in {None, Recoverer(r)}
    BY <1>a, <1>c
  <2> QED  BY <1>c, <2>2, <2>3, <2>4, RecoveryFences
<1>1. CASE CommitRow(r) \/ LoseRow(r)
  BY <1>1, <1>b DEF CommitRow, LoseRow
<1>2. ASSUME NEW from \in Fenced, NEW to \in Fenced, RecRead(r, from, to)
      PROVE  Serialised' /\ NoneUnknown'
  <2>0. to \in Step
    BY DEF Step, Fenced
  <2>1. PICK debt \in Start \cup {0}, s \in Step :
          /\ rec' = [rec EXCEPT ![r] = [rec[r] EXCEPT !.step = s, !.debt = debt]]
          /\ s \in Fenced => ring' = ring
          /\ ring' \in {ring, Without(Recoverer(r))}
    BY <1>2, <2>0, ReadMoves
  <2> DEFINE x == [rec[r] EXCEPT !.step = s, !.debt = debt]
  <2>2. x.step = s
    BY <1>a DEF Recovery
  <2> HIDE DEF x
  <2>3. rec' = [rec EXCEPT ![r] = x] /\ lane' = lane /\ ring = Recoverer(r)
    BY <1>2, <1>a, <2>1 DEF RecRead, RecFences, x
  <2>4. RecFences(r)'
    BY <1>a, <2>1, <2>2, <2>3 DEF RecFences
  <2> QED  BY <2>3, <2>4, RecoveryFences
<1>3. CASE RecRead(r, "claimed", "reading") \/ RecRead(r, "read", "deciding")
  BY <1>2, <1>3 DEF Fenced
<1>4. CASE RecSignals(r)
  <2> DEFINE x == [rec[r] EXCEPT !.step = "read",
       !.signals = IF running # 0 THEN "healthy" ELSE IF failed THEN "failed" ELSE "stopped"]
  <2>1. rec' = [rec EXCEPT ![r] = x] /\ lane' = lane /\ ring' = ring /\ ring = Recoverer(r)
    BY <1>4, <1>a DEF RecSignals, RecFences, Fenced
  <2> HIDE DEF x
  <2> QED  BY <2>1, RecoveryFences DEF RecFences
<1>5. CASE RecAct(r)
  BY <1>5, <1>c DEF RecAct, Fenced
<1>6. CASE RecClaim(r)
  BY <1>6, <1>c DEF RecClaim, Free
<1>7. CASE RecFails(r)
  BY <1>7, <1>c DEF RecFails, Fenced
<1>8. CASE RecAppend(r)
  <2>1. NoRecovery.step \notin Fenced /\ rec' = [rec EXCEPT ![r] = NoRecovery] /\ lane' = lane
    BY <1>8 DEF RecAppend, NoRecovery, Fenced
  <2>2. RecFences(r)' /\ (ring' = ring \/ ring \in {None, Recoverer(r)})
    BY <1>8, <1>a, <2>1 DEF RecAppend, RecFences
  <2> QED  BY <2>1, <2>2, RecoveryFences
<1>9. NoLane.stage = "idle" /\ NoRecovery.step \notin Fenced
      /\ \A n : [NoLane EXCEPT !.pair = n].stage = "idle"
  BY DEF NoLane, NoRecovery, Fenced
<1>10. CASE Crash(r)
  <2>1. NoRecovery.step \notin Fenced /\ rec' = [rec EXCEPT ![r] = NoRecovery] /\ ring' = ring
    BY <1>10 DEF Crash, NoRecovery, Fenced
  <2>2. \A c \in Card : lane'[c] = IF c.of = r THEN NoLane ELSE lane[c]
    BY <1>10 DEF Crash
  <2> QED  BY <1>9, <2>1, <2>2, ResetSerialised DEF Cards
<1>11. CASE Shutdown(r)
  <2>1. NoRecovery.step \notin Fenced /\ rec' = [rec EXCEPT ![r] = NoRecovery]
    BY <1>11 DEF Shutdown, NoRecovery, Fenced
  <2>2. \A c \in Card :
          lane'[c] = IF c.of = r THEN [NoLane EXCEPT !.pair = lane[c].pair] ELSE lane[c]
    BY <1>11 DEF Shutdown
  <2>3. ring' = ring \/ ring \in {None, Recoverer(r)} \cup Cards(r)
    BY <1>11 DEF Shutdown
  <2>4. \A c \in Card : lane'[c] = lane[c] \/ (c.of = r /\ lane'[c].stage = "idle")
    BY <1>9, <2>2
  <2>5. \A c \in Cards(r) : lane'[c].stage = "idle"
    BY <1>9, <2>2 DEF Cards
  <2> QED  BY <1>9, <2>1, <2>3, <2>4, <2>5, ResetSerialised
<1>12. CASE Boot(r)
  <2>1. PICK debt \in Start \cup {0}, s \in {"off", "waiting"} :
          rec' = [rec EXCEPT ![r] = [NoRecovery EXCEPT !.debt = debt, !.step = s]]
    BY <1>12 DEF Boot
  <2> DEFINE x == [NoRecovery EXCEPT !.debt = debt, !.step = s]
  <2>2. x.step \notin Fenced
    BY DEF NoRecovery, Fenced
  <2>3. rec' = [rec EXCEPT ![r] = x] /\ ring' = ring
    BY <1>12, <2>1 DEF Boot
  <2>4. \A c \in Card : lane'[c] = IF c.of = r THEN NoLane ELSE lane[c]
    BY <1>12 DEF Boot
  <2> HIDE DEF x
  <2> QED  BY <1>9, <2>2, <2>3, <2>4, ResetSerialised DEF Cards
<1> QED
  BY <1>1, <1>3, <1>4, <1>5, <1>6, <1>7, <1>8, <1>10, <1>11, <1>12
  DEF ReplicaStep, Recovers

LEMMA SerialisedHolds ==
  PowerTypeOK /\ Serialised /\ NoneUnknown /\ [Next]_vars => Serialised' /\ NoneUnknown'
<1> SUFFICES ASSUME PowerTypeOK, Serialised, NoneUnknown, [Next]_vars
             PROVE  Serialised' /\ NoneUnknown'
  OBVIOUS
<1>1. CASE Lapse
  <2>1. lane' = lane /\ rec' = rec /\ ring # None
    BY <1>1 DEF Lapse
  <2>2. ASSUME NEW c \in Card PROVE Fences(c)' /\ Knows(c)'
    BY <1>1, <2>1, <2>2
    DEF Lapse, Serialised, NoneUnknown, Fences, Knows, Begun, AtWork, Settling, At
  <2>3. ASSUME NEW r \in Replica PROVE RecFences(r)'
    <3>1. Recoverer(r) \notin Card /\ Recoverer(r).of = r
      BY Names DEF Recoverer
    <3> QED  BY <1>1, <2>1, <3>1 DEF Lapse, Serialised, RecFences
  <2> QED  BY <2>2, <2>3 DEF Serialised, NoneUnknown
<1>2. CASE FallDue \/ StopsElsewhere \/ UNCHANGED vars
  BY <1>2 DEF FallDue, StopsElsewhere, vars, Serialised, NoneUnknown, Fences, RecFences, Knows,
    Begun, AtWork, Settling, At
<1> QED  BY <1>1, <1>2, CardSerialised, ReplicaSerialised DEF Next

(* A card up to its race and a recovery in its attempt never hold the ring *)
(* together, nor do two of either.  And a card on its way knows which      *)
(* settlements of its process it went past: no other is still ahead.       *)
THEOREM RingSerialises == Spec => [](Serialised /\ NoneUnknown)
<1>1. Init => Serialised /\ NoneUnknown
  <2> SUFFICES ASSUME Init PROVE Serialised /\ NoneUnknown
    OBVIOUS
  <2>1. (\A c \in Card : lane[c] = NoLane) /\ \A r \in Replica : rec[r] = NoRecovery
    BY DEF Init
  <2> QED  BY <2>1 DEF Serialised, NoneUnknown, Fences, RecFences, Knows, Begun, Settling, At,
                       NoLane, NoRecovery, Fenced
<1> QED  BY <1>1, SerialisedHolds, PowerTypeCorrect, PTL DEF Spec

(* Nothing of this program stops the pipeline under a race but a           *)
(* settlement that goes on after its ring was given back, and of the       *)
(* race's own process only one that its Prepare went past.                 *)
Meddles(c, d) ==
  /\ d.of = c.of => d.slot \in lane[c].past
  /\ SettleMeddles(d)

OnlySettlesStopRaces ==
  [][\A c \in Card :
       Races(c) => \/ running' = running \/ StopsElsewhere
                   \/ \E d \in Card \ {c} : Meddles(c, d)]_vars

THEOREM RingShieldsRaces == Spec => OnlySettlesStopRaces
<1>1. PowerTypeOK /\ Serialised /\ NoneUnknown /\ [Next]_vars
      => [\A c \in Card :
            Races(c) => \/ running' = running \/ StopsElsewhere
                        \/ \E d \in Card \ {c} : Meddles(c, d)]_vars
  <2> SUFFICES ASSUME PowerTypeOK, Serialised, NoneUnknown, Next, NEW c \in Card, At(c, {"racing"})
               PROVE  \/ running' = running \/ StopsElsewhere
                      \/ \E d \in Card \ {c} : Meddles(c, d)
    BY DEF vars, Races
  <2> USE DEF cloud, history
  <2>1. ring = c /\ Begun(c)
    BY DEF At, Begun, Serialised, Fences
  <2>2. ASSUME NEW d \in Card, CardStep(d)
        PROVE  running' = running \/ (d # c /\ Meddles(c, d))
    <3>1. Begun(d) => d = c
      BY <2>1 DEF Serialised, Fences
    <3>2. lane[d].after \in {"armed", "idle"} /\ (d = c => ~At(d, {"preparing"}) /\ ~Settling(d)
                                                             /\ ~At(d, {"ringing"}))
      BY DEF PowerTypeOK, Lane, At, Settling
    <3>3. d # c /\ AtWork(d) /\ d.of = c.of => d.slot \in lane[c].past
      BY <2>1 DEF NoneUnknown, Knows, Others, Cards
    <3>4. CASE Park(d) \/ ParkUnrecorded(d) \/ StartLane(d) \/ StartUnanswered(d)
      <4>1. At(d, {"preparing", "ringing"}) \/ Settling(d)
        BY <3>4 DEF Park, ParkUnrecorded, StartLane, StartUnanswered, Started, At, Settling
      <4>2. d # c /\ Settling(d) /\ lane[d].after = "idle"
        BY <3>1, <3>2, <4>1 DEF Begun, At
      <4> QED  BY <3>3, <3>4, <4>2 DEF Meddles, SettleMeddles, AtWork
    <3>5. CASE \/ ReadFloor(d) \/ Reserve(d) \/ Armed(d) \/ Abandon(d) \/ RaceEnds(d)
               \/ Schedule(d) \/ CarryFails(d) \/ SettleEnds(d) \/ Claim(d) \/ Prepare(d)
               \/ SettleFirst(d) \/ RingBell(d) \/ Towel(d) \/ LoseRing(d) \/ Carry(d)
               \/ SettleGivesUp(d)
      BY <3>5 DEF ReadFloor, Reserve, Armed, Abandon, RaceEnds, Schedule, CarryFails, SettleEnds,
        Claim, Prepare, SettleFirst, RingBell, Towel, LoseRing, Carry, SettleGivesUp
    <3> QED  BY <2>2, <3>4, <3>5 DEF CardStep, Carries
  <2>3. ASSUME NEW r \in Replica, ReplicaStep(r) PROVE running' = running
    <3>1. rec[r].step \notin Fenced
      BY <2>1, Names DEF Serialised, RecFences
    <3>2. CASE Recovers(r)
      BY <3>1, <3>2 DEF Recovers, RecRead, RecSignals, RecAct, RecAppend, Fenced
    <3>3. CASE \/ CommitRow(r) \/ LoseRow(r) \/ RecClaim(r) \/ RecFails(r)
               \/ Crash(r) \/ Shutdown(r) \/ Boot(r)
      BY <3>3 DEF CommitRow, LoseRow, RecClaim, RecFails, Crash, Shutdown, Boot
    <3> QED  BY <2>3, <3>2, <3>3 DEF ReplicaStep
  <2>4. CASE FallDue \/ Lapse
    BY <2>4 DEF FallDue, Lapse
  <2> QED  BY <2>2, <2>3, <2>4 DEF Next
<1> QED  BY <1>1, PowerTypeCorrect, RingSerialises, PTL DEF Spec, OnlySettlesStopRaces

(* A process that serves alone stops the pipeline under its own race with  *)
(* no recovery, and with the park or start of no settlement but one that   *)
(* the race's Prepare went past (Round4StopRecovery._act_under_fence,      *)
(* _await_prior_round4_settlement, _schedule_round_settlement).            *)
THEOREM AloneNoRaceIsStopped ==
  ASSUME \A r, o \in Replica : r = o
  PROVE  Spec => NoRaceIsStopped
<1>1. [\A c \in Card :
         Races(c) => \/ running' = running \/ StopsElsewhere
                     \/ \E d \in Card \ {c} : Meddles(c, d)]_vars
      => [\A c \in Card :
            Races(c) => \/ running' = running \/ StopsElsewhere
                        \/ \E d \in Others(c) : d.slot \in lane[c].past /\ SettleMeddles(d)]_vars
  <2>1. \A c \in Card : \A d \in Card \ {c} : d \in Others(c) /\ d.of = c.of
    BY Names DEF Others, Cards
  <2> QED  BY <2>1 DEF Meddles
<1> QED  BY <1>1, RingShieldsRaces, PTL DEF OnlySettlesStopRaces, NoRaceIsStopped

-----------------------------------------------------------------------------
(* A process that serves alone, restarted as often as it likes, and whose  *)
(* bouts do not overlap: every key on record is at most the newest         *)
(* reservation, and the key that runs is the last one any row is filed     *)
(* under.                                                                  *)

Known(r) == rows \cup pending[r]

KeysKnown(r) ==
  /\ \A x \in Known(r) : x.start <= newest
  /\ running <= newest
  /\ \A c \in Card : lane[c].pair <= newest

(* Nothing is reserved between a mint's read and its append.               *)
MintFits(c) == lane[c].minting => lane[c].floor = newest /\ lane[c].reserved = 0

(* A reserved key is new until its start is asked for.                     *)
ReservedIsNew(r, c) ==
  LET n == lane[c].reserved
  IN n # 0 => /\ At(c, {"ringing", "carrying"})
              /\ n = newest /\ n # running
              /\ \A x \in Known(r) : x.start # n

Busy(c) == ~At(c, {"idle", "waiting"})

Quiet(c) == lane[c].minting => Busy(c)

OneBusy == \A c, d \in Card : Busy(c) /\ Busy(d) => c = d

RunIsLast(r) ==
  running # 0 =>
    \A x \in Known(r) : x.start <= running /\ (x.intent = "stopped" => x.start # running)

DueIsOnRecord == \A d \in due : \E x \in rows : x.start = d

(* A recovery that took a stop for proven repays a start that fell due     *)
(* before its attempt, never the one that runs by then.                    *)
RepaysEarlier(r) ==
  /\ rec[r].step \in {"read", "deciding"} /\ rec[r].signals # "healthy" => running \notin due
  /\ rec[r].step \in {"deciding", "appending"} => rec[r].debt \in due
  /\ rec[r].step = "appending" => rec[r].debt # running

Minted(r) == \A c \in Card : MintFits(c) /\ ReservedIsNew(r, c) /\ Quiet(c)

Solo(r) ==
  /\ KeysKnown(r) /\ Minted(r) /\ OneBusy
  /\ RunIsLast(r) /\ DueIsOnRecord /\ RepaysEarlier(r)

(* What becomes of a lane in a step that mints and starts nothing.         *)
Tame(l, m) ==
  /\ m.minting => l.minting /\ m.floor = l.floor /\ m.stage \notin {"idle", "waiting"}
  /\ m.reserved \in {0, l.reserved}
  /\ m.reserved # 0 => m.stage \in {"ringing", "carrying"}
  /\ m.pair \in {0, l.pair}

LEMMA SoloMoves ==
  ASSUME PowerTypeOK, NEW r \in Replica, Solo(r),
         running' \in {0, running}, newest' = newest, due' = due,
         rows \subseteq rows', Known(r)' \subseteq Known(r),
         \A c \in Card : Tame(lane[c], lane'[c]), OneBusy',
         rec'[r] = rec[r] \/ rec'[r].step \notin {"read", "deciding", "appending"}
  PROVE  Solo(r)'
<1>a. /\ running \in Nat /\ newest \in Nat /\ 0 \notin due
      /\ KeysKnown(r) /\ Minted(r) /\ RunIsLast(r) /\ DueIsOnRecord /\ RepaysEarlier(r)
  BY BoundAssumption DEF PowerTypeOK, Solo, Start
<1>1. KeysKnown(r)' /\ RunIsLast(r)' /\ DueIsOnRecord'
  BY <1>a DEF KeysKnown, RunIsLast, DueIsOnRecord, Tame
<1>2. ASSUME NEW c \in Card PROVE MintFits(c)' /\ ReservedIsNew(r, c)' /\ Quiet(c)'
  <2>1. MintFits(c) /\ ReservedIsNew(r, c) /\ Tame(lane[c], lane'[c])
    BY <1>a DEF Minted
  <2> QED  BY <1>a, <2>1 DEF MintFits, ReservedIsNew, Quiet, Busy, At, Tame
<1>3. RepaysEarlier(r)'
  BY <1>a DEF RepaysEarlier
<1> QED  BY <1>1, <1>2, <1>3 DEF Solo, Minted

(* Lanes that stay as they are, are tame.                                  *)
LEMMA StillTame ==
  ASSUME PowerTypeOK, NEW r \in Replica, Solo(r), NEW c \in Card, lane'[c] = lane[c]
  PROVE  Tame(lane[c], lane'[c])
BY DEF Solo, Minted, MintFits, ReservedIsNew, Quiet, Busy, At, Tame

LEMMA BusyMoves ==
  ASSUME PowerTypeOK, OneBusy, NEW c \in Card, NEW l, Becomes(c, l),
         Busy(c) \/ l.stage \in {"idle", "waiting"} \/ \A d \in Card \ {c} : ~Busy(d)
  PROVE  OneBusy'
<1>1. lane'[c] = l /\ \A d \in Card \ {c} : lane'[d] = lane[d]
  BY DEF PowerTypeOK, Becomes
<1>2. (Busy(c)' => l.stage \notin {"idle", "waiting"})
      /\ \A d \in Card \ {c} : Busy(d)' <=> Busy(d)
  BY <1>1 DEF Busy, At
<1>3. Busy(c)' => \A d \in Card \ {c} : ~Busy(d)
  BY <1>2 DEF OneBusy
<1> QED  BY <1>2, <1>3 DEF OneBusy

LEMMA TameStep ==
  ASSUME PowerTypeOK, NEW r \in Replica, Solo(r), NEW c \in Card, NEW l, Becomes(c, l),
         Tame(lane[c], l),
         Busy(c) \/ l.stage \in {"idle", "waiting"} \/ \A d \in Card \ {c} : ~Busy(d),
         running' \in {0, running}, UNCHANGED <<rows, newest, pending, due, rec>>
  PROVE  Solo(r)'
<1>1. lane'[c] = l /\ \A d \in Card \ {c} : lane'[d] = lane[d]
  BY DEF PowerTypeOK, Becomes
<1>2. \A d \in Card : Tame(lane[d], lane'[d])
  BY <1>1, StillTame
<1>3. OneBusy'
  BY BusyMoves DEF Solo
<1>4. Known(r)' = Known(r)
  BY DEF Known
<1> QED  BY <1>2, <1>3, <1>4, SoloMoves

LEMMA StillSolo ==
  ASSUME PowerTypeOK, NEW r \in Replica, Solo(r), running' \in {0, running},
         UNCHANGED <<newest, due, lane>>, rows \subseteq rows', Known(r)' \subseteq Known(r),
         rec'[r] = rec[r] \/ rec'[r].step \notin {"read", "deciding", "appending"}
  PROVE  Solo(r)'
<1>1. \A c \in Card : Tame(lane[c], lane'[c])
  BY StillTame
<1>2. OneBusy'
  BY DEF Solo, OneBusy, Busy, At
<1> QED  BY <1>1, <1>2, SoloMoves

LEMMA IdleIsTame ==
  ASSUME PowerTypeOK, NEW c \in Card
  PROVE  /\ NoLane.stage = "idle" /\ Tame(lane[c], NoLane)
         /\ [NoLane EXCEPT !.pair = lane[c].pair].stage = "idle"
         /\ Tame(lane[c], [NoLane EXCEPT !.pair = lane[c].pair])
BY DEF NoLane, Tame

LEMMA ReadTakesDue ==
  ASSUME PowerTypeOK, NEW r \in Replica, NEW from, NEW to \in Step, RecRead(r, from, to)
  PROVE  \E debt \in Start \cup {0}, s \in Step :
           /\ rec'[r] = [rec[r] EXCEPT !.step = s, !.debt = debt]
           /\ s = "off" \/ s = "waiting" \/ (s = to /\ debt \in due)
<1>1. PICK debt \in Start \cup {0} :
        LET paid == debt = 0
            early == ~paid /\ debt \notin due
            s == IF paid THEN "off" ELSE IF early THEN "waiting" ELSE to
        IN /\ rec' = [rec EXCEPT ![r] = [rec[r] EXCEPT !.step = s, !.debt = debt]]
           /\ ring' = IF paid \/ early THEN Without(Recoverer(r)) ELSE ring
  BY DEF RecRead, RecBecomes, PowerTypeOK
<1> DEFINE s == IF debt = 0 THEN "off" ELSE IF debt \notin due THEN "waiting" ELSE to
<1>2. s \in Step /\ (s = "off" \/ s = "waiting" \/ (s = to /\ debt \in due))
  BY DEF Step
<1>3. rec'[r] = [rec[r] EXCEPT !.step = s, !.debt = debt]
  BY <1>1 DEF PowerTypeOK
<1> HIDE DEF s
<1> QED  BY <1>2, <1>3

LEMMA SoloCard ==
  ASSUME PowerTypeOK, NEW r \in Replica, Replica = {r}, Serialised, Solo(r),
         NEW c \in Card, CardStep(c), ~overlap'
  PROVE  Solo(r)'
<1> USE DEF cloud, history, At
<1>a. /\ lane \in [Card -> Lane] /\ lane[c] \in Lane /\ c.of = r
      /\ pending \in [Replica -> SUBSET Row] /\ pending[r] \subseteq Row /\ rows \subseteq Row
      /\ running \in Nat /\ newest \in Nat /\ due \subseteq Start
      /\ KeysKnown(r) /\ MintFits(c) /\ ReservedIsNew(r, c) /\ Quiet(c)
      /\ RunIsLast(r) /\ DueIsOnRecord /\ RepaysEarlier(r)
  BY Names, BoundAssumption DEF PowerTypeOK, Solo, Minted, Start
<1>b. \A x \in Row : x.start \in Nat
  BY BoundAssumption DEF Row, Start
<1>c. ASSUME Busy(c), NEW d \in Card \ {c} PROVE lane[d].reserved = 0 /\ ~lane[d].minting
  BY <1>c DEF Solo, OneBusy, Minted, ReservedIsNew, Quiet, Busy
<1>d. ASSUME \A d \in Others(c) : ~AtWork(d), ring = c, NEW d \in Card \ {c} PROVE ~Busy(d)
  <2>1. d \in Others(c) /\ d.of = r
    BY Names DEF Others, Cards
  <2>2. ~Begun(d) /\ ~AtWork(d) /\ lane[d] \in Lane
    BY <1>a, <1>d, <2>1 DEF Serialised, Fences
  <2> QED  BY <2>2 DEF Begun, AtWork, Settling, Busy, Lane, Stage
<1>1. CASE ReadFloor(c)
  <2> DEFINE l == [lane[c] EXCEPT !.minting = TRUE, !.floor = newest]
  <2>1. /\ lane[c].reserved = 0 /\ Busy(c)
        /\ UNCHANGED <<running, rows, newest, pending, due, rec>>
    BY <1>a, <1>1 DEF ReadFloor, ForStart, ForPark, ReservedIsNew, Busy
  <2>2. /\ l.floor = newest /\ l.reserved = 0 /\ l.stage = lane[c].stage /\ l.pair = lane[c].pair
    BY <1>a, <2>1 DEF Lane
  <2>3. Becomes(c, l)
    BY <1>1 DEF ReadFloor
  <2> HIDE DEF l
  <2>4. lane'[c] = l /\ \A d \in Card \ {c} : lane'[d] = lane[d]
    BY <1>a, <2>3 DEF Becomes
  <2>5. OneBusy'
    BY <2>1, <2>3, BusyMoves DEF Solo
  <2>6. Minted(r)'
    <3>1. MintFits(c)' /\ ReservedIsNew(r, c)' /\ Quiet(c)'
      BY <2>1, <2>2, <2>4 DEF MintFits, ReservedIsNew, Quiet, Busy
    <3>2. ASSUME NEW d \in Card \ {c} PROVE MintFits(d)' /\ ReservedIsNew(r, d)' /\ Quiet(d)'
      BY <1>c, <2>1, <2>4 DEF MintFits, ReservedIsNew, Quiet
    <3> QED  BY <3>1, <3>2 DEF Minted
  <2>7. KeysKnown(r)' /\ RunIsLast(r)' /\ DueIsOnRecord' /\ RepaysEarlier(r)'
    BY <1>a, <2>1, <2>2, <2>4 DEF KeysKnown, RunIsLast, DueIsOnRecord, RepaysEarlier, Known
  <2> QED  BY <2>5, <2>6, <2>7 DEF Solo
<1>2. CASE Reserve(c)
  <2>1. PICK n \in Start :
          /\ Above(c, n) /\ Unused(n) /\ newest' = n
          /\ Becomes(c, [lane[c] EXCEPT !.minting = FALSE, !.floor = 0,
               !.reserved = IF ForStart(c) THEN n ELSE @,
               !.pair = IF ForStart(c) THEN @ ELSE n])
    BY <1>2 DEF Reserve
  <2> DEFINE l == [lane[c] EXCEPT !.minting = FALSE, !.floor = 0,
                     !.reserved = IF ForStart(c) THEN n ELSE @,
                     !.pair = IF ForStart(c) THEN @ ELSE n]
  <2>2. n \in Nat /\ n > newest /\ lane[c].reserved = 0 /\ Busy(c)
    BY <1>a, <1>2, <2>1, BoundAssumption DEF Reserve, Above, MintFits, Start, Quiet
  <2>3. /\ l.minting = FALSE /\ l.stage = lane[c].stage
        /\ l.reserved = IF ForStart(c) THEN n ELSE 0
        /\ l.pair = IF ForStart(c) THEN lane[c].pair ELSE n
    BY <1>a, <2>2 DEF Lane
  <2>4. UNCHANGED <<running, rows, pending, due, rec>>
    BY <1>2 DEF Reserve
  <2>5. Becomes(c, l)
    BY <2>1
  <2> HIDE DEF l
  <2>6. lane'[c] = l /\ \A d \in Card \ {c} : lane'[d] = lane[d]
    BY <1>a, <2>5 DEF Becomes
  <2>7. \A d \in Card : lane[d].pair \in Nat
    BY <1>a, BoundAssumption DEF Lane, Start
  <2>8. KeysKnown(r)'
    <3>1. \A d \in Card : lane'[d].pair <= n
      BY <1>a, <2>2, <2>3, <2>6, <2>7 DEF KeysKnown
    <3> QED  BY <1>a, <1>b, <2>1, <2>2, <2>4, <3>1 DEF KeysKnown, Known
  <2>9. Minted(r)'
    <3>1. MintFits(c)' /\ Quiet(c)'
      BY <2>3, <2>6 DEF MintFits, Quiet
    <3>2. ReservedIsNew(r, c)'
      BY <1>a, <1>b, <2>1, <2>2, <2>3, <2>4, <2>6 DEF ReservedIsNew, KeysKnown, Known, ForStart
    <3>3. ASSUME NEW d \in Card \ {c} PROVE MintFits(d)' /\ ReservedIsNew(r, d)' /\ Quiet(d)'
      BY <1>c, <2>2, <2>6 DEF MintFits, ReservedIsNew, Quiet
    <3> QED  BY <3>1, <3>2, <3>3 DEF Minted
  <2>10. OneBusy'
    BY <2>2, <2>5, BusyMoves DEF Solo
  <2>11. RunIsLast(r)' /\ DueIsOnRecord' /\ RepaysEarlier(r)'
    BY <1>a, <2>4 DEF RunIsLast, DueIsOnRecord, RepaysEarlier, Known
  <2> QED  BY <2>8, <2>9, <2>10, <2>11 DEF Solo

<1>3. CASE Armed(c)
  <2> DEFINE l == [lane[c] EXCEPT !.stage = "armed"]
  <2>1. Tame(lane[c], l)
    BY <1>a, <1>3 DEF Armed, Tame, Lane, ReservedIsNew, Quiet, Busy
  <2>2. Becomes(c, l) /\ UNCHANGED <<rows, newest, pending, due, rec>> /\ running' \in {0, running}
    BY <1>a, <1>3 DEF Armed, Goto
  <2>3. Busy(c)
    BY <1>3 DEF Armed, Busy
  <2> HIDE DEF l
  <2> QED  BY <2>1, <2>2, <2>3, TameStep
<1>4. CASE SettleFirst(c)
  <2> DEFINE l == [lane[c] EXCEPT !.stage = "settling", !.after = "armed"]
  <2>1. Tame(lane[c], l)
    BY <1>a, <1>4 DEF SettleFirst, Tame, Lane, ReservedIsNew, Quiet, Busy
  <2>2. Becomes(c, l) /\ UNCHANGED <<rows, newest, pending, due, rec>> /\ running' \in {0, running}
    BY <1>a, <1>4 DEF SettleFirst, Goto
  <2>3. Busy(c)
    BY <1>4 DEF SettleFirst, Busy
  <2> HIDE DEF l
  <2> QED  BY <2>1, <2>2, <2>3, TameStep
<1>5. CASE RingBell(c)
  <2> DEFINE l == [lane[c] EXCEPT !.stage = "ringing"]
  <2>1. Tame(lane[c], l)
    BY <1>a, <1>5 DEF RingBell, Tame, Lane, ReservedIsNew, Quiet, Busy
  <2>2. Becomes(c, l) /\ UNCHANGED <<rows, newest, pending, due, rec>> /\ running' \in {0, running}
    BY <1>a, <1>5 DEF RingBell, Goto
  <2>3. Busy(c)
    BY <1>5 DEF RingBell, Busy
  <2> HIDE DEF l
  <2> QED  BY <2>1, <2>2, <2>3, TameStep
<1>6. CASE RaceEnds(c)
  <2> DEFINE l == [lane[c] EXCEPT !.stage = "ended", !.minting = FALSE, !.reserved = 0]
  <2>1. Tame(lane[c], l)
    BY <1>a, <1>6 DEF RaceEnds, Tame, Lane, ReservedIsNew, Quiet, Busy
  <2>2. Becomes(c, l) /\ UNCHANGED <<rows, newest, pending, due, rec>> /\ running' \in {0, running}
    BY <1>a, <1>6 DEF RaceEnds, Goto
  <2>3. Busy(c)
    BY <1>6 DEF RaceEnds, Busy
  <2> HIDE DEF l
  <2> QED  BY <2>1, <2>2, <2>3, TameStep
<1>7. CASE Carry(c)
  <2> DEFINE l == [lane[c] EXCEPT !.stage = "carrying"]
  <2>1. Tame(lane[c], l)
    BY <1>a, <1>7 DEF Carry, Tame, Lane, ReservedIsNew, Quiet, Busy
  <2>2. Becomes(c, l) /\ UNCHANGED <<rows, newest, pending, due, rec>> /\ running' \in {0, running}
    BY <1>a, <1>7 DEF Carry, Goto
  <2>3. Busy(c)
    BY <1>7 DEF Carry, Busy
  <2> HIDE DEF l
  <2> QED  BY <2>1, <2>2, <2>3, TameStep
<1>8. CASE CarryFails(c)
  <2> DEFINE l == [lane[c] EXCEPT !.stage = "settling", !.minting = FALSE, !.reserved = 0]
  <2>1. Tame(lane[c], l)
    BY <1>a, <1>8 DEF CarryFails, Tame, Lane, ReservedIsNew, Quiet, Busy
  <2>2. Becomes(c, l) /\ UNCHANGED <<rows, newest, pending, due, rec>> /\ running' \in {0, running}
    BY <1>a, <1>8 DEF CarryFails, Goto
  <2>3. Busy(c)
    BY <1>8 DEF CarryFails, Busy
  <2> HIDE DEF l
  <2> QED  BY <2>1, <2>2, <2>3, TameStep
<1>9. CASE Schedule(c)
  <2> DEFINE l == [lane[c] EXCEPT !.stage = "settling", !.after = "idle", !.minting = FALSE, !.reserved = 0]
  <2>1. Tame(lane[c], l)
    BY <1>a, <1>9 DEF Schedule, Settles, Tame, Lane, ReservedIsNew, Quiet, Busy
  <2>2. Becomes(c, l) /\ UNCHANGED <<rows, newest, pending, due, rec>> /\ running' \in {0, running}
    BY <1>a, <1>9 DEF Schedule, Goto, Settles
  <2>3. Busy(c)
    BY <1>9 DEF Schedule, Busy, Settles
  <2> HIDE DEF l
  <2> QED  BY <2>1, <2>2, <2>3, TameStep
<1>10. CASE Towel(c)
  <2> DEFINE l == [lane[c] EXCEPT !.stage = "settling", !.after = "idle", !.minting = FALSE, !.reserved = 0]
  <2>1. Tame(lane[c], l)
    BY <1>a, <1>10 DEF Towel, Settles, Tame, Lane, ReservedIsNew, Quiet, Busy
  <2>2. Becomes(c, l) /\ UNCHANGED <<rows, newest, pending, due, rec>> /\ running' \in {0, running}
    BY <1>a, <1>10 DEF Towel, Goto, Settles
  <2>3. Busy(c)
    BY <1>10 DEF Towel, Busy, Settles
  <2> HIDE DEF l
  <2> QED  BY <2>1, <2>2, <2>3, TameStep
<1>11. CASE Abandon(c) \/ SettleGivesUp(c)
  <2>1. Becomes(c, NoLane) /\ UNCHANGED <<rows, newest, pending, due, rec>> /\ running' \in {0, running}
    BY <1>11 DEF Abandon, SettleGivesUp
  <2> QED  BY <2>1, IdleIsTame, TameStep
<1>12. CASE SettleEnds(c)
  <2>1. CASE lane[c].after = "armed"
    <3> DEFINE l == [lane[c] EXCEPT !.stage = "armed", !.after = "idle", !.minting = FALSE]
    <3>1. Tame(lane[c], l)
      BY <1>a, <1>12 DEF SettleEnds, Tame, Lane, ReservedIsNew
    <3>2. Becomes(c, l) /\ UNCHANGED <<running, rows, newest, pending, due, rec>> /\ Busy(c)
      BY <1>12, <2>1 DEF SettleEnds, Busy
    <3> HIDE DEF l
    <3> QED  BY <3>1, <3>2, TameStep
  <2>2. CASE lane[c].after # "armed"
    <3>1. Becomes(c, NoLane) /\ UNCHANGED <<running, rows, newest, pending, due, rec>>
      BY <1>12, <2>2 DEF SettleEnds
    <3> QED  BY <3>1, IdleIsTame, TameStep
  <2> QED  BY <2>1, <2>2
<1>13. CASE ParkUnrecorded(c)
  <2>0. running' \in {0, running} /\ UNCHANGED <<rows, newest, pending, due, rec>>
    BY <1>13 DEF ParkUnrecorded
  <2>1. CASE At(c, {"preparing"})
    <3>1. Becomes(c, NoLane)
      BY <1>13, <2>1 DEF ParkUnrecorded
    <3> QED  BY <2>0, <3>1, IdleIsTame, TameStep
  <2>2. CASE ~At(c, {"preparing"})
    <3> DEFINE l == [lane[c] EXCEPT !.minting = FALSE]
    <3>1. Tame(lane[c], l)
      BY <1>a DEF Tame, Lane, ReservedIsNew
    <3>2. Becomes(c, l) /\ Busy(c)
      BY <1>13, <2>2 DEF ParkUnrecorded, Busy
    <3> HIDE DEF l
    <3> QED  BY <2>0, <3>1, <3>2, TameStep
  <2> QED  BY <2>1, <2>2
<1>14. CASE Claim(c)
  <2> DEFINE l == [NoLane EXCEPT !.stage = "waiting", !.heeds = proc[c.of].prior]
  <2>1. Tame(lane[c], l) /\ l.stage = "waiting"
    BY DEF Tame, NoLane
  <2>2. Becomes(c, l) /\ UNCHANGED <<running, rows, newest, pending, due, rec>>
    BY <1>14 DEF Claim
  <2> HIDE DEF l
  <2> QED  BY <2>1, <2>2, TameStep
<1>15. CASE Prepare(c)
  <2> DEFINE l == [lane[c] EXCEPT !.stage = "preparing", !.heeds = None, !.past = GoesPast(c)]
  <2>1. Tame(lane[c], l)
    BY <1>a, <1>15 DEF Prepare, Tame, Lane, ReservedIsNew, Quiet, Busy
  <2>2. Becomes(c, l) /\ UNCHANGED <<running, rows, newest, pending, due, rec>>
    BY <1>15 DEF Prepare
  <2>3. \A d \in Card \ {c} : ~Busy(d)
    <3>1. ring = c /\ \A d \in Others(c) : ~AtWork(d)
      BY <1>15 DEF Prepare, Overlaps, Serialised, Fences
    <3> QED  BY <1>d, <3>1
  <2> HIDE DEF l
  <2> QED  BY <2>1, <2>2, <2>3, TameStep
<1>16. CASE LoseRing(c)
  <2> DEFINE l == [[lane[c] EXCEPT !.lost = TRUE] EXCEPT
                     !.stage = "settling", !.after = "idle", !.minting = FALSE, !.reserved = 0]
  <2>1. Tame(lane[c], l)
    BY <1>a DEF Tame, Lane
  <2>2. Becomes(c, l) /\ UNCHANGED <<running, rows, newest, pending, due, rec>>
    BY <1>16 DEF LoseRing, Settles
  <2>3. Busy(c) \/ \A d \in Card \ {c} : ~Busy(d)
    <3>1. CASE At(c, {"waiting"})
      <4>1. ring = c /\ \A d \in Others(c) : ~AtWork(d)
        BY <1>16, <3>1 DEF LoseRing, Overlaps, Serialised, Fences
      <4> QED  BY <1>d, <4>1
    <3>2. CASE ~At(c, {"waiting"})
      BY <1>16, <3>2 DEF LoseRing, Settling, Busy
    <3> QED  BY <3>1, <3>2
  <2> HIDE DEF l
  <2> QED  BY <2>1, <2>2, <2>3, TameStep
<1>17. CASE Park(c)
  <2>1. /\ running' = 0 /\ UNCHANGED <<rows, newest, due, lane, rec>> /\ Busy(c)
        /\ pending'[r] = pending[r] \cup {[intent |-> "stopped", start |-> lane[c].pair]}
    BY <1>a, <1>17 DEF Park, Busy
  <2>2. 0 \notin due
    BY <1>a, BoundAssumption DEF Start
  <2>3. \A d \in Card : lane[d].reserved = 0
    BY <1>a, <1>c, <1>17, <2>1 DEF Park, ReservedIsNew
  <2>4. KeysKnown(r)'
    BY <1>a, <2>1 DEF KeysKnown, Known
  <2>5. Minted(r)' /\ OneBusy'
    BY <2>1, <2>3 DEF Solo, Minted, MintFits, ReservedIsNew, Quiet, Busy, OneBusy
  <2>6. RunIsLast(r)' /\ DueIsOnRecord' /\ RepaysEarlier(r)'
    BY <1>a, <2>1, <2>2 DEF RunIsLast, DueIsOnRecord, RepaysEarlier
  <2> QED  BY <2>4, <2>5, <2>6 DEF Solo
<1>18. ASSUME NEW records, Started(c, records),
             \A x \in records : x.start = lane[c].reserved /\ x.intent # "stopped"
      PROVE  Solo(r)'
  <2> DEFINE n == lane[c].reserved
             l == [lane[c] EXCEPT !.stage = IF @ = "ringing" THEN "racing" ELSE "settling",
                                  !.pair = n, !.reserved = 0]
  <2>1. /\ running' = n /\ n # 0 /\ UNCHANGED <<rows, newest, due, rec>>
        /\ pending'[r] = pending[r] \cup records
        /\ Becomes(c, l) /\ Busy(c)
    BY <1>a, <1>18 DEF Started, Busy
  <2>2. /\ n = newest /\ n \in Nat /\ ~lane[c].minting
        /\ \A x \in Known(r) : x.start # n
    BY <1>a, <2>1 DEF ReservedIsNew, MintFits
  <2>3. l.reserved = 0 /\ l.pair = n /\ ~l.minting
    BY <1>a, <2>2 DEF Lane
  <2>4. OneBusy'
    BY <2>1, BusyMoves DEF Solo
  <2> HIDE DEF l
  <2>5. lane'[c] = l /\ \A d \in Card \ {c} : lane'[d] = lane[d]
    BY <1>a, <2>1 DEF Becomes
  <2>6. KeysKnown(r)'
    <3>1. \A d \in Card : lane'[d].pair <= newest
      BY <1>a, <2>2, <2>3, <2>5 DEF KeysKnown
    <3>2. \A x \in Known(r)' : x.start <= newest
      BY <1>a, <1>18, <2>1, <2>2 DEF KeysKnown, Known
    <3> QED  BY <2>1, <2>2, <3>1, <3>2 DEF KeysKnown
  <2>7. RunIsLast(r)'
    BY <1>a, <1>18, <2>1, <2>2 DEF KeysKnown, RunIsLast, Known
  <2>8. n \notin due
    BY <1>a, <2>2 DEF DueIsOnRecord, Known
  <2>9. DueIsOnRecord' /\ RepaysEarlier(r)'
    BY <1>a, <2>1, <2>8 DEF DueIsOnRecord, RepaysEarlier
  <2>10. Minted(r)'
    <3>1. ASSUME NEW d \in Card PROVE lane'[d].reserved = 0 /\ ~lane'[d].minting
      BY <1>c, <2>1, <2>3, <2>5
    <3> QED  BY <3>1 DEF Minted, MintFits, ReservedIsNew, Quiet
  <2> QED  BY <2>4, <2>6, <2>7, <2>9, <2>10 DEF Solo
<1>19. CASE StartLane(c)
  <2>1. \A x \in [intent : {"resuming", "stop_owed"}, start : {lane[c].reserved}] :
          x.start = lane[c].reserved /\ x.intent # "stopped"
    OBVIOUS
  <2>2. Started(c, [intent : {"resuming", "stop_owed"}, start : {lane[c].reserved}])
    BY <1>19 DEF StartLane
  <2> QED  BY <1>18, <2>1, <2>2
<1>20. CASE StartUnanswered(c)
  BY <1>18, <1>20 DEF StartUnanswered
<1> QED
  BY <1>1, <1>2, <1>3, <1>4, <1>5, <1>6, <1>7, <1>8, <1>9, <1>10, <1>11, <1>12, <1>13,
     <1>14, <1>15, <1>16, <1>17, <1>19, <1>20
  DEF CardStep, Carries

LEMMA SoloReplica ==
  ASSUME PowerTypeOK, NEW r \in Replica, Replica = {r}, Solo(r), ReplicaStep(r)
  PROVE  Solo(r)'
<1> USE DEF cloud, history, RecBecomes, Enter
<1>a. /\ lane \in [Card -> Lane] /\ rec \in [Replica -> Recovery]
      /\ pending \in [Replica -> SUBSET Row] /\ rows \subseteq Row
      /\ rec[r] \in Recovery /\ pending[r] \subseteq Row
      /\ running \in Nat /\ newest \in Nat /\ due \subseteq Start
      /\ KeysKnown(r) /\ Minted(r) /\ OneBusy
      /\ RunIsLast(r) /\ DueIsOnRecord /\ RepaysEarlier(r)
      /\ \A c \in Card : c.of = r
  BY Names, BoundAssumption DEF PowerTypeOK, Solo, Start
<1>b. ASSUME UNCHANGED <<rows, newest, pending, due, lane>>, running' \in {0, running},
             RepaysEarlier(r)'
      PROVE  Solo(r)'
  <2>1. KeysKnown(r)' /\ RunIsLast(r)' /\ DueIsOnRecord'
    BY <1>a, <1>b DEF KeysKnown, RunIsLast, DueIsOnRecord, Known
  <2>2. Minted(r)' /\ OneBusy'
    BY <1>a, <1>b DEF Minted, MintFits, ReservedIsNew, Quiet, OneBusy, Busy, At, Known
  <2> QED  BY <1>b, <2>1, <2>2 DEF Solo
<1>c. ASSUME \A c \in Card : lane'[c].stage = "idle" /\ Tame(lane[c], lane'[c]),
             UNCHANGED <<newest, due, running>>, rows \subseteq rows',
             Known(r)' \subseteq Known(r), rec'[r].step \in {"off", "waiting"}
      PROVE  Solo(r)'
  <2>1. OneBusy'
    BY <1>c DEF OneBusy, Busy, At
  <2> QED  BY <1>c, <2>1, SoloMoves
<1>1. CASE CommitRow(r)
  <2>1. rows \subseteq rows' /\ Known(r)' \subseteq Known(r) /\ UNCHANGED <<running, newest, due, lane, rec>>
    BY <1>a, <1>1 DEF CommitRow, Known
  <2> QED  BY <2>1, StillSolo
<1>2. CASE LoseRow(r)
  <2>1. rows \subseteq rows' /\ Known(r)' \subseteq Known(r) /\ UNCHANGED <<running, newest, due, lane, rec>>
    BY <1>a, <1>2 DEF LoseRow, Known
  <2> QED  BY <2>1, StillSolo
<1>3. CASE RecClaim(r) \/ RecFails(r)
  <2>1. UNCHANGED <<running, rows, newest, pending, due, lane>>
    BY <1>3 DEF RecClaim, RecFails
  <2>2. rec'[r].step \in {"claimed", "waiting"}
    BY <1>a, <1>3 DEF RecClaim, RecFails, Recovery
  <2>3. RepaysEarlier(r)'
    BY <2>2 DEF RepaysEarlier
  <2> QED  BY <1>b, <2>1, <2>3
<1>4. CASE Crash(r)
  <2>1. \A c \in Card : lane'[c] = NoLane
    BY <1>a, <1>4 DEF Crash
  <2>2. rec'[r].step = "off"
    BY <1>a, <1>4 DEF Crash, NoRecovery
  <2>3. /\ UNCHANGED <<newest, due, running>>
        /\ rows \subseteq rows' /\ Known(r)' \subseteq Known(r)
    BY <1>a, <1>4 DEF Crash, Known
  <2> QED  BY <1>c, <2>1, <2>2, <2>3, IdleIsTame
<1>5. CASE Shutdown(r)
  <2>1. \A c \in Card : lane'[c] = [NoLane EXCEPT !.pair = lane[c].pair]
    BY <1>a, <1>5 DEF Shutdown
  <2>2. rec'[r].step = "off"
    BY <1>a, <1>5 DEF Shutdown, NoRecovery
  <2>3. /\ UNCHANGED <<newest, due, running>>
        /\ rows \subseteq rows' /\ Known(r)' \subseteq Known(r)
    BY <1>a, <1>5 DEF Shutdown, Known
  <2> QED  BY <1>c, <2>1, <2>2, <2>3, IdleIsTame
<1>6. CASE Boot(r)
  <2>1. \A c \in Card : lane'[c] = NoLane
    BY <1>a, <1>6 DEF Boot
  <2>2. PICK debt \in Start \cup {0}, s \in {"off", "waiting"} :
          rec' = [rec EXCEPT ![r] = [NoRecovery EXCEPT !.debt = debt, !.step = s]]
    BY <1>6 DEF Boot
  <2>3. rec'[r].step \in {"off", "waiting"}
    BY <1>a, <2>2 DEF NoRecovery
  <2>4. /\ UNCHANGED <<newest, due, running>>
        /\ rows \subseteq rows' /\ Known(r)' \subseteq Known(r)
    BY <1>a, <1>6 DEF Boot, Known
  <2> QED  BY <1>c, <2>1, <2>3, <2>4, IdleIsTame
<1>7. ASSUME NEW from \in {"claimed", "read"}, NEW to \in {"reading", "deciding"},
             from = "claimed" <=> to = "reading", RecRead(r, from, to)
      PROVE  Solo(r)'
  <2>0. to \in Step
    BY DEF Step
  <2>1. PICK debt \in Start \cup {0}, s \in Step :
          /\ rec'[r] = [rec[r] EXCEPT !.step = s, !.debt = debt]
          /\ s = "off" \/ s = "waiting" \/ (s = to /\ debt \in due)
    BY <1>7, <2>0, ReadTakesDue
  <2>2. rec'[r].step = s /\ rec'[r].debt = debt /\ rec'[r].signals = rec[r].signals
    BY <1>a, <2>1 DEF Recovery
  <2>3. UNCHANGED <<running, rows, newest, pending, due, lane>> /\ rec[r].step = from
    BY <1>7 DEF RecRead
  <2>4. RepaysEarlier(r)'
    BY <1>a, <1>7, <2>1, <2>2, <2>3 DEF RepaysEarlier
  <2> QED  BY <1>b, <2>3, <2>4
<1>8. CASE RecRead(r, "claimed", "reading") \/ RecRead(r, "read", "deciding")
  BY <1>7, <1>8
<1>9. CASE RecSignals(r)
  <2>1. PICK s \in {"healthy", "stopped", "failed"} :
          /\ rec'[r] = [rec[r] EXCEPT !.step = "read", !.signals = s]
          /\ running # 0 => s = "healthy"
    BY <1>a, <1>9 DEF RecSignals
  <2>2. rec'[r].step = "read" /\ rec'[r].signals = s
    BY <1>a, <2>1 DEF Recovery
  <2>3. UNCHANGED <<running, rows, newest, pending, due, lane>>
    BY <1>9 DEF RecSignals
  <2>4. RepaysEarlier(r)'
    BY <1>a, <2>1, <2>2, <2>3, BoundAssumption DEF RepaysEarlier, Start
  <2> QED  BY <1>b, <2>3, <2>4
<1>10. CASE RecAct(r)
  <2>1. PICK s \in {"given_up", "appending"} : rec'[r] = [rec[r] EXCEPT !.step = s]
    BY <1>a, <1>10 DEF RecAct
  <2>2. rec'[r].step = s /\ rec'[r].debt = rec[r].debt
    BY <1>a, <2>1 DEF Recovery
  <2>3. /\ UNCHANGED <<rows, newest, pending, due, lane>> /\ rec[r].step = "deciding"
        /\ IF rec[r].signals = "healthy" THEN running' = 0 ELSE running' = running
    BY <1>10 DEF RecAct
  <2>4. rec[r].debt \in due /\ 0 \notin due /\ (running' = running => running' \notin due \/ running' = 0)
    BY <1>a, <2>3, BoundAssumption DEF RepaysEarlier, Start
  <2>5. RepaysEarlier(r)'
    BY <1>a, <2>2, <2>3, <2>4 DEF RepaysEarlier
  <2> QED  BY <1>b, <2>3, <2>5
<1>11. CASE RecAppend(r)
  <2>1. /\ rec'[r] = NoRecovery /\ UNCHANGED <<running, newest, pending, due, lane>>
        /\ rows' = rows \cup {[intent |-> "stopped", start |-> rec[r].debt]}
        /\ rec[r].debt \in due /\ rec[r].debt # running
    BY <1>a, <1>11 DEF RecAppend, Repayment, RepaysEarlier
  <2>2. PICK x \in rows : x.start = rec[r].debt
    BY <1>a, <2>1 DEF DueIsOnRecord
  <2>3. KeysKnown(r)' /\ RunIsLast(r)' /\ DueIsOnRecord'
    BY <1>a, <2>1, <2>2 DEF KeysKnown, RunIsLast, DueIsOnRecord, Known
  <2>4. Minted(r)' /\ OneBusy'
    BY <1>a, <2>1, <2>2 DEF Minted, MintFits, ReservedIsNew, Quiet, OneBusy, Busy, At, Known
  <2>5. RepaysEarlier(r)'
    BY <2>1 DEF RepaysEarlier, NoRecovery
  <2> QED  BY <2>3, <2>4, <2>5 DEF Solo
<1> QED
  BY <1>1, <1>2, <1>3, <1>4, <1>5, <1>6, <1>8, <1>9, <1>10, <1>11
  DEF ReplicaStep, Recovers

(* Once two lanes of a process have been at work at once, they have been.  *)
LEMMA OverlapStays == PowerTypeOK /\ [Next]_vars /\ overlap => overlap'
<1> SUFFICES ASSUME PowerTypeOK, [Next]_vars, overlap PROVE overlap'
  OBVIOUS
<1> USE DEF cloud, history
<1>1. ASSUME NEW c \in Card, CardStep(c) PROVE overlap'
  <2>1. CASE Carries(c)
    BY <2>1 DEF Carries, ReadFloor, Reserve, Park, Armed, Abandon, StartLane, Started,
      RaceEnds, Schedule, CarryFails, SettleEnds
  <2>2. CASE Prepare(c) \/ LoseRing(c)
    BY <2>2 DEF Prepare, LoseRing, Overlaps
  <2>3. CASE \/ Claim(c) \/ ParkUnrecorded(c) \/ SettleFirst(c) \/ RingBell(c)
             \/ StartUnanswered(c) \/ Towel(c) \/ Carry(c) \/ SettleGivesUp(c)
    BY <2>3 DEF Claim, ParkUnrecorded, SettleFirst, RingBell, StartUnanswered, Started,
      Towel, Carry, SettleGivesUp
  <2> QED  BY <1>1, <2>1, <2>2, <2>3 DEF CardStep
<1>2. ASSUME NEW r \in Replica, ReplicaStep(r) PROVE overlap'
  <2>1. CASE Recovers(r)
    BY <2>1 DEF Recovers, RecRead, RecSignals, RecAct, RecAppend
  <2>2. CASE \/ CommitRow(r) \/ LoseRow(r) \/ RecClaim(r) \/ RecFails(r)
             \/ Crash(r) \/ Shutdown(r) \/ Boot(r)
    BY <2>2 DEF CommitRow, LoseRow, RecClaim, RecFails, Crash, Shutdown, Boot
  <2> QED  BY <1>2, <2>1, <2>2 DEF ReplicaStep
<1>3. CASE FallDue \/ StopsElsewhere \/ Lapse \/ UNCHANGED vars
  BY <1>3 DEF FallDue, StopsElsewhere, Lapse, vars
<1> QED  BY <1>1, <1>2, <1>3 DEF Next

(* Alone, a start that runs and has any row on record is owed, whatever    *)
(* the wall clock did between two lives of the process and whatever rows   *)
(* of other starts arrive late: every recorded stop is of an earlier key,  *)
(* as long as no bout's lane was at work beside another's                  *)
(* (mint_power_pair_key, _unmatched_owed_stop).                            *)
THEOREM AloneRecordIsOwed ==
  ASSUME NEW only, Replica = {only}
  PROVE  Spec => []StartOnRecordIsOwed
<1> DEFINE Alone == overlap \/ Solo(only)
<1>1. Init => Alone
  <2> SUFFICES ASSUME Init PROVE Solo(only)
    OBVIOUS
  <2>1. (\A c \in Card : lane[c] = NoLane) /\ rec[only] = NoRecovery /\ pending[only] = {}
    BY DEF Init
  <2> QED  BY <2>1 DEF Init, Solo, KeysKnown, Minted, MintFits, ReservedIsNew, Quiet, OneBusy, Busy,
                       At, RunIsLast, DueIsOnRecord, RepaysEarlier, Known, NoLane, NoRecovery
<1>2. PowerTypeOK /\ Serialised /\ NoneUnknown /\ Alone /\ [Next]_vars => Alone'
  <2> SUFFICES ASSUME PowerTypeOK, Serialised, Alone, [Next]_vars, ~overlap' PROVE Solo(only)'
    OBVIOUS
  <2>0. Solo(only) /\ only \in Replica
    BY OverlapStays
  <2> HIDE DEF Alone
  <2> USE DEF cloud, history
  <2>1. ASSUME NEW c \in Card, CardStep(c) PROVE Solo(only)'
    BY <2>0, <2>1, SoloCard
  <2>2. ASSUME NEW r \in Replica, ReplicaStep(r) PROVE Solo(only)'
    BY <2>0, <2>2, SoloReplica
  <2>3. CASE FallDue
    <3>1. PICK n \in Owing(rows) : due' = due \cup {n}
      BY <2>3 DEF FallDue
    <3>2. DueIsOnRecord'
      BY <2>0, <2>3, <3>1 DEF FallDue, Solo, DueIsOnRecord, Owing
    <3>3. rec[only].step \notin Fenced /\ UNCHANGED <<running, rows, newest, pending, lane, rec>>
      BY <2>0, <2>3 DEF FallDue
    <3>4. RepaysEarlier(only)'
      BY <3>3 DEF RepaysEarlier, Fenced
    <3> QED  BY <2>0, <3>2, <3>3, <3>4
      DEF Solo, KeysKnown, Minted, MintFits, ReservedIsNew, Quiet, OneBusy, Busy, RunIsLast, Known, At
  <2>4. CASE StopsElsewhere
    <3>1. running' = 0 /\ UNCHANGED <<rows, newest, pending, due, lane, rec>>
      BY <2>4 DEF StopsElsewhere
    <3> QED  BY <2>0, <3>1, StillSolo DEF Known
  <2>5. CASE Lapse \/ UNCHANGED vars
    <3>1. UNCHANGED <<running, rows, newest, pending, due, lane, rec>>
      BY <2>5 DEF Lapse, vars
    <3> QED  BY <2>0, <3>1, StillSolo DEF Known
  <2> QED  BY <2>1, <2>2, <2>3, <2>4, <2>5 DEF Next
<1>3. PowerTypeOK /\ Alone => StartOnRecordIsOwed
  <2> SUFFICES ASSUME PowerTypeOK, Solo(only),
                      NEW x \in rows, x.intent # "stopped", x.start = running
               PROVE  running \in Owing(rows)
    BY DEF StartOnRecordIsOwed
  <2>1. running \in Start /\ running \in Nat /\ running # 0
    BY BoundAssumption DEF PowerTypeOK, Row, Start
  <2>2. \A p \in Settled(rows) : p < running
    <3> SUFFICES ASSUME NEW y \in rows, y.intent = "stopped" PROVE y.start < running
      BY DEF Settled
    <3>1. y.start \in Nat
      BY BoundAssumption DEF PowerTypeOK, Row, Start
    <3> QED  BY <2>1, <3>1 DEF Solo, RunIsLast, Known
  <2> QED  BY <2>1, <2>2 DEF Owing
<1> HIDE DEF Alone
<1> QED  BY <1>1, <1>2, <1>3, PowerTypeCorrect, RingSerialises, PTL DEF Spec
==============================================================================
