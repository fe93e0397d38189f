--------------------------- MODULE MaintenanceProofs ---------------------------
(***************************************************************************)
(* Theorems of Maintenance, for every set of round rings and every bound   *)
(* on the sealed expiries: its types, that a renew stopped anywhere can be *)
(* finished, that its target stands, that no copy of the expiry is ahead   *)
(* of what AWS was told, and that no resource outlives the tag it can be   *)
(* removed by.                                                             *)
(***************************************************************************)
EXTENDS Maintenance, TLAPS

-----------------------------------------------------------------------------
(* Type correctness.                                                       *)

LEMMA ExpiryIsNat == Expiry \subseteq Nat /\ None \notin Expiry
BY ExpiryAssumption DEF Expiry

Cmd == [kind : Kind \cup {None}, want : SUBSET Ring, lost : BOOLEAN,
        at : {"off", "preparing", "claiming", "working", "tearing"}]

Task == [at : Stage, target : Expiry \cup {None}]

LEMMA SweepType == \A k : Sweep(k) \subseteq Ring
BY RingAssumption DEF Sweep, Ring

LEMMA EndsType == ASSUME MaintTypeOK, Ends PROVE cmd' \in Cmd /\ work' \in Task
BY SweepType DEF MaintTypeOK, Ends, Cmd, Task, NoWork, Stage

LEMMA GoOnType ==
  ASSUME MaintTypeOK, NEW s \in Stage, GoOn(s)
  PROVE  cmd' \in Cmd /\ work' \in Task
BY DEF MaintTypeOK, GoOn, Cmd, Task

(* One command at a time works, and only at what is its own; when its      *)
(* coroutine tears the fence down, work goes on only after a heartbeat     *)
(* failed.                                                                 *)
OneTask ==
  /\ work.at \in {"check", "journal", "apply", "expiry", "lease", "unlink"} => cmd.kind = "renew"
  /\ work.at \in {"recover", "teardown", "reseed"} => cmd.kind = "reset"
  /\ work.at \in {"precheck", "reconcile", "resume", "recover"} => cmd.at = "preparing"
  /\ cmd.kind = "renew" => cmd.at # "preparing" /\ (work.at # "none" => work.target # None)
  /\ cmd.at = "off" => work.at = "none"
  /\ cmd.at = "preparing" => cmd.want = Sweep(cmd.kind)
  /\ cmd.at = "tearing" \/ cmd.lost => slipped \/ work.at = "none"

LEMMA EndsTask == ASSUME MaintTypeOK, OneTask, Ends, slipped' = slipped PROVE OneTask'
<1>1. /\ work'.at = "none" /\ cmd'.kind = cmd.kind
      /\ cmd'.at # "preparing"
  BY DEF MaintTypeOK, Ends, NoWork
<1> QED  BY <1>1 DEF OneTask

(* A claim takes one ring more, or gives up the command's work.            *)
LEMMA ClaimMoves ==
  ASSUME MaintTypeOK, NEW r \in Ring, ClaimRing(r)
  PROVE  /\ cmd.at = "claiming" /\ cmd'.kind = cmd.kind /\ cmd'.lost = cmd.lost
         /\ \/ /\ work' = work /\ ring' = [ring EXCEPT ![r] = "command"]
               /\ \/ cmd'.at = "claiming" /\ cmd'.want = cmd.want \ {r}
                  \/ cmd'.at = "working" /\ cmd.want = {r}
            \/ work'.at = "none" /\ ring' = ring /\ cmd'.at = "tearing"
<1>1. cmd.at = "claiming" /\ cmd'.kind = cmd.kind /\ cmd'.lost = cmd.lost
  BY DEF ClaimRing, MaintTypeOK
<1>2. CASE ring[r] = "free"
  <2>1. /\ work' = work /\ ring' = [ring EXCEPT ![r] = "command"]
        /\ cmd' = [cmd EXCEPT !.want = cmd.want \ {r},
                               !.at = IF cmd.want = {r} THEN "working" ELSE "claiming"]
    BY <1>1, <1>2 DEF ClaimRing, MaintTypeOK
  <2>2. /\ cmd'.want = cmd.want \ {r}
        /\ cmd'.at = IF cmd.want = {r} THEN "working" ELSE "claiming"
    BY <2>1 DEF MaintTypeOK
  <2> QED  BY <1>1, <2>1, <2>2
<1>3. CASE ring[r] # "free"
  <2>1. /\ work' = NoWork /\ ring' = ring
        /\ cmd' = [cmd EXCEPT !.at = "tearing", !.want = Sweep(cmd.kind) \ cmd.want]
    BY <1>3 DEF ClaimRing
  <2>2. cmd'.at = "tearing"
    BY <2>1 DEF MaintTypeOK
  <2> QED  BY <1>1, <2>1, <2>2 DEF NoWork
<1> QED  BY <1>2, <1>3

LEMMA MaintTypesHold ==
  MaintTypeOK /\ OneTask /\ [Next]_vars => MaintTypeOK'
<1> SUFFICES ASSUME MaintTypeOK /\ OneTask, [Next]_vars
             PROVE  MaintTypeOK'
  OBVIOUS
<1>1. CASE BoutCreates
  BY <1>1, SweepType DEF BoutCreates, sealed, MaintTypeOK, Kind, Stage, Moving
<1>2. CASE CleanupClaims
  <2>1. Cleanup \in Ring
    BY DEF Ring
  <2> QED  BY <1>2, <2>1 DEF CleanupClaims, sealed, MaintTypeOK
<1>3. CASE BoutCleans
  BY <1>3, SweepType DEF BoutCleans, sealed, MaintTypeOK, Kind, Stage, Moving
<1>4. CASE AppRestarts
  BY <1>4, SweepType DEF AppRestarts, sealed, MaintTypeOK, Kind, Stage, Moving
<1>5. ASSUME NEW r \in Ring, BoutClaims(r) PROVE MaintTypeOK'
  BY <1>5, SweepType DEF BoutClaims, sealed, MaintTypeOK, Kind, Stage, Moving
<1>6. ASSUME NEW r \in Ring, BoutEnds(r) PROVE MaintTypeOK'
  BY <1>6, SweepType DEF BoutEnds, sealed, MaintTypeOK, Kind, Stage, Moving
<1>7. CASE StartRenew
  BY <1>7, SweepType DEF StartRenew, Starts, sealed, MaintTypeOK, Kind, Stage, Moving
<1>8. CASE StartRefresh
  BY <1>8, SweepType DEF StartRefresh, Starts, sealed, MaintTypeOK, Kind, Stage, Moving
<1>9. CASE StartReset
  BY <1>9, SweepType DEF StartReset, Starts, sealed, MaintTypeOK, Kind, Stage, Moving
<1>10. CASE StartSetup
  BY <1>10, SweepType DEF StartSetup, Starts, sealed, MaintTypeOK, Kind, Stage, Moving
<1>11. CASE HeartbeatFails
  BY <1>11, SweepType DEF HeartbeatFails, NoWork, Idle, sealed, MaintTypeOK, Kind, Stage,
    Moving
<1>12. CASE Exits
  BY <1>12, SweepType DEF Exits, NoWork, Idle, sealed, MaintTypeOK, Kind, Stage, Moving
<1>13. CASE Killed
  BY <1>13, SweepType DEF Killed, NoWork, Idle, sealed, MaintTypeOK, Kind, Stage, Moving
<1>14. ASSUME NEW r \in Ring, ClaimRing(r) PROVE MaintTypeOK'
  <2>1. cmd' \in Cmd
    <3>1. cmd.want \ {r} \in SUBSET Ring /\ Sweep(cmd.kind) \ cmd.want \in SUBSET Ring
      BY SweepType DEF MaintTypeOK
    <3> QED  BY <1>14, <3>1 DEF ClaimRing, MaintTypeOK, Cmd
  <2>2. work' \in Task
    BY <1>14 DEF ClaimRing, MaintTypeOK, Task, NoWork, Stage
  <2> QED  BY <1>14, <2>1, <2>2 DEF ClaimRing, MaintTypeOK, Cmd, Task, sealed
<1>15. ASSUME NEW r \in Ring, GiveBack(r) PROVE MaintTypeOK'
  BY <1>15, SweepType DEF GiveBack, sealed, MaintTypeOK, Kind, Stage, Moving
<1>16. ASSUME NEW r \in Ring, Lapses(r) PROVE MaintTypeOK'
  BY <1>16, SweepType DEF Lapses, sealed, MaintTypeOK, Kind, Stage, Moving
<1>17. CASE CleanBaseline
  BY <1>17, SweepType DEF CleanBaseline, GoOn, Ends, NoWork, world, At, Preparing, sealed,
    MaintTypeOK, Kind, Stage, Moving
<1>18. CASE WriteJournal
  <2>1. cmd' \in Cmd /\ work' \in Task
    <3>1. "apply" \in Stage
      BY DEF Stage, Moving
    <3> QED  BY <1>18, <3>1, GoOnType DEF WriteJournal
  <2> QED  BY <1>18, <2>1 DEF WriteJournal, MaintTypeOK, Cmd, Task, world, sealed
<1>19. CASE Apply
  <2>1. cmd' \in Cmd /\ work' \in Task
    <3>1. "expiry" \in Stage
      BY DEF Stage, Moving
    <3> QED  BY <1>19, <3>1, GoOnType, EndsType DEF Apply
  <2>2. work.target \in Expiry /\ iam' = work.target
    BY <1>19, ExpiryIsNat DEF Apply, At, MaintTypeOK, OneTask
  <2> QED  BY <1>19, <2>1, <2>2 DEF Apply, MaintTypeOK, Cmd, Task, world, sealed
<1>20. CASE SaveExpiry
  <2>1. cmd' \in Cmd /\ work' \in Task
    <3>1. "reseal" \in Stage
      BY DEF Stage, Moving
    <3> QED  BY <1>20, <3>1, GoOnType DEF SaveExpiry
  <2>2. work.target \in Expiry /\ file' = [file EXCEPT !.expires = work.target]
    BY <1>20, ExpiryIsNat DEF SaveExpiry, At, MaintTypeOK, OneTask
  <2> QED  BY <1>20, <2>1, <2>2 DEF SaveExpiry, MaintTypeOK, Cmd, Task, world, sealed
<1>21. CASE Reseal
  <2>1. cmd' \in Cmd /\ work' \in Task
    <3>1. "topology" \in Stage
      BY DEF Stage, Moving
    <3> QED  BY <1>21, <3>1, GoOnType DEF Reseal
  <2> QED  BY <1>21, <2>1 DEF Reseal, MaintTypeOK, Cmd, Task, world, sealed
<1>22. CASE Topology
  <2>1. CASE Ends
    BY <1>22, <2>1, EndsType DEF Topology, MaintTypeOK, Cmd, Task, world, sealed
  <2>2. CASE GoOn("round6")
    BY <1>22, <2>2, GoOnType DEF Topology, MaintTypeOK, Cmd, Task, world, sealed, Stage, Moving
  <2>3. CASE /\ work' = [work EXCEPT !.at = "recover"]
            /\ cmd' = [cmd EXCEPT !.kind = "reset", !.want = Sweep("reset")]
    <3>1. cmd' \in Cmd /\ work' \in Task
      BY <2>3, SweepType DEF MaintTypeOK, Cmd, Task, Stage, Kind
    <3> QED  BY <1>22, <3>1 DEF Topology, MaintTypeOK, Cmd, Task, world, sealed
  <2> QED  BY <1>22, <2>1, <2>2, <2>3 DEF Topology
<1>23. CASE RevalidateRound6
  <2>1. cmd' \in Cmd /\ work' \in Task
    <3>1. "lease" \in Stage
      BY DEF Stage, Moving
    <3> QED  BY <1>23, <3>1, GoOnType, EndsType DEF RevalidateRound6
  <2> QED  BY <1>23, <2>1 DEF RevalidateRound6, MaintTypeOK, Cmd, Task, world, sealed
<1>24. CASE MoveLease
  <2>1. cmd' \in Cmd /\ work' \in Task
    <3>1. "unlink" \in Stage
      BY DEF Stage, Moving
    <3> QED  BY <1>24, <3>1, GoOnType DEF MoveLease
  <2> QED  BY <1>24, <2>1 DEF MoveLease, MaintTypeOK, Cmd, Task, world, sealed
<1>25. CASE UnlinkJournal
  BY <1>25, SweepType DEF UnlinkJournal, GoOn, Ends, NoWork, world, At, Preparing, sealed,
    MaintTypeOK, Kind, Stage, Moving
<1>26. CASE Precheck
  BY <1>26, SweepType DEF Precheck, GoOn, Ends, NoWork, world, At, Preparing, sealed,
    MaintTypeOK, Kind, Stage, Moving
<1>27. CASE Reconcile
  <2>1. cmd' \in Cmd /\ work' \in Task
    <3>1. "reseal" \in Stage
      BY DEF Stage, Moving
    <3> QED  BY <1>27, <3>1, GoOnType, EndsType DEF Reconcile
  <2> QED  BY <1>27, <2>1 DEF Reconcile, MaintTypeOK, Cmd, Task, world, sealed
<1>28. CASE Resume
  BY <1>28, SweepType DEF Resume, GoOn, Ends, NoWork, world, At, Preparing, sealed,
    MaintTypeOK, Kind, Stage, Moving
<1>29. CASE Recover
  BY <1>29, SweepType DEF Recover, GoOn, Ends, NoWork, world, At, Preparing, sealed,
    MaintTypeOK, Kind, Stage, Moving
<1>30. CASE Teardown
  BY <1>30, SweepType DEF Teardown, GoOn, Ends, NoWork, world, At, Preparing, sealed,
    MaintTypeOK, Kind, Stage, Moving
<1>31. CASE Reseed
  BY <1>31, SweepType DEF Reseed, GoOn, Ends, NoWork, world, At, Preparing, sealed,
    MaintTypeOK, Kind, Stage, Moving
<1>32. CASE Install
  BY <1>32, SweepType DEF Install, GoOn, Ends, NoWork, world, At, Preparing, sealed,
    MaintTypeOK, Kind, Stage, Moving
<1>33. CASE Commit
  BY <1>33, SweepType DEF Commit, GoOn, Ends, NoWork, world, At, Preparing, sealed,
    MaintTypeOK, Kind, Stage, Moving
<1>34. CASE Fails
  BY <1>34, SweepType DEF Fails, GoOn, Ends, NoWork, world, At, Preparing, sealed,
    MaintTypeOK, Kind, Stage, Moving
<1>35. CASE UNCHANGED vars
  BY <1>35, SweepType DEF vars, sealed, MaintTypeOK, Kind, Stage, Moving
<1> QED
  BY <1>1, <1>2, <1>3, <1>4, <1>5, <1>6, <1>7, <1>8, <1>9, <1>10, <1>11, <1>12, <1>13, <1>14,
     <1>15, <1>16, <1>17, <1>18, <1>19, <1>20, <1>21, <1>22, <1>23, <1>24, <1>25, <1>26,
     <1>27, <1>28, <1>29, <1>30, <1>31, <1>32, <1>33, <1>34, <1>35
  DEF Next, Bouts, Command, Work

LEMMA OneTaskHolds ==
  MaintTypeOK /\ OneTask /\ [Next]_vars => OneTask'
<1> SUFFICES ASSUME MaintTypeOK /\ OneTask, [Next]_vars
             PROVE  OneTask'
  OBVIOUS
<1>1. CASE BoutCreates
  BY <1>1 DEF BoutCreates, sealed, OneTask, MaintTypeOK, Kind, Stage, Moving
<1>2. CASE CleanupClaims
  BY <1>2 DEF CleanupClaims, sealed, OneTask, MaintTypeOK, Kind, Stage, Moving
<1>3. CASE BoutCleans
  BY <1>3 DEF BoutCleans, sealed, OneTask, MaintTypeOK, Kind, Stage, Moving
<1>4. CASE AppRestarts
  BY <1>4 DEF AppRestarts, sealed, OneTask, MaintTypeOK, Kind, Stage, Moving
<1>5. ASSUME NEW r \in Ring, BoutClaims(r) PROVE OneTask'
  BY <1>5 DEF BoutClaims, sealed, OneTask, MaintTypeOK, Kind, Stage, Moving
<1>6. ASSUME NEW r \in Ring, BoutEnds(r) PROVE OneTask'
  BY <1>6 DEF BoutEnds, sealed, OneTask, MaintTypeOK, Kind, Stage, Moving
<1>7. CASE StartRenew
  <2>1. PICK t \in Expiry \cup {journal} :
          /\ cmd' = [kind |-> "renew", at |-> "claiming", want |-> Sweep("renew"), lost |-> FALSE]
          /\ work' = [at |-> "check", target |-> t]
          /\ t # None
    BY <1>7, ExpiryIsNat DEF StartRenew, Starts, MaintTypeOK
  <2> QED  BY <1>7, <2>1 DEF OneTask
<1>8. CASE StartRefresh
  BY <1>8 DEF StartRefresh, Starts, sealed, OneTask, MaintTypeOK, Kind, Stage, Moving
<1>9. CASE StartReset
  BY <1>9 DEF StartReset, Starts, sealed, OneTask, MaintTypeOK, Kind, Stage, Moving
<1>10. CASE StartSetup
  BY <1>10 DEF StartSetup, Starts, sealed, OneTask, MaintTypeOK, Kind, Stage, Moving
<1>11. CASE HeartbeatFails
  BY <1>11 DEF HeartbeatFails, NoWork, Idle, sealed, OneTask, MaintTypeOK, Kind, Stage, Moving
<1>12. CASE Exits
  BY <1>12 DEF Exits, NoWork, Idle, sealed, OneTask, MaintTypeOK, Kind, Stage, Moving
<1>13. CASE Killed
  BY <1>13 DEF Killed, NoWork, Idle, sealed, OneTask, MaintTypeOK, Kind, Stage, Moving
<1>14. ASSUME NEW r \in Ring, ClaimRing(r) PROVE OneTask'
  <2>1. CASE work' = work /\ cmd'.at \in {"claiming", "working"}
    <3>1. cmd'.kind = cmd.kind /\ cmd'.lost = cmd.lost
      BY <1>14 DEF ClaimRing, MaintTypeOK
    <3> QED  BY <1>14, <2>1, <3>1 DEF ClaimRing, OneTask
  <2>2. CASE work' = NoWork
    <3>1. cmd'.kind = cmd.kind /\ cmd'.at # "preparing"
      BY <1>14 DEF ClaimRing, MaintTypeOK
    <3> QED  BY <2>2, <3>1 DEF OneTask, NoWork
  <2> QED  BY <1>14, <2>1, <2>2 DEF ClaimRing, MaintTypeOK
<1>15. ASSUME NEW r \in Ring, GiveBack(r) PROVE OneTask'
  BY <1>15 DEF GiveBack, sealed, OneTask, MaintTypeOK, Kind, Stage, Moving
<1>16. ASSUME NEW r \in Ring, Lapses(r) PROVE OneTask'
  BY <1>16 DEF Lapses, sealed, OneTask, MaintTypeOK, Kind, Stage, Moving
<1>17. CASE CleanBaseline
  BY <1>17 DEF CleanBaseline, GoOn, Ends, NoWork, world, At, Preparing, sealed, OneTask,
    MaintTypeOK, Kind, Stage, Moving
<1>18. CASE WriteJournal
  BY <1>18 DEF WriteJournal, GoOn, Ends, NoWork, world, At, Preparing, sealed, OneTask,
    MaintTypeOK, Kind, Stage, Moving
<1>19. CASE Apply
  <2>1. CASE Ends
    BY <1>19, <2>1, EndsTask DEF Apply, world
  <2>2. CASE GoOn("expiry")
    BY <1>19, <2>2 DEF Apply, GoOn, world, At, Preparing, MaintTypeOK, OneTask
  <2> QED  BY <1>19, <2>1, <2>2 DEF Apply
<1>20. CASE SaveExpiry
  BY <1>20 DEF SaveExpiry, GoOn, Ends, NoWork, world, At, Preparing, sealed, OneTask,
    MaintTypeOK, Kind, Stage, Moving
<1>21. CASE Reseal
  BY <1>21 DEF Reseal, GoOn, Ends, NoWork, world, At, Preparing, sealed, OneTask, MaintTypeOK,
    Kind, Stage, Moving
<1>22. CASE Topology
  <2>1. CASE Ends
    BY <1>22, <2>1, EndsTask DEF Topology, world
  <2>2. CASE GoOn("round6")
    BY <1>22, <2>2 DEF Topology, GoOn, world, At, Preparing, MaintTypeOK, OneTask
  <2>3. CASE /\ Preparing("topology")
            /\ work' = [work EXCEPT !.at = "recover"]
            /\ cmd' = [cmd EXCEPT !.kind = "reset", !.want = Sweep("reset")]
    <3>1. /\ work'.at = "recover" /\ cmd'.kind = "reset" /\ cmd'.at = "preparing"
          /\ cmd'.want = Sweep("reset") /\ cmd'.lost = cmd.lost
          /\ slipped' = slipped /\ work.at # "none"
      BY <1>22, <2>3 DEF Topology, Preparing, MaintTypeOK, world
    <3> QED  BY <3>1 DEF OneTask
  <2> QED  BY <1>22, <2>1, <2>2, <2>3 DEF Topology
<1>23. CASE RevalidateRound6
  <2>1. CASE Ends
    BY <1>23, <2>1, EndsTask DEF RevalidateRound6, world
  <2>2. CASE GoOn("lease") /\ cmd.kind = "renew"
    BY <1>23, <2>2 DEF RevalidateRound6, GoOn, world, At, Preparing, MaintTypeOK, OneTask
  <2> QED  BY <1>23, <2>1, <2>2 DEF RevalidateRound6
<1>24. CASE MoveLease
  BY <1>24 DEF MoveLease, GoOn, Ends, NoWork, world, At, Preparing, sealed, OneTask,
    MaintTypeOK, Kind, Stage, Moving
<1>25. CASE UnlinkJournal
  BY <1>25 DEF UnlinkJournal, GoOn, Ends, NoWork, world, At, Preparing, sealed, OneTask,
    MaintTypeOK, Kind, Stage, Moving
<1>26. CASE Precheck
  BY <1>26 DEF Precheck, GoOn, Ends, NoWork, world, At, Preparing, sealed, OneTask,
    MaintTypeOK, Kind, Stage, Moving
<1>27. CASE Reconcile
  <2>1. CASE Ends
    BY <1>27, <2>1, EndsTask DEF Reconcile, world
  <2>2. CASE GoOn("reseal")
    BY <1>27, <2>2 DEF Reconcile, GoOn, world, At, Preparing, MaintTypeOK, OneTask
  <2> QED  BY <1>27, <2>1, <2>2 DEF Reconcile
<1>28. CASE Resume
  BY <1>28 DEF Resume, GoOn, Ends, NoWork, world, At, Preparing, sealed, OneTask, MaintTypeOK,
    Kind, Stage, Moving
<1>29. CASE Recover
  <2>1. /\ work'.at = "teardown" /\ cmd'.at = "claiming" /\ cmd.kind = "reset"
        /\ cmd'.kind = cmd.kind /\ cmd'.lost = cmd.lost /\ slipped' = slipped
        /\ work.at # "none"
    BY <1>29 DEF Recover, Preparing, MaintTypeOK, OneTask
  <2> QED  BY <2>1 DEF OneTask
<1>30. CASE Teardown
  BY <1>30 DEF Teardown, GoOn, Ends, NoWork, world, At, Preparing, sealed, OneTask,
    MaintTypeOK, Kind, Stage, Moving
<1>31. CASE Reseed
  BY <1>31 DEF Reseed, GoOn, Ends, NoWork, world, At, Preparing, sealed, OneTask, MaintTypeOK,
    Kind, Stage, Moving
<1>32. CASE Install
  BY <1>32 DEF Install, GoOn, Ends, NoWork, world, At, Preparing, sealed, OneTask,
    MaintTypeOK, Kind, Stage, Moving
<1>33. CASE Commit
  BY <1>33 DEF Commit, GoOn, Ends, NoWork, world, At, Preparing, sealed, OneTask, MaintTypeOK,
    Kind, Stage, Moving
<1>34. CASE Fails
  <2>1. CASE Ends
    BY <1>34, <2>1, EndsTask DEF Fails, world
  <2> QED  BY <1>34, <2>1 DEF Fails
<1>35. CASE UNCHANGED vars
  BY <1>35 DEF vars, sealed, OneTask, MaintTypeOK, Kind, Stage, Moving
<1> QED
  BY <1>1, <1>2, <1>3, <1>4, <1>5, <1>6, <1>7, <1>8, <1>9, <1>10, <1>11, <1>12, <1>13, <1>14,
     <1>15, <1>16, <1>17, <1>18, <1>19, <1>20, <1>21, <1>22, <1>23, <1>24, <1>25, <1>26,
     <1>27, <1>28, <1>29, <1>30, <1>31, <1>32, <1>33, <1>34, <1>35
  DEF Next, Bouts, Command, Work

(* Every variable keeps its type, and a command its task.                  *)
THEOREM MaintTypeCorrect == Spec => [](MaintTypeOK /\ OneTask)
<1>1. Init => MaintTypeOK /\ OneTask
  <2> SUFFICES ASSUME Init PROVE MaintTypeOK /\ OneTask
    OBVIOUS
  <2>1. 0 \in Expiry
    BY ExpiryAssumption DEF Expiry
  <2>2. cmd \in Cmd /\ work \in Task
    BY DEF Init, Cmd, Task, Idle, NoWork, Stage
  <2> QED  BY <2>1, <2>2 DEF Init, MaintTypeOK, Cmd, Task, OneTask, Idle, NoWork
<1> QED  BY <1>1, MaintTypesHold, OneTaskHolds, PTL DEF Spec

-----------------------------------------------------------------------------
(* Where a renew is going, and what has got there.  The journal names the  *)
(* target of a renew from before its first change to after its last.       *)

Aimed ==
  /\ journal # None => journal >= file.expires
  /\ work.at \in {"check", "journal"} => work.target >= file.expires
  /\ work.at \in {"check", "journal"} /\ journal # None => work.target = journal
  /\ work.at \in {"apply", "expiry"} => journal = work.target
  /\ work.at = "expiry" => iam = work.target
  /\ cmd.kind = "renew" /\ work.at \in {"reseal", "topology", "round6", "lease", "unlink"}
       => journal = file.expires
  /\ work.at \in {"topology", "round6", "lease", "unlink"}
       => file.seal = file.expires /\ iam = file.expires

(* AWS is told first, then the manifest, then the seal, then the app.      *)
Ordered == app <= file.seal /\ NeverAhead

Renewing == Aimed /\ Ordered /\ HalfMovedIsJournaled

LEMMA RenewingHolds ==
  MaintTypeOK /\ OneTask /\ Renewing /\ [Next]_vars => Renewing'
<1> SUFFICES ASSUME MaintTypeOK /\ OneTask /\ Renewing, [Next]_vars
             PROVE  Renewing'
  OBVIOUS
<1>a. /\ iam \in Nat /\ file.expires \in Nat /\ file.seal \in Nat /\ app \in Nat
      /\ Expiry \subseteq Nat /\ None \notin Nat
  BY ExpiryIsNat, ExpiryAssumption DEF MaintTypeOK
<1>1. CASE BoutCreates
  BY <1>1 DEF BoutCreates, Renewing, Aimed, Ordered, NeverAhead, HalfMovedIsJournaled, sealed
<1>2. CASE CleanupClaims
  BY <1>2 DEF CleanupClaims, Renewing, Aimed, Ordered, NeverAhead, HalfMovedIsJournaled, sealed
<1>3. CASE BoutCleans
  BY <1>3 DEF BoutCleans, Renewing, Aimed, Ordered, NeverAhead, HalfMovedIsJournaled, sealed
<1>4. CASE AppRestarts
  BY <1>4, <1>a DEF AppRestarts, sealed, Renewing, Aimed, Ordered, NeverAhead,
    HalfMovedIsJournaled, MaintTypeOK, OneTask
<1>5. ASSUME NEW r \in Ring, BoutClaims(r) PROVE Renewing'
  BY <1>5 DEF BoutClaims, Renewing, Aimed, Ordered, NeverAhead, HalfMovedIsJournaled, sealed
<1>6. ASSUME NEW r \in Ring, BoutEnds(r) PROVE Renewing'
  BY <1>6 DEF BoutEnds, Renewing, Aimed, Ordered, NeverAhead, HalfMovedIsJournaled, sealed
<1>7. CASE StartRenew
  <2>1. PICK t \in Expiry \cup {journal} :
          /\ work' = [at |-> "check", target |-> t]
          /\ IF journal # None THEN t = journal ELSE t > file.expires
    BY <1>7 DEF StartRenew, Starts, MaintTypeOK
  <2>2. t >= file.expires /\ UNCHANGED <<file, iam, journal, app>>
    BY <1>7, <1>a, <2>1, ExpiryIsNat DEF StartRenew, Starts, sealed, Renewing, Aimed, Ordered, NeverAhead, HalfMovedIsJournaled
  <2> QED  BY <2>1, <2>2 DEF Renewing, Aimed, Ordered, NeverAhead, HalfMovedIsJournaled
<1>8. CASE StartRefresh
  BY <1>8 DEF StartRefresh, Starts, sealed, Renewing, Aimed, Ordered, NeverAhead,
    HalfMovedIsJournaled
<1>9. CASE StartReset
  BY <1>9 DEF StartReset, Starts, sealed, Renewing, Aimed, Ordered, NeverAhead,
    HalfMovedIsJournaled
<1>10. CASE StartSetup
  BY <1>10 DEF StartSetup, Starts, sealed, Renewing, Aimed, Ordered, NeverAhead,
    HalfMovedIsJournaled
<1>11. CASE HeartbeatFails
  BY <1>11, <1>a DEF HeartbeatFails, NoWork, Idle, sealed, Renewing, Aimed, Ordered,
    NeverAhead, HalfMovedIsJournaled, MaintTypeOK, OneTask
<1>12. CASE Exits
  BY <1>12, <1>a DEF Exits, NoWork, Idle, sealed, Renewing, Aimed, Ordered, NeverAhead,
    HalfMovedIsJournaled, MaintTypeOK, OneTask
<1>13. CASE Killed
  BY <1>13, <1>a DEF Killed, NoWork, Idle, sealed, Renewing, Aimed, Ordered, NeverAhead,
    HalfMovedIsJournaled, MaintTypeOK, OneTask
<1>14. ASSUME NEW r \in Ring, ClaimRing(r) PROVE Renewing'
  <2>1. UNCHANGED <<iam, file, journal, app>>
    BY <1>14 DEF ClaimRing, sealed
  <2> QED  BY <1>14, <2>1, ClaimMoves DEF Renewing, Aimed, Ordered, NeverAhead, HalfMovedIsJournaled
<1>15. ASSUME NEW r \in Ring, GiveBack(r) PROVE Renewing'
  BY <1>15, <1>a DEF GiveBack, sealed, Renewing, Aimed, Ordered, NeverAhead,
    HalfMovedIsJournaled, MaintTypeOK, OneTask
<1>16. ASSUME NEW r \in Ring, Lapses(r) PROVE Renewing'
  BY <1>16 DEF Lapses, Renewing, Aimed, Ordered, NeverAhead, HalfMovedIsJournaled, sealed
<1>17. CASE CleanBaseline
  BY <1>17, <1>a DEF CleanBaseline, GoOn, Ends, NoWork, world, At, Preparing, sealed,
    Renewing, Aimed, Ordered, NeverAhead, HalfMovedIsJournaled, MaintTypeOK, OneTask
<1>18. CASE WriteJournal
  BY <1>18, <1>a DEF WriteJournal, GoOn, Ends, NoWork, world, At, Preparing, sealed, Renewing,
    Aimed, Ordered, NeverAhead, HalfMovedIsJournaled, MaintTypeOK, OneTask
<1>19. CASE Apply
  BY <1>19, <1>a DEF Apply, GoOn, Ends, NoWork, world, At, Preparing, sealed, Renewing, Aimed,
    Ordered, NeverAhead, HalfMovedIsJournaled, MaintTypeOK, OneTask
<1>20. CASE SaveExpiry
  BY <1>20, <1>a DEF SaveExpiry, GoOn, Ends, NoWork, world, At, Preparing, sealed, Renewing,
    Aimed, Ordered, NeverAhead, HalfMovedIsJournaled, MaintTypeOK, OneTask
<1>21. CASE Reseal
  BY <1>21, <1>a DEF Reseal, GoOn, Ends, NoWork, world, At, Preparing, sealed, Renewing,
    Aimed, Ordered, NeverAhead, HalfMovedIsJournaled, MaintTypeOK, OneTask
<1>22. CASE Topology
  BY <1>22, <1>a DEF Topology, GoOn, Ends, NoWork, world, At, Preparing, sealed, Renewing,
    Aimed, Ordered, NeverAhead, HalfMovedIsJournaled, MaintTypeOK, OneTask
<1>23. CASE RevalidateRound6
  BY <1>23, <1>a DEF RevalidateRound6, GoOn, Ends, NoWork, world, At, Preparing, sealed,
    Renewing, Aimed, Ordered, NeverAhead, HalfMovedIsJournaled, MaintTypeOK, OneTask
<1>24. CASE MoveLease
  BY <1>24, <1>a DEF MoveLease, GoOn, Ends, NoWork, world, At, Preparing, sealed, Renewing,
    Aimed, Ordered, NeverAhead, HalfMovedIsJournaled, MaintTypeOK, OneTask
<1>25. CASE UnlinkJournal
  BY <1>25, <1>a DEF UnlinkJournal, GoOn, Ends, NoWork, world, At, Preparing, sealed,
    Renewing, Aimed, Ordered, NeverAhead, HalfMovedIsJournaled, MaintTypeOK, OneTask
<1>26. CASE Precheck
  BY <1>26, <1>a DEF Precheck, GoOn, Ends, NoWork, world, At, Preparing, sealed, Renewing,
    Aimed, Ordered, NeverAhead, HalfMovedIsJournaled, MaintTypeOK, OneTask
<1>27. CASE Reconcile
  BY <1>27, <1>a DEF Reconcile, GoOn, Ends, NoWork, world, At, Preparing, sealed, Renewing,
    Aimed, Ordered, NeverAhead, HalfMovedIsJournaled, MaintTypeOK, OneTask
<1>28. CASE Resume
  BY <1>28, <1>a DEF Resume, GoOn, Ends, NoWork, world, At, Preparing, sealed, Renewing,
    Aimed, Ordered, NeverAhead, HalfMovedIsJournaled, MaintTypeOK, OneTask
<1>29. CASE Recover
  BY <1>29, <1>a DEF Recover, GoOn, Ends, NoWork, world, At, Preparing, sealed, Renewing,
    Aimed, Ordered, NeverAhead, HalfMovedIsJournaled, MaintTypeOK, OneTask
<1>30. CASE Teardown
  BY <1>30, <1>a DEF Teardown, GoOn, Ends, NoWork, world, At, Preparing, sealed, Renewing,
    Aimed, Ordered, NeverAhead, HalfMovedIsJournaled, MaintTypeOK, OneTask
<1>31. CASE Reseed
  BY <1>31, <1>a DEF Reseed, GoOn, Ends, NoWork, world, At, Preparing, sealed, Renewing,
    Aimed, Ordered, NeverAhead, HalfMovedIsJournaled, MaintTypeOK, OneTask
<1>32. CASE Install
  BY <1>32, <1>a DEF Install, GoOn, Ends, NoWork, world, At, Preparing, sealed, Renewing,
    Aimed, Ordered, NeverAhead, HalfMovedIsJournaled, MaintTypeOK, OneTask
<1>33. CASE Commit
  BY <1>33, <1>a DEF Commit, GoOn, Ends, NoWork, world, At, Preparing, sealed, Renewing,
    Aimed, Ordered, NeverAhead, HalfMovedIsJournaled, MaintTypeOK, OneTask
<1>34. CASE Fails
  BY <1>34, <1>a DEF Fails, GoOn, Ends, NoWork, world, At, Preparing, sealed, Renewing, Aimed,
    Ordered, NeverAhead, HalfMovedIsJournaled, MaintTypeOK, OneTask
<1>35. CASE UNCHANGED vars
  BY <1>35 DEF vars, sealed, Renewing, Aimed, Ordered, NeverAhead, HalfMovedIsJournaled
<1> QED
  BY <1>1, <1>2, <1>3, <1>4, <1>5, <1>6, <1>7, <1>8, <1>9, <1>10, <1>11, <1>12, <1>13, <1>14,
     <1>15, <1>16, <1>17, <1>18, <1>19, <1>20, <1>21, <1>22, <1>23, <1>24, <1>25, <1>26,
     <1>27, <1>28, <1>29, <1>30, <1>31, <1>32, <1>33, <1>34, <1>35
  DEF Next, Bouts, Command, Work

LEMMA RenewingAtFirst == Init => Renewing
BY ExpiryAssumption DEF Init, Renewing, Aimed, Ordered, NeverAhead, HalfMovedIsJournaled, NoWork

(* A renew that was stopped anywhere can be finished: unless the journal   *)
(* names a target, the policies, the manifest and the seal agree (renew,   *)
(* _resume_renew_target).                                                  *)
THEOREM StoppedRenewIsKnown == Spec => []HalfMovedIsJournaled
<1>1. Renewing => HalfMovedIsJournaled
  BY DEF Renewing
<1> QED  BY <1>1, RenewingAtFirst, RenewingHolds, MaintTypeCorrect, PTL DEF Spec

(* Neither the manifest nor the seal is ever ahead of what AWS was told    *)
(* ("the manifest must never be written ahead of the retag").              *)
THEOREM ManifestIsNeverAhead == Spec => []NeverAhead
<1>1. Renewing => NeverAhead
  BY DEF Renewing, Ordered
<1> QED  BY <1>1, RenewingAtFirst, RenewingHolds, MaintTypeCorrect, PTL DEF Spec

(* The journaled target stands until every copy names it, whatever is run  *)
(* and killed in between ("a re-run converges rather than drifts").        *)
THEOREM RerunsConverge == Spec => TargetStands
<1>1. MaintTypeOK /\ OneTask /\ Renewing /\ [Next]_vars =>
        [journal # None /\ journal' # journal =>
           journal' = None /\ iam = journal /\ file.expires = journal /\ file.seal = journal]_vars
  <2> SUFFICES ASSUME MaintTypeOK, OneTask, Renewing, Next, journal # None, journal' # journal
               PROVE  /\ journal' = None
                      /\ iam = journal /\ file.expires = journal /\ file.seal = journal
    BY DEF vars, sealed
  <2> USE DEF sealed
  <2>1. CASE WriteJournal
    BY <2>1 DEF WriteJournal, At, Renewing, Aimed
  <2>2. CASE UnlinkJournal
    BY <2>2 DEF UnlinkJournal, At, Renewing, Aimed, OneTask
  <2>3. CASE Bouts
    BY <2>3 DEF Bouts, BoutCreates, CleanupClaims, BoutCleans, AppRestarts, BoutClaims, BoutEnds
  <2>4. CASE Command
    BY <2>4 DEF Command, StartRenew, StartRefresh, StartReset, StartSetup, Starts,
      HeartbeatFails, Exits, Killed, ClaimRing, GiveBack, Lapses
  <2>5. CASE Work /\ ~WriteJournal /\ ~UnlinkJournal
    BY <2>5 DEF Work, CleanBaseline, Apply, SaveExpiry, Reseal, Topology, RevalidateRound6,
      MoveLease, Precheck, Reconcile, Resume, Recover, Teardown, Reseed, Install, Commit, Fails,
      world
  <2> QED  BY <2>1, <2>2, <2>3, <2>4, <2>5 DEF Next
<1> QED  BY <1>1, RenewingAtFirst, RenewingHolds, MaintTypeCorrect, PTL DEF Spec, TargetStands

-----------------------------------------------------------------------------
(* What a bout made can be removed.  A ring the command keeps alive is its *)
(* own, so no bout of Round 5 makes anything between a renew's look at the *)
(* baseline and its reseal; any other reseal that moves the seal finds the *)
(* policies ahead of the app, which is refused whatever it asks for.       *)

Held == \A r \in Kept : ring[r] = "command"

Clear ==
  ~slipped =>
    /\ residue \subseteq {file.seal}
    /\ cmd.kind = "renew" /\ work.at \in {"journal", "apply", "expiry", "reseal"}
         => residue = {} /\ cmd.at = "working"
    /\ work.at \in {"teardown", "reseed", "reseal"} /\ file.seal # file.expires
         => residue = {}

LEMMA HeldHolds ==
  MaintTypeOK /\ OneTask /\ Held /\ [Next]_vars => Held'
<1> SUFFICES ASSUME MaintTypeOK /\ OneTask /\ Held, [Next]_vars
             PROVE  Held'
  OBVIOUS
<1>1. CASE BoutCreates
  BY <1>1 DEF BoutCreates, Held, Kept, MaintTypeOK
<1>2. CASE CleanupClaims
  BY <1>2 DEF CleanupClaims, Held, Kept, MaintTypeOK
<1>3. CASE BoutCleans
  BY <1>3 DEF BoutCleans, Held, Kept, MaintTypeOK
<1>4. CASE AppRestarts
  BY <1>4 DEF AppRestarts, Held, Kept, MaintTypeOK
<1>5. ASSUME NEW r \in Ring, BoutClaims(r) PROVE Held'
  BY <1>5 DEF BoutClaims, Held, Kept, MaintTypeOK
<1>6. ASSUME NEW r \in Ring, BoutEnds(r) PROVE Held'
  BY <1>6 DEF BoutEnds, Held, Kept, MaintTypeOK
<1>7. CASE StartRenew
  BY <1>7 DEF StartRenew, Starts, sealed, Held, Kept, MaintTypeOK, OneTask
<1>8. CASE StartRefresh
  BY <1>8 DEF StartRefresh, Starts, sealed, Held, Kept, MaintTypeOK, OneTask
<1>9. CASE StartReset
  BY <1>9 DEF StartReset, Starts, sealed, Held, Kept, MaintTypeOK, OneTask
<1>10. CASE StartSetup
  BY <1>10 DEF StartSetup, Starts, sealed, Held, Kept, MaintTypeOK, OneTask
<1>11. CASE HeartbeatFails
  BY <1>11 DEF HeartbeatFails, NoWork, Idle, sealed, Held, Kept, MaintTypeOK, OneTask
<1>12. CASE Exits
  BY <1>12 DEF Exits, NoWork, Idle, sealed, Held, Kept, MaintTypeOK, OneTask
<1>13. CASE Killed
  BY <1>13 DEF Killed, NoWork, Idle, sealed, Held, Kept, MaintTypeOK, OneTask
<1>14. ASSUME NEW r \in Ring, ClaimRing(r) PROVE Held'
  <2>1. CASE cmd'.at = "tearing"
    BY <2>1 DEF Held, Kept
  <2>2. CASE cmd'.at # "tearing"
    <3>1. /\ cmd.at = "claiming" /\ cmd'.kind = cmd.kind
          /\ ring' = [ring EXCEPT ![r] = "command"]
          /\ Kept = Sweep(cmd.kind) \ cmd.want
      BY <1>14, <2>2, ClaimMoves DEF Kept
    <3>2. Kept' \subseteq Kept \cup {r}
      BY <1>14, <2>2, <3>1, ClaimMoves DEF Kept
    <3> QED  BY <3>1, <3>2, SweepType DEF Held, MaintTypeOK
  <2> QED  BY <2>1, <2>2
<1>15. ASSUME NEW r \in Ring, GiveBack(r) PROVE Held'
  BY <1>15 DEF GiveBack, sealed, Held, Kept, MaintTypeOK, OneTask
<1>16. ASSUME NEW r \in Ring, Lapses(r) PROVE Held'
  BY <1>16 DEF Lapses, Held, Kept, MaintTypeOK
<1>17. CASE CleanBaseline
  BY <1>17 DEF CleanBaseline, GoOn, Ends, NoWork, world, At, Preparing, sealed, Held, Kept,
    MaintTypeOK, OneTask
<1>18. CASE WriteJournal
  BY <1>18 DEF WriteJournal, GoOn, Ends, NoWork, world, At, Preparing, sealed, Held, Kept,
    MaintTypeOK, OneTask
<1>19. CASE Apply
  BY <1>19 DEF Apply, GoOn, Ends, NoWork, world, At, Preparing, sealed, Held, Kept,
    MaintTypeOK, OneTask
<1>20. CASE SaveExpiry
  BY <1>20 DEF SaveExpiry, GoOn, Ends, NoWork, world, At, Preparing, sealed, Held, Kept,
    MaintTypeOK, OneTask
<1>21. CASE Reseal
  BY <1>21 DEF Reseal, GoOn, Ends, NoWork, world, At, Preparing, sealed, Held, Kept,
    MaintTypeOK, OneTask
<1>22. CASE Topology
  BY <1>22 DEF Topology, GoOn, Ends, NoWork, world, At, Preparing, sealed, Held, Kept,
    MaintTypeOK, OneTask
<1>23. CASE RevalidateRound6
  BY <1>23 DEF RevalidateRound6, GoOn, Ends, NoWork, world, At, Preparing, sealed, Held, Kept,
    MaintTypeOK, OneTask
<1>24. CASE MoveLease
  BY <1>24 DEF MoveLease, GoOn, Ends, NoWork, world, At, Preparing, sealed, Held, Kept,
    MaintTypeOK, OneTask
<1>25. CASE UnlinkJournal
  BY <1>25 DEF UnlinkJournal, GoOn, Ends, NoWork, world, At, Preparing, sealed, Held, Kept,
    MaintTypeOK, OneTask
<1>26. CASE Precheck
  BY <1>26 DEF Precheck, GoOn, Ends, NoWork, world, At, Preparing, sealed, Held, Kept,
    MaintTypeOK, OneTask
<1>27. CASE Reconcile
  BY <1>27 DEF Reconcile, GoOn, Ends, NoWork, world, At, Preparing, sealed, Held, Kept,
    MaintTypeOK, OneTask
<1>28. CASE Resume
  BY <1>28 DEF Resume, GoOn, Ends, NoWork, world, At, Preparing, sealed, Held, Kept,
    MaintTypeOK, OneTask
<1>29. CASE Recover
  BY <1>29 DEF Recover, GoOn, Ends, NoWork, world, At, Preparing, sealed, Held, Kept,
    MaintTypeOK, OneTask
<1>30. CASE Teardown
  BY <1>30 DEF Teardown, GoOn, Ends, NoWork, world, At, Preparing, sealed, Held, Kept,
    MaintTypeOK, OneTask
<1>31. CASE Reseed
  BY <1>31 DEF Reseed, GoOn, Ends, NoWork, world, At, Preparing, sealed, Held, Kept,
    MaintTypeOK, OneTask
<1>32. CASE Install
  BY <1>32 DEF Install, GoOn, Ends, NoWork, world, At, Preparing, sealed, Held, Kept,
    MaintTypeOK, OneTask
<1>33. CASE Commit
  BY <1>33 DEF Commit, GoOn, Ends, NoWork, world, At, Preparing, sealed, Held, Kept,
    MaintTypeOK, OneTask
<1>34. CASE Fails
  BY <1>34 DEF Fails, GoOn, Ends, NoWork, world, At, Preparing, sealed, Held, Kept,
    MaintTypeOK, OneTask
<1>35. CASE UNCHANGED vars
  BY <1>35 DEF vars, Held, Kept
<1> QED
  BY <1>1, <1>2, <1>3, <1>4, <1>5, <1>6, <1>7, <1>8, <1>9, <1>10, <1>11, <1>12, <1>13, <1>14,
     <1>15, <1>16, <1>17, <1>18, <1>19, <1>20, <1>21, <1>22, <1>23, <1>24, <1>25, <1>26,
     <1>27, <1>28, <1>29, <1>30, <1>31, <1>32, <1>33, <1>34, <1>35
  DEF Next, Bouts, Command, Work

LEMMA ClearHolds ==
  MaintTypeOK /\ OneTask /\ Renewing /\ Held /\ Clear /\ [Next]_vars => Clear'
<1> SUFFICES ASSUME MaintTypeOK /\ OneTask /\ Renewing /\ Held /\ Clear, [Next]_vars
             PROVE  Clear'
  OBVIOUS
<1>a. /\ iam \in Nat /\ file.expires \in Nat /\ file.seal \in Nat /\ app \in Nat
      /\ Expiry \subseteq Nat /\ None \notin Nat
  BY ExpiryIsNat, ExpiryAssumption DEF MaintTypeOK
<1>1. CASE BoutCreates
  <2> SUFFICES ASSUME ~slipped PROVE Clear'
    BY <1>1 DEF BoutCreates, Clear
  <2>1. /\ UNCHANGED <<cmd, work, iam, file, app, slipped>> /\ ring[Round5] = "bout"
        /\ app = iam /\ residue' = residue \cup {app}
    BY <1>1 DEF BoutCreates, sealed
  <2>2. app = file.seal /\ file.seal = file.expires
    BY <1>a, <2>1 DEF Renewing, Ordered, NeverAhead
  <2>3. ~(cmd.kind = "renew" /\ work.at \in {"journal", "apply", "expiry", "reseal"})
    <3> SUFFICES ASSUME cmd.kind = "renew", work.at \in {"journal", "apply", "expiry", "reseal"}
                 PROVE  FALSE
      OBVIOUS
    <3>1. cmd.at = "working" /\ ~cmd.lost
      BY DEF Clear, OneTask
    <3>2. Round5 \in Kept
      BY <3>1, RingAssumption DEF Kept, Sweep
    <3> QED  BY <2>1, <3>2 DEF Held
  <2> QED  BY <2>1, <2>2, <2>3 DEF Clear
<1>2. CASE CleanupClaims
  BY <1>2, <1>a DEF CleanupClaims, sealed, Clear, MaintTypeOK, OneTask, Renewing, Aimed,
    Ordered, NeverAhead, HalfMovedIsJournaled
<1>3. CASE BoutCleans
  BY <1>3, <1>a DEF BoutCleans, sealed, Clear, MaintTypeOK, OneTask, Renewing, Aimed, Ordered,
    NeverAhead, HalfMovedIsJournaled
<1>4. CASE AppRestarts
  BY <1>4, <1>a DEF AppRestarts, sealed, Clear, MaintTypeOK, OneTask, Renewing, Aimed,
    Ordered, NeverAhead, HalfMovedIsJournaled
<1>5. ASSUME NEW r \in Ring, BoutClaims(r) PROVE Clear'
  BY <1>5, <1>a DEF BoutClaims, sealed, Clear, MaintTypeOK, OneTask, Renewing, Aimed, Ordered,
    NeverAhead, HalfMovedIsJournaled
<1>6. ASSUME NEW r \in Ring, BoutEnds(r) PROVE Clear'
  BY <1>6, <1>a DEF BoutEnds, sealed, Clear, MaintTypeOK, OneTask, Renewing, Aimed, Ordered,
    NeverAhead, HalfMovedIsJournaled
<1>7. CASE StartRenew
  BY <1>7, <1>a DEF StartRenew, Starts, sealed, Clear, MaintTypeOK, OneTask, Renewing, Aimed,
    Ordered, NeverAhead, HalfMovedIsJournaled
<1>8. CASE StartRefresh
  BY <1>8, <1>a DEF StartRefresh, Starts, sealed, Clear, MaintTypeOK, OneTask, Renewing,
    Aimed, Ordered, NeverAhead, HalfMovedIsJournaled
<1>9. CASE StartReset
  BY <1>9, <1>a DEF StartReset, Starts, sealed, Clear, MaintTypeOK, OneTask, Renewing, Aimed,
    Ordered, NeverAhead, HalfMovedIsJournaled
<1>10. CASE StartSetup
  BY <1>10, <1>a DEF StartSetup, Starts, sealed, Clear, MaintTypeOK, OneTask, Renewing, Aimed,
    Ordered, NeverAhead, HalfMovedIsJournaled
<1>11. CASE HeartbeatFails
  BY <1>11, <1>a DEF HeartbeatFails, NoWork, Idle, sealed, Clear, MaintTypeOK, OneTask,
    Renewing, Aimed, Ordered, NeverAhead, HalfMovedIsJournaled
<1>12. CASE Exits
  BY <1>12, <1>a DEF Exits, NoWork, Idle, sealed, Clear, MaintTypeOK, OneTask, Renewing,
    Aimed, Ordered, NeverAhead, HalfMovedIsJournaled
<1>13. CASE Killed
  BY <1>13, <1>a DEF Killed, NoWork, Idle, sealed, Clear, MaintTypeOK, OneTask, Renewing,
    Aimed, Ordered, NeverAhead, HalfMovedIsJournaled
<1>14. ASSUME NEW r \in Ring, ClaimRing(r) PROVE Clear'
  <2>1. UNCHANGED <<iam, file, residue, slipped>>
    BY <1>14 DEF ClaimRing, sealed
  <2> QED  BY <1>14, <2>1, ClaimMoves DEF Clear, OneTask
<1>15. ASSUME NEW r \in Ring, GiveBack(r) PROVE Clear'
  BY <1>15, <1>a DEF GiveBack, sealed, Clear, MaintTypeOK, OneTask, Renewing, Aimed, Ordered,
    NeverAhead, HalfMovedIsJournaled
<1>16. ASSUME NEW r \in Ring, Lapses(r) PROVE Clear'
  BY <1>16, <1>a DEF Lapses, sealed, Clear, MaintTypeOK, OneTask, Renewing, Aimed, Ordered,
    NeverAhead, HalfMovedIsJournaled
<1>17. CASE CleanBaseline
  BY <1>17, <1>a DEF CleanBaseline, GoOn, Ends, NoWork, world, At, Preparing, sealed, Clear,
    MaintTypeOK, OneTask, Renewing, Aimed, Ordered, NeverAhead, HalfMovedIsJournaled
<1>18. CASE WriteJournal
  BY <1>18, <1>a DEF WriteJournal, GoOn, Ends, NoWork, world, At, Preparing, sealed, Clear,
    MaintTypeOK, OneTask, Renewing, Aimed, Ordered, NeverAhead, HalfMovedIsJournaled
<1>19. CASE Apply
  BY <1>19, <1>a DEF Apply, GoOn, Ends, NoWork, world, At, Preparing, sealed, Clear,
    MaintTypeOK, OneTask, Renewing, Aimed, Ordered, NeverAhead, HalfMovedIsJournaled
<1>20. CASE SaveExpiry
  BY <1>20, <1>a DEF SaveExpiry, GoOn, Ends, NoWork, world, At, Preparing, sealed, Clear,
    MaintTypeOK, OneTask, Renewing, Aimed, Ordered, NeverAhead, HalfMovedIsJournaled
<1>21. CASE Reseal
  BY <1>21, <1>a DEF Reseal, GoOn, Ends, NoWork, world, At, Preparing, sealed, Clear,
    MaintTypeOK, OneTask, Renewing, Aimed, Ordered, NeverAhead, HalfMovedIsJournaled
<1>22. CASE Topology
  BY <1>22, <1>a DEF Topology, GoOn, Ends, NoWork, world, At, Preparing, sealed, Clear,
    MaintTypeOK, OneTask, Renewing, Aimed, Ordered, NeverAhead, HalfMovedIsJournaled
<1>23. CASE RevalidateRound6
  BY <1>23, <1>a DEF RevalidateRound6, GoOn, Ends, NoWork, world, At, Preparing, sealed,
    Clear, MaintTypeOK, OneTask, Renewing, Aimed, Ordered, NeverAhead, HalfMovedIsJournaled
<1>24. CASE MoveLease
  BY <1>24, <1>a DEF MoveLease, GoOn, Ends, NoWork, world, At, Preparing, sealed, Clear,
    MaintTypeOK, OneTask, Renewing, Aimed, Ordered, NeverAhead, HalfMovedIsJournaled
<1>25. CASE UnlinkJournal
  BY <1>25, <1>a DEF UnlinkJournal, GoOn, Ends, NoWork, world, At, Preparing, sealed, Clear,
    MaintTypeOK, OneTask, Renewing, Aimed, Ordered, NeverAhead, HalfMovedIsJournaled
<1>26. CASE Precheck
  BY <1>26, <1>a DEF Precheck, GoOn, Ends, NoWork, world, At, Preparing, sealed, Clear,
    MaintTypeOK, OneTask, Renewing, Aimed, Ordered, NeverAhead, HalfMovedIsJournaled
<1>27. CASE Reconcile
  BY <1>27, <1>a DEF Reconcile, GoOn, Ends, NoWork, world, At, Preparing, sealed, Clear,
    MaintTypeOK, OneTask, Renewing, Aimed, Ordered, NeverAhead, HalfMovedIsJournaled
<1>28. CASE Resume
  BY <1>28, <1>a DEF Resume, GoOn, Ends, NoWork, world, At, Preparing, sealed, Clear,
    MaintTypeOK, OneTask, Renewing, Aimed, Ordered, NeverAhead, HalfMovedIsJournaled
<1>29. CASE Recover
  BY <1>29, <1>a DEF Recover, GoOn, Ends, NoWork, world, At, Preparing, sealed, Clear,
    MaintTypeOK, OneTask, Renewing, Aimed, Ordered, NeverAhead, HalfMovedIsJournaled
<1>30. CASE Teardown
  BY <1>30, <1>a DEF Teardown, GoOn, Ends, NoWork, world, At, Preparing, sealed, Clear,
    MaintTypeOK, OneTask, Renewing, Aimed, Ordered, NeverAhead, HalfMovedIsJournaled
<1>31. CASE Reseed
  BY <1>31, <1>a DEF Reseed, GoOn, Ends, NoWork, world, At, Preparing, sealed, Clear,
    MaintTypeOK, OneTask, Renewing, Aimed, Ordered, NeverAhead, HalfMovedIsJournaled
<1>32. CASE Install
  BY <1>32, <1>a DEF Install, GoOn, Ends, NoWork, world, At, Preparing, sealed, Clear,
    MaintTypeOK, OneTask, Renewing, Aimed, Ordered, NeverAhead, HalfMovedIsJournaled
<1>33. CASE Commit
  BY <1>33, <1>a DEF Commit, GoOn, Ends, NoWork, world, At, Preparing, sealed, Clear,
    MaintTypeOK, OneTask, Renewing, Aimed, Ordered, NeverAhead, HalfMovedIsJournaled
<1>34. CASE Fails
  BY <1>34, <1>a DEF Fails, GoOn, Ends, NoWork, world, At, Preparing, sealed, Clear,
    MaintTypeOK, OneTask, Renewing, Aimed, Ordered, NeverAhead, HalfMovedIsJournaled
<1>35. CASE UNCHANGED vars
  BY <1>35 DEF vars, sealed, Clear
<1> QED
  BY <1>1, <1>2, <1>3, <1>4, <1>5, <1>6, <1>7, <1>8, <1>9, <1>10, <1>11, <1>12, <1>13, <1>14,
     <1>15, <1>16, <1>17, <1>18, <1>19, <1>20, <1>21, <1>22, <1>23, <1>24, <1>25, <1>26,
     <1>27, <1>28, <1>29, <1>30, <1>31, <1>32, <1>33, <1>34, <1>35
  DEF Next, Bouts, Command, Work

(* What a bout made can always be removed by the seal's tag, unless a      *)
(* fence was lost under the work (_require_round5_clean_baseline).         *)
THEOREM NothingIsStranded == Spec => []NothingStranded
<1>1. Init => Held /\ Clear
  BY DEF Init, Held, Kept, Clear, Idle, NoWork
<1>2. Clear => NothingStranded
  BY DEF Clear, NothingStranded
<1> QED
  BY <1>1, <1>2, RenewingAtFirst, RenewingHolds, HeldHolds, ClearHolds, MaintTypeCorrect, PTL
  DEF Spec
==============================================================================
