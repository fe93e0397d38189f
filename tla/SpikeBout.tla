------------------------------ MODULE SpikeBout ------------------------------
(***************************************************************************)
(* Round 5's bout as its card sees it (server/manager.py): the claim of the *)
(* warm slot with both rings, the bell, the two lanes and their runner jobs *)
(* (server/connection_spike_live.py), the verdict that is published only    *)
(* under proved authority, the handoff to backstage cleanup, the worker and *)
(* the loop that retry it, and the releases of the two rings.               *)
(*                                                                         *)
(* A bout holds two rows, the ring's ("main") and cleanup's ("back"), each  *)
(* with its own heartbeat, and the claim of the warm slot, which belongs to *)
(* the process that coordinates the slot.  The slot's own life is WarmSlot, *)
(* the agents that run the jobs are ResidentControl; here the slot is the   *)
(* state and the claim it shows, and a job is what its agent has been told. *)
(***************************************************************************)
EXTENDS Naturals

CONSTANTS
  Process,               \* the replicas of the app
  Lakebase, Competitor,  \* the lanes
  None,                  \* no process
  MaxBout, MaxBells,     \* bounds: the bouts, and the first of them, that ring
  MaxFaults              \* bound on lost leases, takeovers, crashes, errors, timeouts

Bouts == 1..MaxBout
Lanes == {Lakebase, Competitor}

ASSUME NamesAssumption == Lakebase # Competitor /\ None \notin Process /\ Process # {}
ASSUME BoundsAssumption == MaxBout \in Nat /\ MaxBells \in Nat /\ MaxFaults \in Nat

VARIABLES
  slot,    \* the warm slot: its state, and the bout whose claim it bears
  leader,  \* the process that coordinates the slot
  main,    \* the row of the bout's ring: its bout, 0 when there is none, and phase
  back,    \* the row of the cleanup ring
  bouts,   \* how many bouts there have been
  card,    \* of each bout: what its session's record holds
  lane,    \* of each bout and lane: what the engine's task for it is at
  job,     \* of each bout and lane: what the lane's runner has been told
  faults   \* how many there have been

vars == <<slot, leader, main, back, bouts, card, lane, job, faults>>

Gone == [bout |-> 0, phase |-> "none"]
Draft == [home |-> None, state |-> "DRAFT", sealed |-> FALSE, ring |-> "none",
          clean |-> "none", held |-> 0, open |-> FALSE, owed |-> FALSE, run |-> "none",
          failing |-> FALSE, off |-> "none", work |-> "none", loop |-> FALSE,
          late |-> FALSE, lost |-> FALSE, passed |-> FALSE]
Phase == {"none", "checking", "armed", "run_committed", "towel_cleanup", "cooldown",
          "round5_cleanup"}

SpikeTypeOK ==
  /\ slot \in [state : {"warming", "ready", "claimed", "running", "cleaning"},
               claim : 0..MaxBout]
  /\ leader \in Process \cup {None}
  /\ main \in [bout : 0..MaxBout, phase : Phase]
  /\ back \in [bout : 0..MaxBout, phase : Phase]
  /\ bouts \in 0..MaxBout
  /\ card \in [Bouts ->
       [home : Process \cup {None},
        state : {"DRAFT", "CHECKING", "ARMED", "RUNNING", "VERIFIED", "FAILED", "TOWELLED"},
        sealed : BOOLEAN, ring : Phase, clean : Phase, held : 0..MaxBout,
        open : BOOLEAN, owed : BOOLEAN,
        run : {"none", "arm", "setup", "burst", "verdict", "readback", "failing",
               "stopping"},
        failing : BOOLEAN, off : {"none", "cancel", "fence"},
        work : {"none", "look", "lease", "fence", "converge", "main", "back"},
        loop : BOOLEAN, late : BOOLEAN, lost : BOOLEAN,
        passed : BOOLEAN]]  \* history: another process, or another bout's cleanup,
                            \* has taken the slot from it since
  /\ lane \in [Bouts -> [Lanes -> {"idle", "setup", "burst", "valid", "bad",
                                   "invalid"}]]
  /\ job \in [Bouts -> [Lanes -> {"none", "staged", "released", "settled"}]]
  /\ faults \in 0..MaxFaults

Init ==
  /\ slot = [state |-> "ready", claim |-> 0]
  /\ leader = CHOOSE p \in Process : TRUE
  /\ main = Gone /\ back = Gone /\ bouts = 0
  /\ card = [b \in Bouts |-> Draft]
  /\ lane = [b \in Bouts |-> [l \in Lanes |-> "idle"]]
  /\ job = [b \in Bouts |-> [l \in Lanes |-> "none"]]
  /\ faults = 0

-----------------------------------------------------------------------------
Terminal == {"VERIFIED", "FAILED", "TOWELLED"}
Row(b, phase) == [bout |-> b, phase |-> phase]
Put(b, record) == card' = [card EXCEPT ![b] = record]
Fault == faults < MaxFaults /\ faults' = faults + 1

\* The record's lock is held from the commit of a verdict to its publication.
Unlocked(b) == card[b].run # "readback"
OwnsMain(b) == main = Row(b, card[b].ring)
OwnsBack(b) == back = Row(b, card[b].clean)
Busy(b) == \/ card[b].run # "none" \/ card[b].off # "none" \/ card[b].work # "none"
           \/ card[b].loop \/ card[b].failing

\* A heartbeat renews the ring's lease unless the card waits armed, or never
\* rang; the cleanup lease's is started again when the card leaves ARMED.
MainRenewed(b) == /\ card[b].ring # "none" /\ card[b].state # "ARMED"
                  /\ card[b].state = "FAILED" => card[b].sealed
BackRenewed(b) == card[b].clean # "none" /\ card[b].state # "ARMED"

\* The coordinator moves a claim to CLEANING for the process that owns the slot.
CanFence(b, claim) == leader = card[b].home /\ claim # 0 /\ slot.claim = claim
Cleaning == [slot EXCEPT !.state = "cleaning"]

\* What retaining the cleanup lease leaves: in the row, and in a record r of b.
CanRetain(b) == card[b].clean # "none" /\ OwnsBack(b)
CanReclaim(b) == ~CanRetain(b) /\ back.bout = 0
Retain(b, claims) ==
  back' = IF CanRetain(b) \/ (claims /\ CanReclaim(b)) THEN Row(b, "round5_cleanup") ELSE back
Retained(b, claims) ==
  IF CanRetain(b) \/ (claims /\ CanReclaim(b)) THEN "round5_cleanup" ELSE "none"

\* The slot is fenced by b's cleanup, which may have found another's claim on it.
FencedBy(b, record) ==
  card' = [c \in Bouts |->
    IF c = b THEN record
    ELSE [card[c] EXCEPT !.passed = @ \/ (c = slot.claim /\ slot.state # "cleaning")]]

Owing(r) == [r EXCEPT !.owed = TRUE, !.loop = TRUE]
Pending(r) == [Owing(r) EXCEPT !.work = "none", !.off = "none"]

-----------------------------------------------------------------------------
(* The claim and the arm.                                                  *)

\* A process gives a claim back while work it could not stop runs under a lost lease.
Unstopped(p) == \E c \in Bouts : card[c].home = p /\ card[c].lost /\ Busy(c)

Claim(p) ==
  LET b == bouts + 1 IN
  /\ bouts < MaxBout /\ leader = p /\ slot.state = "ready"
  /\ main.bout = 0 /\ back.bout = 0
  /\ ~Unstopped(p)
  /\ bouts' = b
  /\ slot' = [state |-> "claimed", claim |-> b]
  /\ main' = Row(b, "checking") /\ back' = Row(b, "checking")
  /\ Put(b, [Draft EXCEPT !.home = p, !.state = "CHECKING", !.ring = "checking",
                          !.clean = "checking", !.held = b, !.run = "arm"])
  /\ UNCHANGED <<leader, lane, job, faults>>

\* Preparing the bout stages Lakebase's runner ahead of the bell.
ArmStages(b) ==
  /\ card[b].run = "arm" /\ job[b][Lakebase] = "none"
  /\ job' = [job EXCEPT ![b][Lakebase] = "staged"]
  /\ UNCHANGED <<slot, leader, main, back, bouts, card, lane, faults>>

ArmDone(b) ==
  /\ card[b].run = "arm" /\ job[b][Lakebase] = "staged"
  /\ OwnsMain(b) /\ OwnsBack(b)
  /\ main' = Row(b, "armed") /\ back' = Row(b, "armed")
  /\ Put(b, [card[b] EXCEPT !.state = "ARMED", !.ring = "armed", !.clean = "armed",
                            !.run = "none"])
  /\ UNCHANGED <<slot, leader, bouts, lane, job, faults>>

\* A row that moved on under the arm: both rings are released before the failure.
ArmLost(b) ==
  /\ card[b].run = "arm" /\ job[b][Lakebase] = "staged"
  /\ ~(OwnsMain(b) /\ OwnsBack(b))
  /\ main' = IF OwnsMain(b) THEN Gone ELSE main
  /\ back' = IF OwnsBack(b) THEN Gone ELSE back
  /\ Put(b, [card[b] EXCEPT !.ring = "none", !.clean = "none", !.run = "failing"])
  /\ UNCHANGED <<slot, leader, bouts, lane, job, faults>>

ArmFails(b) ==
  /\ card[b].run = "arm"
  /\ Put(b, [card[b] EXCEPT !.run = "failing"])
  /\ UNCHANGED <<slot, leader, main, back, bouts, lane, job, faults>>

\* The window of an armed card ends, or its owner cancels it: always to cleanup.
Abandon(b) ==
  /\ card[b].state = "ARMED"
  /\ Retain(b, TRUE)
  /\ \/ CanFence(b, b) /\ slot' = Cleaning /\ UNCHANGED faults
     \/ ~CanFence(b, b) /\ UNCHANGED <<slot, faults>>
     \/ CanFence(b, b) /\ Fault /\ UNCHANGED slot
  /\ Put(b, Owing([card[b] EXCEPT !.state = "FAILED", !.clean = Retained(b, TRUE)]))
  /\ UNCHANGED <<leader, main, bouts, lane, job>>

-----------------------------------------------------------------------------
(* The bell.                                                               *)

CanRing(b) ==
  /\ card[b].state = "ARMED" /\ leader = card[b].home
  /\ slot = [state |-> "claimed", claim |-> b]
  /\ OwnsMain(b) /\ OwnsBack(b)
  /\ b <= MaxBells

\* One transaction moves the slot and both rows, and releases Lakebase's runner.
Bell(b) ==
  /\ CanRing(b)
  /\ slot' = [slot EXCEPT !.state = "running"]
  /\ main' = Row(b, "run_committed") /\ back' = Row(b, "run_committed")
  /\ job' = [job EXCEPT ![b][Lakebase] = "released"]
  /\ lane' = [lane EXCEPT ![b] = [l \in Lanes |-> "setup"]]
  /\ Put(b, [card[b] EXCEPT !.state = "RUNNING", !.ring = "run_committed",
                            !.clean = "run_committed", !.open = TRUE, !.run = "setup"])
  /\ UNCHANGED <<leader, bouts, faults>>

\* A bell refused before its transaction: nothing launched, and the claim is cleaned.
BellRefused(b) ==
  /\ card[b].state = "ARMED"
  /\ slot' = IF CanFence(b, b) THEN Cleaning ELSE slot
  /\ Retain(b, FALSE)
  /\ Put(b, Owing([card[b] EXCEPT !.state = "FAILED", !.clean = Retained(b, FALSE)]))
  /\ UNCHANGED <<leader, main, bouts, lane, job, faults>>

\* A bell whose transaction answered too late to dispatch: committed, then refused.
BellLapses(b) ==
  /\ CanRing(b)
  /\ slot' = Cleaning
  /\ main' = Row(b, "run_committed") /\ back' = Row(b, "round5_cleanup")
  /\ job' = [job EXCEPT ![b][Lakebase] = "released"]
  /\ Put(b, Owing([card[b] EXCEPT !.state = "FAILED", !.ring = "run_committed",
                                  !.clean = "round5_cleanup"]))
  /\ UNCHANGED <<leader, bouts, lane, faults>>

-----------------------------------------------------------------------------
(* The lanes.                                                              *)

\* The competitor's request is staged while its proxy is still being built.
Stages(b) ==
  /\ lane[b][Competitor] = "setup" /\ job[b][Competitor] = "none"
  /\ job' = [job EXCEPT ![b][Competitor] = "staged"]
  /\ UNCHANGED <<slot, leader, main, back, bouts, card, lane, faults>>

\* A lane whose own setup has stopped starts its burst without the other.
Dispatches(b, l) ==
  /\ lane[b][l] = "setup"
  /\ l = Competitor => job[b][l] = "staged"
  /\ lane' = [lane EXCEPT ![b][l] = "burst"]
  /\ job' = IF l = Competitor THEN [job EXCEPT ![b][l] = "released"] ELSE job
  /\ UNCHANGED <<slot, leader, main, back, bouts, card, faults>>

LaneProves(b, l) ==
  /\ lane[b][l] = "burst" /\ job[b][l] = "released"
  /\ lane' = [lane EXCEPT ![b][l] = "valid"]
  /\ UNCHANGED <<slot, leader, main, back, bouts, card, job, faults>>

\* A result that fails its gate closes ingestion, and is raised; one that comes
\* after ingestion closed is not.
LaneMisses(b, l) ==
  /\ lane[b][l] = "burst" /\ job[b][l] = "released"
  /\ Unlocked(b)
  /\ lane' = [lane EXCEPT ![b][l] = IF card[b].open THEN "invalid" ELSE "bad"]
  /\ Put(b, [card[b] EXCEPT !.open = FALSE])
  /\ UNCHANGED <<slot, leader, main, back, bouts, job, faults>>

\* A lane's failure cancels its sibling and the setup, and fails the run that waits.
LaneRaises(b, l) ==
  /\ lane[b][l] \in {"invalid", "burst"}
  /\ lane' = [lane EXCEPT ![b] = [m \in Lanes |->
       IF m = l \/ lane[b][m] \in {"setup", "burst"} THEN "idle" ELSE lane[b][m]]]
  /\ Put(b, [card[b] EXCEPT !.run = IF @ \in {"setup", "burst"} THEN "failing" ELSE @])
  /\ UNCHANGED <<slot, leader, main, back, bouts, job, faults>>

\* Both lanes are dispatched: the run goes on, or, with ingestion closed, returns.
SetupEnds(b) ==
  /\ card[b].run = "setup"
  /\ \A l \in Lanes : lane[b][l] # "setup"
  /\ Put(b, [card[b] EXCEPT !.run = IF card[b].open THEN "burst" ELSE "none"])
  /\ UNCHANGED <<slot, leader, main, back, bouts, lane, job, faults>>

-----------------------------------------------------------------------------
(* The verdict.                                                            *)

Authority(b) == /\ card[b].ring = "run_committed" /\ OwnsMain(b)
                /\ card[b].clean = "run_committed" /\ OwnsBack(b)

\* Ingestion is closed and both rows are read without the record's lock ...
BurstEnds(b) ==
  /\ card[b].run = "burst"
  /\ \A l \in Lanes : lane[b][l] \in {"valid", "bad"}
  /\ Put(b, IF card[b].sealed THEN [card[b] EXCEPT !.run = "none"]
            ELSE [card[b] EXCEPT !.open = FALSE,
                                 !.run = IF Authority(b) THEN "verdict" ELSE "failing"])
  /\ UNCHANGED <<slot, leader, main, back, bouts, lane, job, faults>>

Verdict(b) == IF \A l \in Lanes : lane[b][l] = "valid" THEN {"VERIFIED", "FAILED"}
              ELSE {"FAILED"}

\* ... and again under it, where the ring's row is moved on from exactly that fence.
Commits(b) ==
  /\ card[b].run = "verdict" /\ ~card[b].sealed /\ Authority(b)
  /\ main' = Row(b, "cooldown")
  /\ \E v \in Verdict(b) :
       Put(b, [card[b] EXCEPT !.state = v, !.ring = "cooldown", !.run = "readback"])
  /\ UNCHANGED <<slot, leader, back, bouts, lane, job, faults>>

\* Someone else ended the bout first, or its authority has moved.
CommitRefused(b) ==
  /\ card[b].run = "verdict" /\ (card[b].sealed \/ ~Authority(b))
  /\ Put(b, [card[b] EXCEPT !.run = IF card[b].sealed THEN "none" ELSE "failing"])
  /\ UNCHANGED <<slot, leader, main, back, bouts, lane, job, faults>>

\* The move raises an error of the connection: the run ends with the verdict on the
\* card, unpublished, whether the row moved or not.
CommitBreaks(b) ==
  /\ card[b].run = "verdict" /\ ~card[b].sealed /\ Authority(b)
  /\ Fault
  /\ main' \in {main, Row(b, "cooldown")}
  /\ \E v \in Verdict(b) : Put(b, [card[b] EXCEPT !.state = v, !.run = "none"])
  /\ UNCHANGED <<slot, leader, back, bouts, lane, job>>

(* Mutant: the verdict is published on the answer of the ring's row alone. *)
ReadsNothing(b) ==
  /\ card[b].run = "readback"
  /\ Put(b, [card[b] EXCEPT !.sealed = TRUE, !.run = "none", !.off = "cancel"])
  /\ UNCHANGED <<slot, leader, main, back, bouts, lane, job, faults>>

\* Both rows are read back before the verdict is published; else it is undone.
ReadsBack(b) ==
  /\ card[b].run = "readback"
  /\ Put(b, IF OwnsMain(b) /\ back = Row(b, "run_committed")
            THEN [card[b] EXCEPT !.sealed = TRUE, !.run = "none", !.off = "cancel"]
            ELSE [card[b] EXCEPT !.state = "RUNNING", !.run = "failing"])
  /\ UNCHANGED <<slot, leader, main, back, bouts, lane, job, faults>>

(* Mutant: the failure is published whatever the bout's outcome. *)
PublishAnyFailure(b) ==
  /\ card[b].run = "failing" \/ (card[b].failing /\ card[b].run = "none")
  /\ Put(b, [card[b] EXCEPT !.run = "none", !.failing = FALSE, !.state = "FAILED",
                            !.open = FALSE, !.owed = FALSE, !.sealed = TRUE,
                            !.off = "cancel"])
  /\ UNCHANGED <<slot, leader, main, back, bouts, lane, job, faults>>

\* The failure of the run, or of the handler of a lost lease once the run has
\* stopped.  A published outcome absorbs it.
PublishFailure(b) ==
  LET done == [card[b] EXCEPT !.run = "none", !.failing = FALSE]
      moves == OwnsMain(b) /\ card[b].ring = "run_committed" IN
  /\ card[b].run = "failing" \/ (card[b].failing /\ card[b].run = "none")
  /\ IF card[b].sealed
     THEN Put(b, done) /\ UNCHANGED main
     ELSE /\ main' = IF moves THEN Row(b, "cooldown") ELSE main
          /\ Put(b, [done EXCEPT !.state = "FAILED", !.open = FALSE, !.owed = FALSE,
                                 !.sealed = TRUE, !.off = "cancel",
                                 !.ring = IF moves THEN "cooldown" ELSE @])
  /\ UNCHANGED <<slot, leader, back, bouts, lane, job, faults>>

\* The owner throws the towel: the row moves first, then the bout is stopped.
Towel(b) ==
  /\ card[b].state = "RUNNING" /\ ~card[b].sealed /\ Unlocked(b)
  /\ card[b].ring = "run_committed" /\ OwnsMain(b)
  /\ main' = Row(b, "towel_cleanup")
  /\ Put(b, [card[b] EXCEPT !.state = "TOWELLED", !.ring = "towel_cleanup", !.open = FALSE,
                            !.owed = FALSE, !.sealed = TRUE, !.off = "cancel"])
  /\ UNCHANGED <<slot, leader, back, bouts, lane, job, faults>>

-----------------------------------------------------------------------------
(* The handoff to backstage cleanup, and its worker.                       *)

(* Mutant: the slot is fenced while the lanes still run. *)
HandoffLeaves(b) ==
  /\ card[b].off = "cancel"
  /\ Put(b, [card[b] EXCEPT !.owed = FALSE, !.off = "fence"])
  /\ UNCHANGED <<slot, leader, main, back, bouts, lane, job, faults>>

\* The local work is cancelled before the slot shows CLEANING ...
HandoffCancels(b) ==
  /\ card[b].off = "cancel"
  /\ lane' = [lane EXCEPT ![b] = [l \in Lanes |-> "idle"]]
  /\ Put(b, [card[b] EXCEPT !.owed = FALSE, !.off = "fence",
                            !.run = IF @ \in {"setup", "burst"} THEN "none" ELSE @])
  /\ UNCHANGED <<slot, leader, main, back, bouts, job, faults>>

\* ... or has not stopped in time, and the slot is fenced all the same.
HandoffGivesUp(b) ==
  /\ card[b].off = "cancel" /\ Fault
  /\ Put(b, [card[b] EXCEPT !.owed = FALSE, !.off = "fence", !.late = TRUE])
  /\ UNCHANGED <<slot, leader, main, back, bouts, lane, job>>

\* What was cancelled but had not stopped ends in its own time.
LateStops(b) ==
  /\ card[b].late
  /\ card[b].run \in {"setup", "burst"} \/ \E l \in Lanes : lane[b][l] # "idle"
  /\ lane' = [lane EXCEPT ![b] = [l \in Lanes |-> "idle"]]
  /\ Put(b, [card[b] EXCEPT !.run = IF @ \in {"setup", "burst"} THEN "none" ELSE @])
  /\ UNCHANGED <<slot, leader, main, back, bouts, job, faults>>

HandoffFences(b) ==
  LET kept == [card[b] EXCEPT !.off = "none", !.clean = Retained(b, FALSE)] IN
  /\ card[b].off = "fence"
  /\ Retain(b, FALSE)
  /\ \/ /\ CanFence(b, card[b].held)
        /\ slot' = Cleaning
        /\ FencedBy(b, [kept EXCEPT !.work = IF @ = "none" THEN "look" ELSE @])
        /\ UNCHANGED faults
     \/ ~CanFence(b, card[b].held) /\ Put(b, Owing(kept)) /\ UNCHANGED <<slot, faults>>
     \/ CanFence(b, card[b].held) /\ Fault /\ Put(b, Owing(kept)) /\ UNCHANGED slot
  /\ UNCHANGED <<leader, main, bouts, lane, job>>

\* The worker reads the slot: a claim that it no longer bears is retired, and only
\* the bout's rings remain to release.
Looked(b) ==
  IF card[b].held # 0 /\ slot.claim # card[b].held
  THEN [card[b] EXCEPT !.held = 0, !.work = "main"]
  ELSE [card[b] EXCEPT !.work = "lease"]

Looks(b) ==
  /\ card[b].work = "look"
  /\ Put(b, Looked(b))
  /\ UNCHANGED <<slot, leader, main, back, bouts, lane, job, faults>>

(* Mutant: the loop's worker does not look whether the slot has moved on. *)
LoopNeverLooks(b) ==
  /\ card[b].loop /\ card[b].run = "none" /\ card[b].off = "none" /\ card[b].work = "none"
  /\ Put(b, IF card[b].owed THEN [card[b] EXCEPT !.work = "lease"]
            ELSE [card[b] EXCEPT !.loop = FALSE])
  /\ UNCHANGED <<slot, leader, main, back, bouts, lane, job, faults>>

\* The loop waits for the run and for a worker, and ends when nothing is owed.
LoopRuns(b) ==
  /\ card[b].loop /\ card[b].run = "none" /\ card[b].off = "none" /\ card[b].work = "none"
  /\ Put(b, IF card[b].owed THEN Looked(b) ELSE [card[b] EXCEPT !.loop = FALSE])
  /\ UNCHANGED <<slot, leader, main, back, bouts, lane, job, faults>>

(* Mutant: the claim is fenced by whoever coordinates, without the cleanup lease. *)
LeasesNothing(b) ==
  /\ card[b].work = "lease"
  /\ Put(b, [card[b] EXCEPT !.work = IF card[b].held = 0 THEN "main" ELSE "fence"])
  /\ UNCHANGED <<slot, leader, main, back, bouts, lane, job, faults>>

\* The cleanup lease is kept, moved to its last phase, or claimed again.
Leases(b) ==
  LET next == IF card[b].held = 0 THEN "main" ELSE "fence"
      has == card[b].clean = "round5_cleanup" \/ Retained(b, TRUE) = "round5_cleanup" IN
  /\ card[b].work = "lease"
  /\ IF card[b].clean = "round5_cleanup" THEN UNCHANGED back ELSE Retain(b, TRUE)
  /\ Put(b, IF has THEN [card[b] EXCEPT !.clean = "round5_cleanup", !.work = next]
            ELSE Pending([card[b] EXCEPT !.clean = "none"]))
  /\ UNCHANGED <<slot, leader, main, bouts, lane, job, faults>>

(* Mutant: with the slot fenced the rings are released, cleaned or not. *)
FencesOnly(b) ==
  /\ card[b].work = "fence" /\ CanFence(b, card[b].held)
  /\ slot' = Cleaning /\ FencedBy(b, [card[b] EXCEPT !.work = "main"])
  /\ UNCHANGED <<leader, main, back, bouts, lane, job, faults>>

Fences(b) ==
  /\ card[b].work = "fence"
  /\ \/ /\ CanFence(b, card[b].held)
        /\ slot' = Cleaning /\ FencedBy(b, [card[b] EXCEPT !.work = "converge"])
        /\ UNCHANGED faults
     \/ /\ ~CanFence(b, card[b].held)
        /\ Put(b, Pending(card[b])) /\ UNCHANGED <<slot, faults>>
     \/ /\ CanFence(b, card[b].held) /\ Fault
        /\ Put(b, Pending(card[b])) /\ UNCHANGED slot
  /\ UNCHANGED <<leader, main, back, bouts, lane, job>>

\* The worker waits for the coordinator's one convergence of the claim.
Converges(b) ==
  /\ card[b].work = "converge"
  /\ \/ /\ slot.claim # card[b].held /\ slot.state = "warming"
        /\ Put(b, [card[b] EXCEPT !.held = 0, !.work = "main"]) /\ UNCHANGED faults
     \/ /\ slot.claim # card[b].held /\ slot.state # "warming"
        /\ Put(b, Pending([card[b] EXCEPT !.held = slot.claim])) /\ UNCHANGED faults
     \/ /\ slot.claim = card[b].held /\ leader # card[b].home
        /\ Put(b, Pending(card[b])) /\ UNCHANGED faults
     \/ /\ slot.claim = card[b].held /\ leader = card[b].home
        /\ Fault /\ Put(b, Pending(card[b]))
  /\ UNCHANGED <<slot, leader, main, back, bouts, lane, job>>

\* The ring is released first, by its exact fence: the row of another is given up,
\* for the heartbeat that a failed release starts again finds it lost ...
ReleasesMain(b) ==
  LET free == card[b].ring = "none" \/ OwnsMain(b) \/ main.bout = 0 IN
  /\ card[b].work = "main"
  /\ main' = IF card[b].ring # "none" /\ OwnsMain(b) THEN Gone ELSE main
  /\ Put(b, IF free THEN [card[b] EXCEPT !.ring = "none", !.work = "back"]
            ELSE Pending([card[b] EXCEPT !.ring = "none", !.lost = TRUE]))
  /\ UNCHANGED <<slot, leader, back, bouts, lane, job, faults>>

\* ... and the cleanup ring after it: nothing is owed any more.
ReleasesBack(b) ==
  LET free == card[b].clean = "none" \/ OwnsBack(b) \/ back.bout = 0 IN
  /\ card[b].work = "back"
  /\ back' = IF card[b].clean # "none" /\ OwnsBack(b) THEN Gone ELSE back
  /\ Put(b, IF free THEN [card[b] EXCEPT !.clean = "none", !.owed = FALSE, !.work = "none",
                                              !.loop = FALSE]
            ELSE Pending(card[b]))
  /\ UNCHANGED <<slot, leader, main, bouts, lane, job, faults>>

\* The owner's Retry Cleanup wakes the loop; it reconciles nothing itself.
RetryCleanup(b) ==
  /\ card[b].owed /\ card[b].work = "none" /\ card[b].run = "none"
  /\ card[b].clean = "round5_cleanup" \/ Retained(b, TRUE) # "none"
  /\ IF card[b].clean = "round5_cleanup" THEN UNCHANGED back ELSE Retain(b, TRUE)
  /\ Put(b, [card[b] EXCEPT !.clean = "round5_cleanup", !.loop = TRUE])
  /\ UNCHANGED <<slot, leader, main, bouts, lane, job, faults>>

-----------------------------------------------------------------------------
(* Lost leases, and rows that run out.                                     *)

\* What a handler leaves of a bout that has no outcome yet.
Stopped(r) == [r EXCEPT !.open = FALSE, !.failing = TRUE,
                        !.run = IF @ = "none" THEN "none" ELSE "stopping"]

LosesMain(b) ==
  LET r == [card[b] EXCEPT !.ring = "none", !.lost = TRUE] IN
  /\ MainRenewed(b) /\ Unlocked(b)
  /\ \/ ~OwnsMain(b) /\ UNCHANGED faults
     \/ OwnsMain(b) /\ Fault
  /\ Put(b, IF card[b].sealed \/ card[b].state \in {"VERIFIED", "TOWELLED"} THEN r
            ELSE Stopped(r))
  /\ UNCHANGED <<slot, leader, main, back, bouts, lane, job>>

\* With the bout over and no work of it left, its ring has no one else to release it.
LosesBack(b) ==
  LET r == [card[b] EXCEPT !.clean = "none"]
      over == card[b].sealed \/ card[b].state \in Terminal IN
  /\ BackRenewed(b) /\ Unlocked(b)
  /\ \/ ~OwnsBack(b) /\ UNCHANGED faults
     \/ OwnsBack(b) /\ Fault
  /\ IF over /\ ~Busy(b)
     THEN /\ main' = IF card[b].ring # "none" /\ OwnsMain(b) THEN Gone ELSE main
          /\ Put(b, [r EXCEPT !.ring = "none"])
     ELSE Put(b, IF over THEN r ELSE Stopped(r)) /\ UNCHANGED main
  /\ UNCHANGED <<slot, leader, back, bouts, lane, job>>

\* The cancelled run has ended; a setup that was cancelled leaves its bursts behind.
RunStops(b) ==
  LET setup == \E l \in Lanes : lane[b][l] = "setup" IN
  /\ card[b].run = "stopping"
  /\ lane' = [lane EXCEPT ![b] = [l \in Lanes |->
       IF lane[b][l] = "setup" \/ (~setup /\ lane[b][l] = "burst") THEN "idle"
       ELSE lane[b][l]]]
  /\ Put(b, [card[b] EXCEPT !.run = "none"])
  /\ UNCHANGED <<slot, leader, main, back, bouts, job, faults>>

\* A row nobody renews runs out ...
MainUnrenewed == main.bout # 0 /\ ~(MainRenewed(main.bout) /\ OwnsMain(main.bout))
BackUnrenewed == back.bout # 0 /\ ~(BackRenewed(back.bout) /\ OwnsBack(back.bout))

MainEnds ==
  /\ MainUnrenewed /\ main' = Gone
  /\ UNCHANGED <<slot, leader, back, bouts, card, lane, job, faults>>

BackEnds ==
  /\ BackUnrenewed /\ back' = Gone
  /\ UNCHANGED <<slot, leader, main, bouts, card, lane, job, faults>>

\* ... and so do the rows of a process that was suspended for as long as it took
\* another to take the slot.
Suspended(b) == card[b].home \notin {leader, None} /\ leader # None

Outlived(b) ==
  /\ Suspended(b) /\ b \in {main.bout, back.bout}
  /\ main' = IF main.bout = b THEN Gone ELSE main
  /\ back' = IF back.bout = b THEN Gone ELSE back
  /\ UNCHANGED <<slot, leader, bouts, card, lane, job, faults>>

-----------------------------------------------------------------------------
(* The coordinator of the slot, and the death of a process.                *)

\* The provider settles the jobs of the claim that is being cleaned ...
Settles ==
  /\ leader # None /\ slot.state = "cleaning"
  /\ \E l \in Lanes : job[slot.claim][l] \in {"staged", "released"}
  /\ job' = [job EXCEPT ![slot.claim] = [l \in Lanes |->
       IF job[slot.claim][l] = "none" THEN "none" ELSE "settled"]]
  /\ UNCHANGED <<slot, leader, main, back, bouts, card, lane, faults>>

\* ... and the slot moves on to the next generation, which warms.
Advances ==
  /\ leader # None /\ slot.state = "cleaning"
  /\ \A l \in Lanes : job[slot.claim][l] \in {"none", "settled"}
  /\ slot' = [state |-> "warming", claim |-> 0]
  /\ UNCHANGED <<leader, main, back, bouts, card, lane, job, faults>>

\* A runner that still holds a job is no clean baseline to warm from.
Rewarms ==
  /\ leader # None /\ slot.state = "warming"
  /\ \A b \in Bouts, l \in Lanes : job[b][l] \notin {"staged", "released"}
  /\ slot' = [slot EXCEPT !.state = "ready"]
  /\ UNCHANGED <<leader, main, back, bouts, card, lane, job, faults>>

\* A coordinator cleans a claim it took over.
Inherits ==
  /\ leader # None /\ slot.state \in {"claimed", "running"}
  /\ card[slot.claim].home # leader
  /\ slot' = Cleaning
  /\ UNCHANGED <<leader, main, back, bouts, card, lane, job, faults>>

TakesOver(p) ==
  /\ leader # p
  /\ IF leader = None THEN UNCHANGED faults ELSE Fault
  /\ leader' = p
  /\ card' = [b \in Bouts |-> [card[b] EXCEPT !.passed = @ \/ card[b].home \notin {p, None}]]
  /\ UNCHANGED <<slot, main, back, bouts, lane, job>>

\* A replica dies with the records and tasks it had.
Crash(p) ==
  /\ Fault
  /\ leader' = IF leader = p THEN None ELSE leader
  /\ card' = [b \in Bouts |-> IF card[b].home = p THEN Draft ELSE card[b]]
  /\ lane' = [b \in Bouts |-> IF card[b].home = p THEN [l \in Lanes |-> "idle"]
                              ELSE lane[b]]
  /\ UNCHANGED <<slot, main, back, bouts, job>>

-----------------------------------------------------------------------------
Arm(b) == ArmStages(b) \/ ArmDone(b) \/ ArmLost(b) \/ ArmFails(b)
Run(b) == SetupEnds(b) \/ BurstEnds(b) \/ Commits(b) \/ CommitRefused(b)
          \/ ReadsBack(b) \/ PublishFailure(b) \/ RunStops(b)
Handoff(b) == HandoffCancels(b) \/ HandoffFences(b) \/ LateStops(b)
Worker(b) == LoopRuns(b) \/ Looks(b) \/ Leases(b) \/ Fences(b) \/ Converges(b)
             \/ ReleasesMain(b) \/ ReleasesBack(b)
Coordinator == Settles \/ Advances \/ Inherits

Next ==
  \/ \E p \in Process : Claim(p) \/ TakesOver(p) \/ Crash(p)
  \/ \E b \in 1..bouts :
       \/ Arm(b) \/ Abandon(b) \/ Bell(b) \/ BellRefused(b) \/ BellLapses(b)
       \/ Stages(b) \/ CommitBreaks(b) \/ Towel(b)
       \/ \E l \in Lanes : Dispatches(b, l) \/ LaneProves(b, l) \/ LaneMisses(b, l)
                           \/ LaneRaises(b, l)
       \/ Run(b) \/ Handoff(b) \/ HandoffGivesUp(b) \/ Worker(b) \/ RetryCleanup(b)
       \/ LosesMain(b) \/ LosesBack(b) \/ Outlived(b)
  \/ MainEnds \/ BackEnds \/ Coordinator \/ Rewarms

Spec == Init /\ [][Next]_vars

\* The tasks of a live process run on, each heartbeat sees a row that is not its own,
\* a row nobody renews runs out, and a slot without a coordinator finds one.
RowLost(b) == (~OwnsMain(b) /\ LosesMain(b)) \/ (~OwnsBack(b) /\ LosesBack(b))
FairSpec ==
  /\ Spec
  /\ \A b \in Bouts : /\ WF_vars(Arm(b) \/ Abandon(b) \/ Run(b))
                      /\ WF_vars(Handoff(b) \/ Worker(b)) /\ WF_vars(RowLost(b))
  /\ WF_vars(Coordinator)
  /\ WF_vars(MainEnds) /\ WF_vars(BackEnds)
  /\ WF_vars(leader = None /\ \E p \in Process : TakesOver(p))

-----------------------------------------------------------------------------
(* A verdict is published as VERIFIED only while both rings' rows are the   *)
(* bout's, moved on from the fence that was weighed, and both lanes proved  *)
(* (_finish_connection_spike).                                              *)
VerdictIsProved ==
  [][\A b \in Bouts :
       card'[b].sealed /\ ~card[b].sealed /\ card'[b].state = "VERIFIED" =>
         /\ main = Row(b, "cooldown") /\ back = Row(b, "run_committed")
         /\ \A l \in Lanes : lane[b][l] = "valid"]_vars

(* A published outcome is absorbing: no towel, lost lease or late failure   *)
(* of the same bout rewrites it; it ends only with its process.             *)
OutcomeStands ==
  [][\A b \in Bouts : card[b].sealed =>
       \/ card'[b].sealed /\ card'[b].state = card[b].state
       \/ card'[b].home = None]_vars

(* Cleanup that is owed always has a worker, a loop or a handoff that will  *)
(* take it up (_mark_connection_spike_cleanup_pending).                     *)
OwedIsAttended == \A b \in Bouts : card[b].owed => Busy(b)

(* A bout with an outcome, or with cleanup owed, gives its ring back only   *)
(* once the slot no longer bears its claim, so that no bout starts on       *)
(* runners that are not clean (_retry_connection_spike_cleanup).            *)
RingOutlastsCleanup ==
  [][\A b \in Bouts :
       /\ card[b].sealed \/ card[b].owed
       /\ main.bout = b /\ main'.bout = 0
       /\ card[b].ring # "none" /\ card'[b].ring = "none"
       => slot.claim # b]_vars

(* Once the slot has moved on from a bout whose process coordinated it to   *)
(* the end, and which no other bout's cleanup fenced, no runner holds a job *)
(* of it, unless its local work could not be stopped in time                *)
(* (_begin_connection_spike_cleanup_handoff).                               *)
NoStrayJob ==
  \A b \in 1..bouts :
    slot.claim # b /\ card[b].home # None /\ ~card[b].passed /\ ~card[b].late =>
      \A l \in Lanes : job[b][l] \in {"none", "settled"}

(* A stale worker, of a process that coordinated the slot throughout,       *)
(* cleans no other bout that still holds its cleanup ring and has no        *)
(* outcome yet (_retry_connection_spike_cleanup, which takes the lease it   *)
(* remembers for one it has).                                               *)
OthersClaimStands ==
  [][\A b \in Bouts : ~card[b].passed /\ card[b].work = "fence" /\ card'[b].work = "converge" =>
       LET c == slot.claim IN
       c = b \/ card[c].state \in Terminal \/ ~OwnsBack(c)]_vars

(* A bout that has its outcome, or whose cleanup is owed, or whose process  *)
(* died, gives up the slot and both rings.                                  *)
EndedIsCleared ==
  \A b \in Bouts :
    (card[b].sealed \/ card[b].owed \/ (b <= bouts /\ card[b].home = None))
      ~> (slot.claim # b /\ main.bout # b /\ back.bout # b)

(* Not so: a verdict shows on the card only once it is published ("a local  *)
(* VERIFIED mutation could leak through GET", _finish_connection_spike).    *)
VerdictIsSealed ==
  \A b \in Bouts : card[b].state = "VERIFIED" /\ Unlocked(b) => card[b].sealed

(* Not so: a run that has ended leaves an outcome, or the handler of a lost *)
(* lease that will publish one.                                             *)
RunLeavesOutcome ==
  \A b \in Bouts : card[b].state = "RUNNING" => card[b].run # "none" \/ card[b].failing
=============================================================================
