----------------------------- MODULE IsolatedBout -----------------------------
(***************************************************************************)
(* A Round 2 bout from its claim of the ring to the removal of the         *)
(* isolated environments it made: the session's card (server/manager.py),  *)
(* the engine that runs the lanes (server/safe_change.py) and the          *)
(* adapters that create and delete a Lakebase branch, an Aurora clone with *)
(* its writer or an RDS restore (server/safe_change_live.py).              *)
(*                                                                         *)
(* Every bout of an installation gives its environments the same names.    *)
(* What keeps one bout's environments apart from the next one's is the     *)
(* ring, the stopping of work whose lease is lost, and the settling of     *)
(* calls nobody waits for any more.                                        *)
(*                                                                         *)
(* A call a coroutine waits for takes effect in the step that makes it; a  *)
(* call whose caller was cancelled while it ran on its thread is in        *)
(* "flight" until it lands.  The row of the ring is its holder only        *)
(* (BoutLease has the row, RingHolder the time in which a lost lease's     *)
(* tasks are cancelled before the row expires).                            *)
(***************************************************************************)
EXTENDS Naturals

CONSTANTS
  Branch, Cluster, Instance,  \* the lanes: Lakebase's and the challengers'
  Lanes,                      \* those of this bout
  MaxBout,                    \* bound on the claims of the ring for a new bout
  MaxFaults                   \* bound on lost leases, errors, timeouts, unanswered calls

Bouts == 1..MaxBout

ASSUME LanesAssumption == Lanes # {} /\ Lanes \subseteq {Branch, Cluster, Instance}
ASSUME BoundsAssumption == MaxBout \in Nat /\ MaxFaults \in Nat

VARIABLES
  ring,    \* the bout in the ring's row, 0 when the row is gone
  token,   \* the bout that claimed the ring last: the row's fencing token
  bouts,   \* how many bouts have claimed it
  card,    \* of each bout: what its session shows, the lease and the tasks it has
  lane,    \* of each bout and lane: what the engine is at
  env,     \* of each lane: the environment of its name, who asked for it, its writer
  flight,  \* calls on threads nobody waits for
  faults   \* how many there have been

vars == <<ring, token, bouts, card, lane, env, flight, faults>>

Life == {"absent", "creating", "ready", "deleting"}
Nothing == [life |-> "absent", maker |-> 0, writer |-> "absent"]
Calls == [bout : Bouts, lane : Lanes, call : {"create", "writer", "drop", "dropWriter", "teardown"}]
Draft == [state |-> "DRAFT", cooldown |-> "none", towel |-> "none",
          phase |-> "none", lost |-> FALSE, run |-> "none", clean |-> "none"]

Card ==
  [state : {"DRAFT", "CHECKING", "ARMED", "RUNNING", "VERIFIED", "FAILED", "TOWELLED"},
   cooldown : {"none", "WATCHING", "READY", "FAILED"},
   towel : {"none", "CLEANING", "READY", "FAILED"},
   phase : {"none", "checking", "armed", "run_committed", "towel_cleanup", "cooldown", "gone"},
   lost : BOOLEAN,
   run : {"none", "arm", "run", "stopping"},
   clean : {"none", "towel", "auto"}]
At == {"idle", "inspect", "clearing", "clean", "recheck", "set", "create", "again",
       "await", "awaitWriter", "verified", "timedOut", "failed", "cancelled",
       "settle", "gone", "stuck"}
Environment == [life : Life, maker : 0..MaxBout, writer : Life]

BoutTypeOK ==
  /\ ring \in 0..MaxBout /\ token \in 0..MaxBout /\ bouts \in 0..MaxBout
  /\ card \in [Bouts -> Card]
  /\ lane \in [Bouts -> [Lanes -> At]]
  /\ env \in [Lanes -> Environment]
  /\ flight \subseteq Calls
  /\ faults \in 0..MaxFaults

Init ==
  /\ ring = 0 /\ token = 0 /\ bouts = 0
  /\ card = [b \in Bouts |-> Draft]
  /\ lane = [b \in Bouts |-> [l \in Lanes |-> "idle"]]
  /\ env = [l \in Lanes |-> Nothing]
  /\ flight = {} /\ faults = 0

-----------------------------------------------------------------------------
All(b, at) == [lane EXCEPT ![b] = [l \in Lanes |-> at]]
To(b, l, at) == lane' = [lane EXCEPT ![b][l] = at]
Of(b) == {f \in flight : f.bout = b}
LanesIn(b, ats) == \A l \in Lanes : lane[b][l] \in ats
Slip == faults < MaxFaults /\ faults' = faults + 1

rest == <<token, bouts>>

(* Tasks that can act on what the ring fences: _ring_work.                  *)
RingWork(b) == card[b].run # "none" \/ card[b].clean # "none"

(* Mutant: a claim does not wait for the work of a lost lease.              *)
UnstoppedUnheeded == FALSE

(* _unstopped_ring_work: a claim here waits for work that lost the ring.    *)
Unstopped == \E b \in Bouts : card[b].lost /\ RingWork(b)

-----------------------------------------------------------------------------
(* The provider.                                                            *)

(* What is asked for comes up, and what is being deleted goes.              *)
EnvComesUp(l) ==
  /\ env[l].life = "creating"
  /\ env' = [env EXCEPT ![l].life = "ready"]
  /\ UNCHANGED <<ring, card, lane, flight, faults, rest>>
WriterComesUp(l) ==
  /\ env[l].writer = "creating"
  /\ env' = [env EXCEPT ![l].writer = "ready"]
  /\ UNCHANGED <<ring, card, lane, flight, faults, rest>>
EnvGoes(l) ==
  /\ env[l].life = "deleting"
  /\ env' = [env EXCEPT ![l] = Nothing]
  /\ UNCHANGED <<ring, card, lane, flight, faults, rest>>
WriterGoes(l) ==
  /\ env[l].writer = "deleting"
  /\ env' = [env EXCEPT ![l].writer = "absent"]
  /\ UNCHANGED <<ring, card, lane, flight, faults, rest>>

(* A create of a name in use is refused; a writer joins a clone that serves. *)
Asked(l, b) == IF env[l].life = "absent" THEN [Nothing EXCEPT !.life = "creating", !.maker = b]
               ELSE env[l]
WriterAsked(l) == IF env[l].life = "ready" /\ env[l].writer = "absent"
                  THEN [env[l] EXCEPT !.writer = "creating"] ELSE env[l]

(* A delete of what is still coming up does nothing: AWS refuses it, and    *)
(* Lakebase accepts it and never acts on it.  So is a clone's with a writer. *)
Dropped(l) == IF env[l].life = "ready" /\ env[l].writer = "absent"
              THEN [env[l] EXCEPT !.life = "deleting"] ELSE env[l]
WriterDropped(l) == IF env[l].writer = "ready"
                    THEN [env[l] EXCEPT !.writer = "deleting"] ELSE env[l]

(* A call nobody waits for lands.  A cancelled lane's teardown deletes the  *)
(* writer first and then, whatever became of it, the clone.                 *)
Lands(f) ==
  /\ f \in flight
  /\ env' = [env EXCEPT ![f.lane] =
       CASE f.call = "create" -> Asked(f.lane, f.bout)
         [] f.call = "writer" -> WriterAsked(f.lane)
         [] f.call = "drop" -> Dropped(f.lane)
         [] f.call \in {"dropWriter", "teardown"} -> WriterDropped(f.lane)]
  /\ flight' = (flight \ {f}) \cup
       (IF f.call = "teardown" THEN {[f EXCEPT !.call = "drop"]} ELSE {})
  /\ UNCHANGED <<ring, card, lane, faults, rest>>

-----------------------------------------------------------------------------
(* The claim and the arm.                                                   *)

(* start_arm, _claim_bout: a new bout takes the ring.  Its engine is new,   *)
(* so it knows of no call an earlier engine left in flight.                 *)
Claim(b) ==
  /\ b = bouts + 1 /\ b <= MaxBout
  /\ ring = 0 /\ ~Unstopped
  /\ ring' = b /\ token' = b /\ bouts' = b
  /\ card' = [card EXCEPT ![b].state = "CHECKING", ![b].phase = "checking", ![b].run = "arm"]
  /\ lane' = All(b, "inspect")
  /\ UNCHANGED <<env, flight, faults>>

(* The arm looks for the environment a previous bout left.                  *)
Inspect(b, l) ==
  /\ lane[b][l] = "inspect"
  /\ To(b, l, IF env[l].life = "absent" THEN "clean" ELSE "clearing")
  /\ UNCHANGED <<ring, card, env, flight, faults, rest>>

(* _reset_lane_bounded, delete_isolated, _delete_when_deletable: the writer *)
(* goes first, then its clone, each asked again until the provider accepts. *)
Delete(b, l) ==
  /\ lane[b][l] = "clearing"
  /\ env' = [env EXCEPT ![l] =
       IF env[l].writer = "absent" THEN Dropped(l) ELSE WriterDropped(l)]
  /\ env' # env
  /\ UNCHANGED <<ring, card, lane, flight, faults, rest>>

(* The lane is clear once the name is absent.                               *)
Cleared(b, l) ==
  /\ lane[b][l] = "clearing" /\ env[l].life = "absent"
  /\ To(b, l, IF card[b].clean = "none" THEN "clean" ELSE "gone")
  /\ UNCHANGED <<ring, card, env, flight, faults, rest>>

(* An inspection or a deletion that times out or is refused for good.       *)
ClearingSlips(b, l) ==
  /\ lane[b][l] \in {"inspect", "clearing"} /\ Slip
  /\ To(b, l, IF card[b].clean = "none" THEN "failed" ELSE "stuck")
  /\ UNCHANGED <<ring, card, env, flight, rest>>

(* Both lanes clean: the card is armed.                                     *)
Armed(b) ==
  /\ card[b].run = "arm" /\ LanesIn(b, {"clean"})
  /\ card' = [card EXCEPT ![b].state = "ARMED", ![b].phase = "armed", ![b].run = "none"]
  /\ UNCHANGED <<ring, lane, env, flight, faults, rest>>

(* _fail_arm, _fail before the bell: the ring goes back.                    *)
ArmFails(b) ==
  /\ card[b].run = "arm" /\ LanesIn(b, {"clean", "failed"}) /\ ~LanesIn(b, {"clean"})
  /\ card' = [card EXCEPT ![b].state = "FAILED", ![b].phase = "none", ![b].run = "none"]
  /\ ring' = 0
  /\ lane' = All(b, "idle")
  /\ UNCHANGED <<env, flight, faults, rest>>

(* _abandon_armed_bout: the window closed, or the owner cancelled the card. *)
ArmedGivesUp(b) ==
  /\ card[b].state = "ARMED"
  /\ card' = [card EXCEPT ![b].state = "FAILED", ![b].phase = "none"]
  /\ ring' = 0
  /\ lane' = All(b, "idle")
  /\ UNCHANGED <<env, flight, faults, rest>>

-----------------------------------------------------------------------------
(* The bell and the lanes.                                                  *)

(* start_run: the committed bell, then the engine's second look.            *)
Bell(b) ==
  /\ card[b].state = "ARMED" /\ ring = b
  /\ card' = [card EXCEPT ![b].state = "RUNNING", ![b].phase = "run_committed",
                          ![b].run = "run"]
  /\ lane' = All(b, "recheck")
  /\ UNCHANGED <<ring, env, flight, faults, rest>>

Recheck(b, l) ==
  /\ lane[b][l] = "recheck"
  /\ \/ env[l].life = "absent" /\ To(b, l, "set") /\ UNCHANGED faults
     \/ env[l].life # "absent" /\ To(b, l, "failed") /\ UNCHANGED faults
     \/ Slip /\ To(b, l, "failed")
  /\ UNCHANGED <<ring, card, env, flight, rest>>

(* The barrier: no lane starts before both are set.                         *)
Barrier(b) ==
  /\ card[b].run = "run" /\ LanesIn(b, {"set"})
  /\ lane' = All(b, "create")
  /\ UNCHANGED <<ring, card, env, flight, faults, rest>>

(* create_isolated: the provider is asked for the environment.              *)
Create(b, l) ==
  /\ lane[b][l] = "create"
  /\ env' = [env EXCEPT ![l] = Asked(l, b)]
  /\ To(b, l, IF env[l].life = "absent" THEN "await" ELSE "failed")
  /\ UNCHANGED <<ring, card, flight, faults, rest>>

(* create_lakebase_resource: Lakebase says it did not serve the request,    *)
(* which may have made the branch all the same ...                          *)
CreateUnserved(b, l) ==
  /\ lane[b][l] = "create" /\ l = Branch /\ Slip
  /\ env' \in {env, [env EXCEPT ![l] = Asked(l, b)]}
  /\ To(b, l, "again")
  /\ UNCHANGED <<ring, card, flight, rest>>
(* ... so a branch that is there is taken for the one that was asked for.   *)
CreateAgain(b, l) ==
  /\ lane[b][l] = "again"
  /\ env' = [env EXCEPT ![l] = Asked(l, b)]
  /\ To(b, l, "await")
  /\ UNCHANGED <<ring, card, flight, faults, rest>>

(* The environment serves: a clone gets its writer ...                      *)
Serves(b, l) ==
  /\ lane[b][l] = "await" /\ env[l].life = "ready" /\ l = Cluster
  /\ env' = [env EXCEPT ![l] = WriterAsked(l)]
  /\ To(b, l, "awaitWriter")
  /\ UNCHANGED <<ring, card, flight, faults, rest>>
(* ... and the migration, the transaction and the untouched source are      *)
(* proved on it: _execute_lane.                                             *)
Proves(b, l) ==
  /\ env[l].life = "ready"
  /\ \/ lane[b][l] = "await" /\ l # Cluster
     \/ lane[b][l] = "awaitWriter" /\ env[l].writer = "ready"
  /\ To(b, l, "verified")
  /\ UNCHANGED <<ring, card, env, flight, faults, rest>>

(* What was waited for went away: the lane fails.                           *)
Vanished(b, l) ==
  /\ lane[b][l] \in {"await", "awaitWriter"}
  /\ \/ env[l].life \in {"absent", "deleting"}
     \/ lane[b][l] = "awaitWriter" /\ env[l].writer \in {"absent", "deleting"}
  /\ To(b, l, "failed")
  /\ UNCHANGED <<ring, card, env, flight, faults, rest>>

(* The call a lane stopped at this point may leave on its thread.           *)
Underway(b, l) ==
  {[bout |-> b, lane |-> l, call |-> c] : c \in
     CASE lane[b][l] \in {"create", "again"} -> {"create"}
       [] lane[b][l] = "await" /\ l = Cluster /\ env[l].life = "ready" -> {"writer"}
       [] lane[b][l] = "clearing" /\ env[l].writer # "absent" -> {"dropWriter"}
       [] lane[b][l] = "clearing" /\ env[l].writer = "absent" /\ env[l].life # "absent" -> {"drop"}
       [] OTHER -> {}}

Started(b, l) == lane[b][l] \in {"create", "again", "await", "awaitWriter"}

(* The lane's own bound, or an error of its own.                            *)
LaneStops(b, l) ==
  /\ Started(b, l) /\ Slip
  /\ \E left \in SUBSET Underway(b, l) : flight' = flight \cup left
  /\ \E end \in {"timedOut", "failed"} : To(b, l, end)
  /\ UNCHANGED <<ring, card, env, rest>>

-----------------------------------------------------------------------------
(* The end of the run.                                                      *)

(* _fence_finished_bout_for_cleanup: the lease moves to the phase of the    *)
(* clean-up, which then starts; or it could not be shown to have moved, and *)
(* nothing renews it any more; or it is gone, as a heartbeat will find too. *)
Fence(b, state) ==
  \/ /\ ring = b
     /\ card' = [card EXCEPT ![b].state = state, ![b].run = "none", ![b].phase = "cooldown",
                             ![b].cooldown = "WATCHING", ![b].clean = "auto"]
     /\ lane' = All(b, "settle") /\ UNCHANGED <<ring, faults>>
  \/ /\ Slip
     /\ \E phase \in {"none", "gone"} :
          /\ card' = [card EXCEPT ![b].state = state, ![b].run = "none", ![b].phase = phase,
                                  ![b].cooldown = "FAILED"]
          /\ ring' = IF phase = "gone" THEN 0 ELSE ring
     /\ lane' = All(b, "idle")

GoneIsFound(b) ==
  /\ card[b].phase = "gone"
  /\ card' = [card EXCEPT ![b].phase = "none", ![b].lost = TRUE, ![b].state = "FAILED"]
  /\ UNCHANGED <<ring, lane, env, flight, faults, rest>>

(* The engine refused to start: _run_safe_change, _fail after the bell.     *)
NotArmed(b) ==
  /\ card[b].run = "run" /\ card[b].state = "RUNNING"
  /\ LanesIn(b, {"set", "failed"}) /\ ~LanesIn(b, {"set"})
  /\ Fence(b, "FAILED")
  /\ UNCHANGED <<env, flight, rest>>

Over(b) == card[b].run = "run" /\ LanesIn(b, {"verified", "timedOut", "failed"})

(* _finish_safe_change: both lanes verified, or one over the other's bound. *)
Wins(b) ==
  /\ \E l \in Lanes : lane[b][l] = "verified"
  /\ LanesIn(b, {"verified", "timedOut"})

(* Mutant: the finish does not look for a towel.                            *)
FinishOverTowel(b) ==
  /\ Over(b)
  /\ Fence(b, IF Wins(b) THEN "VERIFIED" ELSE "FAILED")
  /\ UNCHANGED <<env, flight, rest>>

Finish(b) ==
  /\ Over(b) /\ card[b].state = "RUNNING"
  /\ Fence(b, IF Wins(b) THEN "VERIFIED" ELSE "FAILED")
  /\ UNCHANGED <<env, flight, rest>>

(* A run that ends after the towel publishes nothing.                       *)
EndsTowelled(b) ==
  /\ card[b].state = "TOWELLED" /\ card[b].run = "run"
  /\ LanesIn(b, {"verified", "timedOut", "failed", "set"}) /\ ~LanesIn(b, {"set"})
  /\ card' = [card EXCEPT ![b].run = "none"]
  /\ UNCHANGED <<ring, lane, env, flight, faults, rest>>

(* The run task is cancelled.  A lane past the barrier may leave its call   *)
(* on the thread, and its teardown sends the deletes without waiting for    *)
(* them (abandon_on_cancel, abandon_isolated).                              *)
Cancelled(b, at) ==
  /\ \E left \in SUBSET UNION {Underway(b, l) : l \in Lanes} :
       flight' = flight \cup left \cup
         {[bout |-> b, lane |-> l, call |-> IF l = Cluster THEN "teardown" ELSE "drop"] :
            l \in {m \in Lanes : card[b].run = "run" /\ Started(b, m)}}
  /\ lane' = All(b, at)

RunStopped(b) ==
  /\ card[b].run = "stopping"
  /\ card' = [card EXCEPT ![b].run = "none"]
  /\ UNCHANGED <<ring, lane, env, flight, faults, rest>>

-----------------------------------------------------------------------------
(* The towel.                                                               *)

(* start_towel, _transition_bout_to_towel: first the lease moves, then the  *)
(* card; the run is stopped after.                                          *)
Towel(b) ==
  /\ card[b].state = "RUNNING" /\ card[b].phase = "run_committed" /\ ring = b
  /\ card' = [card EXCEPT ![b].state = "TOWELLED", ![b].phase = "towel_cleanup",
                          ![b].towel = "CLEANING", ![b].clean = "towel",
                          ![b].cooldown = "WATCHING"]
  /\ UNCHANGED <<ring, lane, env, flight, faults, rest>>

(* _settle_towel_once cancels the run and waits for it.                     *)
TowelCancels(b) ==
  /\ card[b].clean = "towel" /\ card[b].run = "run"
  /\ Cancelled(b, "cancelled")
  /\ card' = [card EXCEPT ![b].run = "stopping"]
  /\ UNCHANGED <<ring, env, faults, rest>>

Ended == {"set", "verified", "timedOut", "failed", "cancelled"}
TowelSettles(b) ==
  /\ card[b].clean = "towel" /\ card[b].run = "none" /\ LanesIn(b, Ended)
  /\ lane' = All(b, "settle")
  /\ UNCHANGED <<ring, card, env, flight, faults, rest>>

(* The towel's automatic retries ran out of their window.                   *)
TowelGivesUp(b) ==
  /\ card[b].clean = "towel" /\ LanesIn(b, {"gone", "stuck"}) /\ ~LanesIn(b, {"gone"})
  /\ card' = [card EXCEPT ![b].towel = "FAILED", ![b].cooldown = "FAILED", ![b].clean = "none"]
  /\ UNCHANGED <<ring, lane, env, flight, faults, rest>>

(* The operator's retry, with the lease of the towel still held.            *)
TowelRetry(b) ==
  /\ card[b].towel = "FAILED" /\ card[b].clean = "none" /\ card[b].phase = "towel_cleanup"
  /\ card' = [card EXCEPT ![b].towel = "CLEANING", ![b].clean = "towel",
                          ![b].cooldown = "WATCHING"]
  /\ lane' = All(b, "settle")
  /\ UNCHANGED <<ring, env, flight, faults, rest>>

-----------------------------------------------------------------------------
(* The clean-up: _auto_cleanup_owned_artifacts, _reset_safe_change, reset.  *)

(* Mutant: the reset inspects before the calls in flight have landed.       *)
SettleUnawaited(b) ==
  /\ card[b].clean # "none" /\ LanesIn(b, {"settle"})
  /\ lane' = All(b, "clearing")
  /\ UNCHANGED <<ring, card, env, flight, faults, rest>>

(* settle_pending_mutations: no lane is inspected before this engine's      *)
(* calls have landed.                                                       *)
Settle(b) ==
  /\ card[b].clean # "none" /\ LanesIn(b, {"settle"}) /\ Of(b) = {}
  /\ lane' = All(b, "clearing")
  /\ UNCHANGED <<ring, card, env, flight, faults, rest>>

SettleSlips(b) ==
  /\ card[b].clean # "none" /\ LanesIn(b, {"settle"}) /\ Slip
  /\ lane' = All(b, "stuck")
  /\ UNCHANGED <<ring, card, env, flight, rest>>

(* Mutant: a reset counts one lane's deletion for both.                     *)
GoneByOne(b) ==
  /\ card[b].clean # "none" /\ LanesIn(b, {"gone", "stuck"})
  /\ \E l \in Lanes : lane[b][l] = "gone"
  /\ card' = [card EXCEPT ![b].cooldown = "READY"]
  /\ lane' = All(b, "idle")
  /\ UNCHANGED <<ring, env, flight, faults, rest>>

(* Every lane confirmed deleted: what is left is to give the ring back.     *)
Gone(b) ==
  /\ card[b].clean # "none" /\ LanesIn(b, {"gone"})
  /\ card' = [card EXCEPT ![b].cooldown = "READY"]
  /\ lane' = All(b, "idle")
  /\ UNCHANGED <<ring, env, flight, faults, rest>>

(* Mutant: the row stays, renewed.                                          *)
ReleaseForgotten(b) ==
  /\ card[b].clean # "none" /\ LanesIn(b, {"idle"})
  /\ card' = [card EXCEPT ![b].clean = "none", ![b].towel = IF @ = "none" THEN @ ELSE "READY"]
  /\ UNCHANGED <<ring, lane, env, flight, faults, rest>>

Release(b) ==
  /\ card[b].clean # "none" /\ LanesIn(b, {"idle"})
  /\ card' = [card EXCEPT ![b].clean = "none", ![b].phase = "none", ![b].cooldown = "READY",
                          ![b].towel = IF @ = "none" THEN @ ELSE "READY"]
  /\ ring' = 0
  /\ UNCHANGED <<lane, env, flight, faults, rest>>

(* The release was not confirmed: a towel says so and waits for its owner,  *)
(* the automatic clean-up asks again.                                       *)
ReleaseSlips(b) ==
  /\ card[b].clean # "none" /\ LanesIn(b, {"idle"}) /\ Slip
  /\ card' = [card EXCEPT ![b].cooldown = IF card[b].clean = "auto" THEN "WATCHING" ELSE @,
                          ![b].towel = IF @ = "none" THEN @ ELSE "FAILED",
                          ![b].clean = IF @ = "towel" THEN "none" ELSE @]
  /\ UNCHANGED <<ring, lane, env, flight, rest>>

Retries(b) ==
  /\ card[b].clean # "none" /\ LanesIn(b, {"gone", "stuck"}) /\ ~LanesIn(b, {"gone"})
  /\ card' = [card EXCEPT ![b].cooldown = "WATCHING"]
  /\ lane' = All(b, "settle")
  /\ UNCHANGED <<ring, env, flight, faults, rest>>

(* Mutant: the re-do clock claims the ring after any bout.                  *)
StartCooldownOverBout(b) ==
  /\ card[b].state \in {"VERIFIED", "FAILED"} /\ card[b].cooldown \in {"none", "FAILED"}
  /\ card[b].clean = "none" /\ ring = 0 /\ b <= bouts /\ ~Unstopped
  /\ ring' = b /\ token' = b
  /\ card' = [card EXCEPT ![b].phase = "cooldown", ![b].cooldown = "WATCHING",
                          ![b].clean = "auto", ![b].lost = FALSE]
  /\ lane' = All(b, "settle")
  /\ UNCHANGED <<bouts, env, flight, faults>>

(* start_cooldown: the owner claims the ring again to clean up, refused     *)
(* when another bout has claimed it since (expected_previous_token).        *)
StartCooldown(b) ==
  /\ card[b].state \in {"VERIFIED", "FAILED"} /\ card[b].cooldown \in {"none", "FAILED"}
  /\ card[b].clean = "none" /\ ring = 0 /\ token = b /\ ~Unstopped
  /\ ring' = b
  /\ card' = [card EXCEPT ![b].phase = "cooldown", ![b].cooldown = "WATCHING",
                          ![b].clean = "auto", ![b].lost = FALSE]
  /\ lane' = All(b, "settle")
  /\ UNCHANGED <<token, bouts, env, flight, faults>>

-----------------------------------------------------------------------------
(* The lease is lost: _handle_lost_lease.  Everything the card runs is      *)
(* cancelled; a verdict still in its clean-up becomes a failure, and a      *)
(* towel's result stays.                                                    *)
Loses(b) ==
  /\ card[b].phase \notin {"none", "armed", "gone"} /\ Slip
  /\ card' = [card EXCEPT ![b].phase = "none", ![b].lost = TRUE, ![b].clean = "none",
       ![b].run = IF RingWork(b) THEN "stopping" ELSE "none",
       ![b].state = IF card[b].towel # "none" THEN @ ELSE "FAILED",
       ![b].towel = IF @ # "none" THEN "FAILED" ELSE @]
  /\ Cancelled(b, "idle")
  /\ UNCHANGED <<ring, token, bouts, env>>

(* A row nobody renews runs out.                                            *)
RowEnds(b) ==
  /\ ring = b /\ card[b].phase = "none"
  /\ ring' = 0
  /\ UNCHANGED <<card, lane, env, flight, faults, rest>>

-----------------------------------------------------------------------------
Provider(l) == EnvComesUp(l) \/ WriterComesUp(l) \/ EnvGoes(l) \/ WriterGoes(l)

LaneStep(b, l) ==
  \/ Inspect(b, l) \/ Delete(b, l) \/ Cleared(b, l)
  \/ Recheck(b, l) \/ Create(b, l) \/ CreateAgain(b, l)
  \/ Serves(b, l) \/ Proves(b, l) \/ Vanished(b, l)

CardStep(b) ==
  \/ Armed(b) \/ ArmFails(b) \/ Barrier(b) \/ NotArmed(b) \/ Finish(b) \/ EndsTowelled(b)
  \/ TowelCancels(b) \/ RunStopped(b) \/ TowelSettles(b)
  \/ Settle(b) \/ Gone(b) \/ Release(b) \/ Retries(b) \/ GoneIsFound(b)

Faults(b) ==
  \/ Loses(b) \/ SettleSlips(b) \/ ReleaseSlips(b) \/ TowelGivesUp(b)
  \/ \E l \in Lanes : ClearingSlips(b, l) \/ CreateUnserved(b, l) \/ LaneStops(b, l)

Operator(b) ==
  \/ Claim(b) \/ ArmedGivesUp(b) \/ Bell(b) \/ Towel(b) \/ TowelRetry(b) \/ StartCooldown(b)

Next ==
  \/ \E l \in Lanes : Provider(l)
  \/ \E f \in flight : Lands(f)
  \/ \E b \in Bouts :
       \/ CardStep(b) \/ Faults(b) \/ Operator(b) \/ RowEnds(b)
       \/ \E l \in Lanes : LaneStep(b, l)

Spec == Init /\ [][Next]_vars

-----------------------------------------------------------------------------
(* A bout whose clean-up is confirmed leaves nothing of its own: neither an *)
(* environment nor a call on its way that would make one (_reset_recovery,  *)
(* "absence is only provable once nothing is in flight").                   *)
ReadyLeavesNothing ==
  \A b \in Bouts : card[b].cooldown = "READY" =>
    /\ \A l \in Lanes : env[l].maker # b
    /\ \A f \in Of(b) : f.call \notin {"create", "writer"}

(* No task of a bout can act once a later bout has claimed the ring, whose  *)
(* environments have the same names, and its lanes, which create and delete *)
(* by name, are at work only while the row is the bout's (_claim_bout, "the *)
(* second owner this exists to prevent").                                   *)
WorkIsFenced ==
  \A b \in Bouts :
    /\ RingWork(b) => bouts = b
    /\ \A l \in Lanes : lane[b][l] # "idle" => ring = b

(* What a lane is credited with is its own bout's environment, not one that *)
(* an earlier bout's late call made.                                        *)
CreditIsOwn ==
  [][\A b \in Bouts, l \in Lanes :
       lane'[b][l] = "verified" /\ lane[b][l] # "verified" => env[l].maker = b]_vars

(* A result once published stands: a towel takes no verdict back and no     *)
(* verdict a towel, and only a lease lost before the ring is given back     *)
(* fails a verdict.                                                         *)
ResultStands ==
  [][\A b \in Bouts :
       /\ card[b].state = "TOWELLED" => card'[b].state = "TOWELLED"
       /\ card[b].state = "VERIFIED" =>
            \/ card'[b].state = "VERIFIED"
            \/ card'[b].state = "FAILED" /\ card'[b].lost /\ card[b].phase # "none"]_vars

(* A bout that rang its bell gives the ring up, unless its towel waits for  *)
(* the operator.                                                            *)
RingComesBack ==
  (\E b \in Bouts : ring = b /\ card[b].state = "RUNNING")
    ~> ring = 0 \/ \E b \in Bouts : card[b].towel = "FAILED"

Fairness ==
  /\ \A l \in Lanes : WF_vars(Provider(l))
  /\ WF_vars(\E f \in flight : Lands(f))
  /\ \A b \in Bouts :
       /\ WF_vars(CardStep(b)) /\ WF_vars(RowEnds(b))
       /\ \A l \in Lanes : WF_vars(LaneStep(b, l))
FairSpec == Spec /\ Fairness

(* Not so: an earlier bout's call that lands late deletes what a later one  *)
(* made ("The delete request may yet land", abandon_on_cancel).             *)
NoStrayDelete ==
  [][\A f \in flight : f \notin flight' /\ f.call \in {"drop", "dropWriter", "teardown"} =>
       (env'[f.lane] # env[f.lane] => env[f.lane].maker <= f.bout)]_vars
=============================================================================
