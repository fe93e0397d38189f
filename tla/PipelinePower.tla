---------------------------- MODULE PipelinePower ----------------------------
(***************************************************************************)
(* Round 4's pipeline, which bills while it runs: who starts and stops it, *)
(* the append-only power history that says which start still owes a stop,  *)
(* and the recovery that repays it after a restart                         *)
(* (server/pipeline_power.py, round4_race_live.py, round4_race.py,         *)
(* round4_stop_recovery.py, and the manager's part in Round 4).            *)
(*                                                                         *)
(* A start is named by its pair key, here only its generation: keys are    *)
(* nanosecond clock readings, so two mints never collide, but the wall     *)
(* clock may step backwards between processes.  The history is the set of  *)
(* its rows: nothing in it depends on the order two different starts'      *)
(* rows arrived in, but which reservation came last.  A row carries no     *)
(* clock; a start's stop falls due in an action of its own.  The ring is   *)
(* the fence of RingHolder, taken and left in one step.                    *)
(*                                                                         *)
(* A process holds several cards of the round at once, for a finished bout *)
(* gives its ring back before its settlement is scheduled, and a Prepare   *)
(* waits only for the settlement that was scheduled last.                  *)
(***************************************************************************)
EXTENDS Naturals

CONSTANTS
  Replica,         \* serving processes, each restarted when it is down
  Slot,            \* the cards a process holds at once
  None,            \* nobody holds the ring; no settlement to wait for
  MaxGeneration,   \* bound: pair keys minted
  MaxExits,        \* bound: crashes and shutdowns
  MaxFaults        \* bound: calls that fail or answers that are lost

ASSUME BoundAssumption == MaxGeneration \in Nat

Start == 1..MaxGeneration

Row == [intent: {"resuming", "stop_owed", "stopped"}, start: Start]

(* One bout of a process; a slot is used again when its card is done.      *)
Card == [of: Replica, slot: Slot]

(* A bout, or the recovery of a process.                                   *)
Holder == [of: Replica, slot: Slot \cup {"recovery"}]

ASSUME NoneAssumption == None \notin Holder \cup Slot /\ "recovery" \notin Slot

(* "ended": the ring is given back, the settlement not yet scheduled.      *)
Stage ==
  {"idle", "waiting", "preparing", "armed", "ringing", "racing", "ended", "settling", "carrying"}

Lane ==
  [stage: Stage,
   after: {"armed", "idle"},     \* where the settle in progress returns to
   pair: Start \cup {0},         \* _power_pair_key
   reserved: Start \cup {0},     \* _reserved, read before the bell
   minting: BOOLEAN,             \* a mint has read its floor, in `floor`
   floor: Start \cup {0},
   lost: BOOLEAN,                \* ring_lease_lost
   heeds: Slot \cup {None},      \* the settlement its Prepare waits for
   past: SUBSET Slot]            \* those its Prepare went past

Process ==
  [life: {"up", "down", "closed"},
   prior: Slot \cup {None},      \* _round4_settlement, while it runs
   last: Start \cup {0}]         \* _last_power_start_generation

Step == {"off", "waiting", "claimed", "reading", "read", "deciding", "appending", "given_up"}

(* Inside an attempt, under the ring.                                      *)
Fenced == {"claimed", "reading", "read", "deciding", "appending"}

Recovery ==
  [step: Step,
   debt: Start \cup {0},                        \* its _record
   signals: {"healthy", "stopped", "failed"}]

VARIABLES
  running,    \* the key of the start whose update runs, 0 when parked
  failed,     \* whether the last update ended by itself, in failure
  rows,       \* the committed power history, but its reservations
  newest,     \* the newest reservation by event_id
  pending,    \* pending[r]: the rows r is appending in the background
  due,        \* the starts whose stop has fallen due
  ring,       \* Round 4's ring
  lane,       \* lane[c]: Lakebase's lane in the bout of card c
  proc,       \* proc[r]: what the cards of process r share
  rec,        \* rec[r]: the recovery r started when it came up
  overlap,    \* whether two lanes of one process were ever at work at once
  exits, faults

cloud == <<running, failed>>
history == <<rows, newest>>
vars ==
  <<running, failed, rows, newest, pending, due, ring, lane, proc, rec, overlap, exits, faults>>

-----------------------------------------------------------------------------
(* Which start still owes a stop: _unmatched_owed_stop.                    *)

Settled(h) == {r.start : r \in {x \in h : x.intent = "stopped"}}

(* Mutant: a park settles only the start it is filed under.                *)
OwingUnlessOwnPark(h) ==
  {n \in Start : (\E r \in h : r.start = n /\ r.intent # "stopped") /\ n \notin Settled(h)}

(* Mutant: a resuming row owes nothing without its stop_owed.              *)
OwingOnPromise(h) ==
  {n \in Start : (\E r \in h : r.start = n /\ r.intent = "stop_owed")
                    /\ \A p \in Settled(h) : p < n}

(* A start owes a stop once any row of it is on record, until it or a      *)
(* later one is recorded stopped.                                          *)
Owing(h) ==
  {n \in Start : (\E r \in h : r.start = n /\ r.intent # "stopped")
                    /\ \A p \in Settled(h) : p < n}

(* n is the debt: the highest start that owes, or 0 when none does.        *)
IsDebt(h, n) ==
  IF n = 0 THEN Owing(h) = {} ELSE n \in Owing(h) /\ \A m \in Owing(h) : m <= n

-----------------------------------------------------------------------------
PowerTypeOK ==
  /\ running \in Start \cup {0} /\ failed \in BOOLEAN
  /\ rows \subseteq Row /\ newest \in Start \cup {0}
  /\ pending \in [Replica -> SUBSET Row]
  /\ due \subseteq Start
  /\ ring \in Holder \cup {None}
  /\ lane \in [Card -> Lane]
  /\ proc \in [Replica -> Process]
  /\ rec \in [Replica -> Recovery]
  /\ \A r \in Replica : rec[r].step # "off" => rec[r].debt # 0
  /\ overlap \in BOOLEAN
  /\ exits \in Nat /\ faults \in Nat

NoLane ==
  [stage |-> "idle", after |-> "idle", pair |-> 0, reserved |-> 0, minting |-> FALSE,
   floor |-> 0, lost |-> FALSE, heeds |-> None, past |-> {}]

NewProcess == [life |-> "up", prior |-> None, last |-> 0]

NoRecovery == [step |-> "off", debt |-> 0, signals |-> "stopped"]

Init ==
  /\ running = 0 /\ failed = FALSE
  /\ rows = {} /\ newest = 0
  /\ pending = [r \in Replica |-> {}]
  /\ due = {}
  /\ ring = None
  /\ lane = [c \in Card |-> NoLane]
  /\ proc = [r \in Replica |-> NewProcess]
  /\ rec = [r \in Replica |-> NoRecovery]
  /\ overlap = FALSE
  /\ exits = 0 /\ faults = 0

Up(r) == proc[r].life = "up"
At(c, stages) == lane[c].stage \in stages
Recoverer(r) == [of |-> r, slot |-> "recovery"]
Cards(r) == {c \in Card : c.of = r}
Others(c) == Cards(c.of) \ {c}

(* The ring a bout or a recovery leaves, if it still has it.               *)
Without(h) == IF ring = h THEN None ELSE ring

Becomes(c, l) == lane' = [lane EXCEPT ![c] = l]
RecBecomes(r, x) == rec' = [rec EXCEPT ![r] = x]
Goto(c, to) == Becomes(c, [lane[c] EXCEPT !.stage = to])

(* A settle that is over is remembered no more.                            *)
Forgets(c) == proc' = [proc EXCEPT ![c.of].prior = IF @ = c.slot THEN None ELSE @]

Fault == faults < MaxFaults /\ faults' = faults + 1

-----------------------------------------------------------------------------
(* Minting a pair key: mint_power_pair_key reads the newest reservation,   *)
(* then appends its own, and only then is the key used.                    *)

Above(c, n) == n > lane[c].floor /\ n > proc[c.of].last

(* Clocks count nanoseconds: no two mints agree.                           *)
Unused(n) ==
  /\ newest # n /\ running # n
  /\ \A x \in rows \cup UNION {pending[r] : r \in Replica} : x.start # n
  /\ \A r \in Replica : n # proc[r].last
  /\ \A c \in Card : n \notin {lane[c].reserved, lane[c].pair}

(* Keys are minted for a start (before_bell), or for a park whose lane     *)
(* started nothing.                                                        *)
ForStart(c) == At(c, {"ringing", "carrying"}) /\ lane[c].reserved = 0
ForPark(c) == At(c, {"preparing", "settling"}) /\ running # 0 /\ lane[c].pair = 0

ReadFloor(c) ==
  /\ ForStart(c) \/ ForPark(c)
  /\ ~lane[c].minting
  /\ Becomes(c, [lane[c] EXCEPT !.minting = TRUE, !.floor = newest])
  /\ UNCHANGED <<cloud, history, pending, due, ring, proc, rec, overlap, exits, faults>>

Reserve(c) ==
  /\ lane[c].minting
  /\ \E n \in Start :
       /\ Above(c, n) /\ Unused(n)
       /\ newest' = n
       /\ proc' = [proc EXCEPT ![c.of].last = n]
       /\ Becomes(c, [lane[c] EXCEPT !.minting = FALSE, !.floor = 0,
            !.reserved = IF ForStart(c) THEN n ELSE @,
            !.pair = IF ForStart(c) THEN @ ELSE n])
  /\ UNCHANGED <<cloud, rows, pending, due, ring, rec, overlap, exits, faults>>

-----------------------------------------------------------------------------
(* A bout, as Lakebase's lane sees it.                                     *)

Settling(c) == At(c, {"settling", "carrying"})

(* Its settlement is ahead or under way.                                   *)
AtWork(c) == At(c, {"ended"}) \/ Settling(c)

Overlaps(c) == overlap' = (overlap \/ \E d \in Others(c) : AtWork(d))

(* start_arm: the ring, claimed beside no work of this process that lost   *)
(* it; a new engine and lane; and the settlement remembered by now.        *)
Claim(c) ==
  /\ Up(c.of) /\ At(c, {"idle"}) /\ ring = None
  /\ \A d \in Cards(c.of) : ~lane[d].lost
  /\ ring' = c
  /\ Becomes(c, [NoLane EXCEPT !.stage = "waiting", !.heeds = proc[c.of].prior])
  /\ UNCHANGED <<cloud, history, pending, due, proc, rec, overlap, exits, faults>>

(* Mutant: Prepare does not wait for the settlement it found.              *)
PriorUnheeded(c) == TRUE

(* _await_prior_round4_settlement: the one settlement it found is over.    *)
PriorIsDone(c) == \A d \in Others(c) : d.slot = lane[c].heeds => ~Settling(d)

(* The settlements it did not find: not scheduled yet, or not the one      *)
(* remembered.                                                             *)
GoesPast(c) ==
  {d.slot : d \in {e \in Others(c) :
                      At(e, {"ended"}) \/ (Settling(e) /\ e.slot # lane[c].heeds)}}

Prepare(c) ==
  /\ At(c, {"waiting"}) /\ PriorIsDone(c)
  /\ Becomes(c, [lane[c] EXCEPT !.stage = "preparing", !.heeds = None,
                                !.past = GoesPast(c)])
  /\ Overlaps(c)
  /\ UNCHANGED <<cloud, history, pending, due, ring, proc, rec, exits, faults>>

(* _park: stop what runs, and append the stop in the background.           *)
Park(c) ==
  /\ At(c, {"preparing", "settling"})
  /\ running # 0 /\ lane[c].pair # 0
  /\ running' = 0 /\ failed' = FALSE
  /\ pending' = [pending EXCEPT ![c.of] = @ \cup {[intent |-> "stopped", start |-> lane[c].pair]}]
  /\ UNCHANGED <<history, due, ring, lane, proc, rec, overlap, exits, faults>>

(* The stop took effect, but no record of it is kept: its key could not be *)
(* minted, or its answer was lost.  Prepare fails; a settle retries.       *)
ParkUnrecorded(c) ==
  /\ At(c, {"preparing", "settling"}) /\ running # 0 /\ Fault
  /\ running' = 0 /\ failed' = FALSE
  /\ IF At(c, {"preparing"})
       THEN Becomes(c, NoLane) /\ ring' = Without(c)
       ELSE Becomes(c, [lane[c] EXCEPT !.minting = FALSE]) /\ UNCHANGED ring
  /\ UNCHANGED <<history, pending, due, proc, rec, overlap, exits>>

(* Parked, and the destination at its baseline.                            *)
Armed(c) ==
  /\ At(c, {"preparing"}) /\ running = 0
  /\ Goto(c, "armed")
  /\ UNCHANGED <<cloud, history, pending, due, ring, proc, rec, overlap, exits, faults>>

(* Parked, but the destination is off its baseline: Prepare settles first. *)
SettleFirst(c) ==
  /\ At(c, {"preparing"}) /\ running = 0
  /\ Becomes(c, [lane[c] EXCEPT !.stage = "settling", !.after = "armed"])
  /\ UNCHANGED <<cloud, history, pending, due, ring, proc, rec, overlap, exits, faults>>

(* Cancelled, failed, out of patience with the settlement before it, or    *)
(* expired, before the bell.  A settle of Prepare's own parks first.       *)
Abandon(c) ==
  /\ \/ At(c, {"waiting", "preparing", "armed"})
     \/ At(c, {"settling"}) /\ lane[c].after = "armed" /\ running = 0
  /\ Becomes(c, NoLane)
  /\ ring' = Without(c)
  /\ UNCHANGED <<cloud, history, pending, due, proc, rec, overlap, exits, faults>>

RingBell(c) ==
  /\ At(c, {"armed"})
  /\ Goto(c, "ringing")
  /\ UNCHANGED <<cloud, history, pending, due, ring, proc, rec, overlap, exits, faults>>

(* LakebaseSyncLane.start: once the update is asked for, its two rows are  *)
(* appended in the background.  A conflict adopts the update already       *)
(* active.                                                                 *)
Started(c, records) ==
  /\ At(c, {"ringing", "carrying"}) /\ lane[c].reserved # 0
  /\ running' = lane[c].reserved /\ failed' = FALSE
  /\ pending' = [pending EXCEPT ![c.of] = @ \cup records]
  /\ Becomes(c, [lane[c] EXCEPT !.stage = IF @ = "ringing" THEN "racing" ELSE "settling",
                          !.pair = lane[c].reserved, !.reserved = 0])
  /\ UNCHANGED <<history, due, ring, proc, rec, overlap, exits>>

StartLane(c) ==
  /\ Started(c, [intent : {"resuming", "stop_owed"}, start : {lane[c].reserved}])
  /\ UNCHANGED faults

(* The request took effect but its answer was lost: start raises, and      *)
(* nothing of it is recorded.                                              *)
StartUnanswered(c) == Started(c, {}) /\ Fault

(* The card turns to its settlement, whatever it was about.                *)
Settles(c, l) ==
  Becomes(c, [l EXCEPT !.stage = "settling", !.after = "idle", !.minting = FALSE, !.reserved = 0])

(* The race ends, or its bell fails: the ring is given back.               *)
RaceEnds(c) ==
  /\ At(c, {"ringing", "racing"})
  /\ ring' = Without(c)
  /\ Becomes(c, [lane[c] EXCEPT !.stage = "ended", !.minting = FALSE, !.reserved = 0])
  /\ UNCHANGED <<cloud, history, pending, due, proc, rec, overlap, exits, faults>>

(* _schedule_round_settlement, once the outcome is on the card, or once it *)
(* was published: what the process remembers is now this one.              *)
Schedule(c) ==
  /\ At(c, {"ended"})
  /\ Settles(c, lane[c])
  /\ proc' = [proc EXCEPT ![c.of].prior = c.slot]
  /\ UNCHANGED <<cloud, history, pending, due, ring, rec, overlap, exits, faults>>

(* A towel: the settlement runs under the ring, and nobody remembers it.   *)
Towel(c) ==
  /\ At(c, {"ringing", "racing"})
  /\ Settles(c, lane[c])
  /\ UNCHANGED <<cloud, history, pending, due, ring, proc, rec, overlap, exits, faults>>

(* The ring is lost before the outcome: its settlement is scheduled at     *)
(* once, beside the one it may have waited for, and this process claims    *)
(* nothing until it is over (_handle_lost_lease, _unstopped_ring_work).    *)
LoseRing(c) ==
  /\ \/ At(c, {"waiting", "preparing", "armed", "ringing", "racing"})
     \/ Settling(c) /\ lane[c].after = "armed"
  /\ ring' = Without(c)
  /\ Settles(c, [lane[c] EXCEPT !.lost = TRUE])
  /\ proc' = [proc EXCEPT ![c.of].prior = c.slot]
  /\ Overlaps(c)
  /\ UNCHANGED <<cloud, history, pending, due, rec, exits, faults>>

(* A lane found parked is started to carry the restored row, and one that  *)
(* is slow to carry it is parked and started once more.                    *)
Carry(c) ==
  /\ At(c, {"settling"}) /\ running = 0 /\ ~lane[c].minting
  /\ Goto(c, "carrying")
  /\ UNCHANGED <<cloud, history, pending, due, ring, proc, rec, overlap, exits, faults>>

(* The carry's start could not be recorded: the settle's park is next.     *)
CarryFails(c) ==
  /\ At(c, {"carrying"})
  /\ Becomes(c, [lane[c] EXCEPT !.stage = "settling", !.minting = FALSE, !.reserved = 0])
  /\ UNCHANGED <<cloud, history, pending, due, ring, proc, rec, overlap, exits, faults>>

(* A settle on Prepare's behalf leaves the card armed.                     *)
SettleEnds(c) ==
  /\ At(c, {"settling"}) /\ running = 0
  /\ IF lane[c].after = "armed"
       THEN /\ Becomes(c, [lane[c] EXCEPT !.stage = "armed", !.after = "idle", !.minting = FALSE])
            /\ UNCHANGED <<ring, proc>>
       ELSE Becomes(c, NoLane) /\ ring' = Without(c) /\ Forgets(c)
  /\ UNCHANGED <<cloud, history, pending, due, rec, overlap, exits, faults>>

(* Every attempt of _settle_with_retry failed: what runs is left running.  *)
SettleGivesUp(c) ==
  /\ At(c, {"settling"}) /\ Fault
  /\ Becomes(c, NoLane)
  /\ ring' = Without(c)
  /\ Forgets(c)
  /\ UNCHANGED <<cloud, history, pending, due, rec, overlap, exits>>

-----------------------------------------------------------------------------
(* Background appends, the clock, and what others do to the pipeline.      *)

CommitRow(r) ==
  /\ \E x \in pending[r] :
       rows' = rows \cup {x} /\ pending' = [pending EXCEPT ![r] = @ \ {x}]
  /\ UNCHANGED <<cloud, newest, due, ring, lane, proc, rec, overlap, exits, faults>>

(* record_power_request swallows an append that failed.                    *)
LoseRow(r) ==
  /\ \E x \in pending[r] : pending' = [pending EXCEPT ![r] = @ \ {x}]
  /\ Fault
  /\ UNCHANGED <<cloud, history, due, ring, lane, proc, rec, overlap, exits>>

(* A stop falls due half an hour after its start: never while a recovery    *)
(* is in an attempt, which takes seconds, begun before that row was there. *)
FallDue ==
  /\ \A r \in Replica : rec[r].step \notin Fenced
  /\ \E n \in Owing(rows) \ due : due' = due \cup {n}
  /\ UNCHANGED <<cloud, history, pending, ring, lane, proc, rec, overlap, exits, faults>>

(* The update fails by itself, or the operator's laptop stops it, which    *)
(* leaves no durable row.                                                  *)
StopsElsewhere ==
  /\ running # 0 /\ Fault
  /\ running' = 0 /\ failed' \in BOOLEAN
  /\ UNCHANGED <<history, pending, due, ring, lane, proc, rec, overlap, exits>>

-----------------------------------------------------------------------------
(* A process goes and comes back.                                          *)

(* A crash loses the process's memory and any of its appends; its ring     *)
(* stays until it lapses.                                                  *)
Crash(r) ==
  /\ Up(r) /\ exits < MaxExits
  /\ \E arrived \in SUBSET pending[r] : rows' = rows \cup arrived
  /\ pending' = [pending EXCEPT ![r] = {}]
  /\ lane' = [c \in Card |-> IF c.of = r THEN NoLane ELSE lane[c]]
  /\ proc' = [proc EXCEPT ![r] = [NewProcess EXCEPT !.life = "down"]]
  /\ RecBecomes(r, NoRecovery)
  /\ exits' = exits + 1
  /\ UNCHANGED <<cloud, newest, due, ring, overlap, faults>>

(* RunManager.close: a settle it cancels parks first; a race it cancels is *)
(* left as it is, and a settlement not yet scheduled never is.  The        *)
(* appends are drained and the ring is released.                           *)
Shutdown(r) ==
  /\ Up(r) /\ exits < MaxExits
  /\ \A c \in Cards(r) : ~At(c, {"carrying"}) /\ (At(c, {"settling"}) => running = 0)
  /\ rows' = rows \cup pending[r]
  /\ pending' = [pending EXCEPT ![r] = {}]
  /\ lane' = [c \in Card |-> IF c.of = r THEN [NoLane EXCEPT !.pair = lane[c].pair] ELSE lane[c]]
  /\ proc' = [proc EXCEPT ![r] = [NewProcess EXCEPT !.life = "closed"]]
  /\ RecBecomes(r, NoRecovery)
  /\ ring' = IF ring \in Cards(r) \cup {Recoverer(r)} THEN None ELSE ring
  /\ exits' = exits + 1
  /\ UNCHANGED <<cloud, newest, due, overlap, faults>>

(* A process starts: load_owed_stop_snapshot reads the debt once, and a    *)
(* debt starts one recovery for the process's lifetime.                    *)
Boot(r) ==
  /\ ~Up(r)
  /\ lane' = [c \in Card |-> IF c.of = r THEN NoLane ELSE lane[c]]
  /\ proc' = [proc EXCEPT ![r] = NewProcess]
  /\ \E debt \in Start \cup {0} :
       /\ IsDebt(rows, debt)
       /\ RecBecomes(r, [NoRecovery EXCEPT !.debt = debt,
                                            !.step = IF debt = 0 THEN "off" ELSE "waiting"])
  /\ UNCHANGED <<cloud, history, pending, due, ring, overlap, exits, faults>>

(* A ring whose holder is gone is free once its row expires.               *)
Lapse ==
  /\ ring # None
  /\ IF ring \in Card THEN At(ring, {"idle"}) ELSE rec[ring.of].step \notin Fenced
  /\ ring' = None
  /\ UNCHANGED <<cloud, history, pending, due, lane, proc, rec, overlap, exits, faults>>

-----------------------------------------------------------------------------
(* Round4StopRecovery.                                                     *)

Enter(r, to) == RecBecomes(r, [rec[r] EXCEPT !.step = to])

(* Mutant: the recovery claims nothing.                                    *)
FreeForAll == TRUE

Free == ring = None

RecClaim(r) ==
  /\ rec[r].step = "waiting" /\ rec[r].debt \in due
  /\ Free
  /\ ring' = Recoverer(r)
  /\ Enter(r, "claimed")
  /\ UNCHANGED <<cloud, history, pending, due, lane, proc, overlap, exits, faults>>

(* _latest_debt_outcome: nothing owed, not due yet, or still to be paid.   *)
RecRead(r, from, to) ==
  /\ rec[r].step = from
  /\ \E debt \in Start \cup {0} :
       LET paid == debt = 0
           early == ~paid /\ debt \notin due
       IN /\ IsDebt(rows, debt)
          /\ rec' = [rec EXCEPT
               ![r].step = IF paid THEN "off" ELSE IF early THEN "waiting" ELSE to,
               ![r].debt = debt]
          /\ ring' = IF paid \/ early THEN Without(Recoverer(r)) ELSE ring
  /\ UNCHANGED <<cloud, history, pending, due, lane, proc, overlap, exits, faults>>

RecSignals(r) ==
  /\ rec[r].step = "reading"
  /\ RecBecomes(r, [rec[r] EXCEPT !.step = "read",
       !.signals = IF running # 0 THEN "healthy" ELSE IF failed THEN "failed" ELSE "stopped"])
  /\ UNCHANGED <<cloud, history, pending, due, ring, lane, proc, overlap, exits, faults>>

(* Stop what reads healthy, take a proven stop as it is, refuse the rest.  *)
RecAct(r) ==
  /\ rec[r].step = "deciding"
  /\ IF rec[r].signals = "healthy"
       THEN running' = 0 /\ failed' = FALSE
       ELSE UNCHANGED cloud
  /\ IF rec[r].signals = "failed"
       THEN Enter(r, "given_up") /\ ring' = Without(Recoverer(r))
       ELSE Enter(r, "appending") /\ UNCHANGED ring
  /\ UNCHANGED <<history, pending, due, lane, proc, overlap, exits, faults>>

(* Mutant: the repayment is a bare row, of no start.                       *)
RepaymentUnkeyed(r) == {[intent |-> "stopped", start |-> 0]}

Repayment(r) == {[intent |-> "stopped", start |-> rec[r].debt]}

(* The append is awaited; then the ring is released.                       *)
RecAppend(r) ==
  /\ rec[r].step = "appending"
  /\ rows' = rows \cup Repayment(r)
  /\ RecBecomes(r, NoRecovery)
  /\ ring' = Without(Recoverer(r))
  /\ UNCHANGED <<cloud, newest, pending, due, lane, proc, overlap, exits, faults>>

(* A transient failure, or signals that are still settling: try again.     *)
RecFails(r) ==
  /\ rec[r].step \in Fenced /\ Fault
  /\ Enter(r, "waiting")
  /\ ring' = Without(Recoverer(r))
  /\ UNCHANGED <<cloud, history, pending, due, lane, proc, overlap, exits>>

-----------------------------------------------------------------------------
(* What a process carries through once it has begun it.  An armed card is  *)
(* rung or expires.                                                        *)
Carries(c) ==
  \/ ReadFloor(c) \/ Reserve(c) \/ Park(c) \/ Armed(c) \/ Abandon(c) \/ StartLane(c)
  \/ RaceEnds(c) \/ Schedule(c) \/ CarryFails(c) \/ SettleEnds(c)

Recovers(r) ==
  \/ RecRead(r, "claimed", "reading") \/ RecSignals(r) \/ RecRead(r, "read", "deciding")
  \/ RecAct(r) \/ RecAppend(r)

CardStep(c) ==
  \/ Carries(c) \/ Claim(c) \/ Prepare(c) \/ ParkUnrecorded(c) \/ SettleFirst(c) \/ RingBell(c)
  \/ StartUnanswered(c) \/ Towel(c) \/ LoseRing(c) \/ Carry(c) \/ SettleGivesUp(c)

ReplicaStep(r) ==
  \/ CommitRow(r) \/ LoseRow(r) \/ Recovers(r) \/ RecClaim(r) \/ RecFails(r)
  \/ Crash(r) \/ Shutdown(r) \/ Boot(r)

Next ==
  \/ \E c \in Card : CardStep(c)
  \/ \E r \in Replica : ReplicaStep(r)
  \/ FallDue \/ StopsElsewhere \/ Lapse

Spec == Init /\ [][Next]_vars

(* A process's own tasks go on running, a lease lapses, time passes; a     *)
(* claim polled every half second gets a ring that keeps coming free; a    *)
(* settle makes four attempts, so it does not carry forever.               *)
Fairness ==
  /\ WF_vars(FallDue) /\ WF_vars(Lapse)
  /\ \A r \in Replica : WF_vars(CommitRow(r)) /\ WF_vars(Recovers(r)) /\ SF_vars(RecClaim(r))
  /\ \A c \in Card : WF_vars(Carries(c)) /\ SF_vars(SettleEnds(c))

FairSpec == Spec /\ Fairness

-----------------------------------------------------------------------------
(* A start that runs and has any row on record is owed: no stop recorded   *)
(* earlier, later or late hides it from the next process's recovery        *)
(* (_unmatched_owed_stop over mint_power_pair_key's keys).  Two lanes of   *)
(* one process that mint and park beside each other can hide a start.      *)
StartOnRecordIsOwed ==
  ~overlap /\ (\E x \in rows : x.intent # "stopped" /\ x.start = running)
    => running \in Owing(rows)

(* What a recorded stop settled stays settled, whatever older row arrives  *)
(* later: a restart never stops the pipeline for it again.                 *)
SettledStaysSettled ==
  [][\A p \in Settled(rows), n \in Owing(rows') : n > p]_vars

(* A start's key is above every key in the history, whatever the wall      *)
(* clock did between processes (next_pipeline_start_generation).           *)
MintedAboveHistory ==
  [][running' # running /\ running' # 0 =>
       \A x \in rows \cup UNION {pending[r] : r \in Replica} : x.start < running']_vars

(* What stops the pipeline under a race, of any number of processes: itself *)
(* or someone outside, or a settlement that goes on after its ring was      *)
(* given back.  Never a recovery, a Prepare, or a settle that Prepare does  *)
(* first.                                                                   *)
SettleMeddles(d) ==
  /\ Settling(d) /\ lane[d].after = "idle"
  /\ Park(d) \/ ParkUnrecorded(d) \/ StartLane(d) \/ StartUnanswered(d)

Races(c) ==
  At(c, {"racing"}) /\ lane'[c].stage = "racing" /\ running = lane[c].pair /\ running # 0

(* Nothing of this program stops the update while a bout races on it, not  *)
(* a recovery and not another bout's park, but a settlement of its own     *)
(* process that its Prepare went past: one that was not yet scheduled, or  *)
(* no longer the one scheduled last, when it looked                        *)
(* (_await_prior_round4_settlement, _schedule_round_settlement).           *)
NoRaceIsStopped ==
  [][\A c \in Card :
       Races(c) =>
         \/ running' = running \/ StopsElsewhere
         \/ \E d \in Others(c) : d.slot \in lane[c].past /\ SettleMeddles(d)]_vars

(* The previous bout of this process has settled before a Prepare looks at *)
(* the lanes: what _await_prior_round4_settlement's docstring says.        *)
PreviousBoutIsSettled ==
  \A c \in Card : At(c, {"preparing"}) => \A d \in Others(c) : ~AtWork(d)

(* A debt some process recovers is repaid, unless the pipeline failed by   *)
(* itself, which is refused, or the process ended first.                   *)
DebtIsRepaid ==
  \A r \in Replica, n \in Start :
    rec[r].step = "waiting" /\ n \in Owing(rows)
      ~> n \notin Owing(rows) \/ rec[r].step = "given_up" \/ ~Up(r)

(* A process that died in a bout left the stop it owed on record           *)
(* (round4_race_live.py: BOUT_STOP_DUE_SECONDS, LakebaseSyncLane.start).   *)
CrashLeavesStopOnRecord ==
  [][\A c \in Card :
       At(c, {"racing"}) /\ proc'[c.of].life = "down" /\ running = lane[c].pair
         => running = 0 \/ running \in Owing(rows')]_vars

(* A process that was closed left no update running that it had started    *)
(* (RunManager.close, _release_pipelines_for_shutdown).                    *)
CloseStopsWhatItStarted ==
  \A c \in Card : proc[c.of].life = "closed" /\ running # 0 => running # lane[c].pair
=============================================================================
