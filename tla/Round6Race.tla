------------------------------ MODULE Round6Race ------------------------------
(***************************************************************************)
(* Round 6: the same checkout order is committed at one bell to Lakebase,  *)
(* whose change feed carries it into a history, and to an AWS database,    *)
(* from which a DMS task and a Glue job carry it into another.  Here are   *)
(* the bouts: the card claims the ring, prepares, rings, and schedules the *)
(* settlement after the ring has been given back (server/manager.py); the  *)
(* engine runs and settles (server/round6_race.py), its lanes act on the   *)
(* sealed resources (server/round6_race_live.py, round6_dms.py,            *)
(* round4_glue.py).  What the verifiers read meanwhile is LaneRace's.      *)
(*                                                                         *)
(* A commit, or the start of a part of the pipeline, is a call that no     *)
(* cancellation takes back: it stays in "calls" until it has answered.     *)
(***************************************************************************)
EXTENDS Naturals

CONSTANTS
  Lanes,          \* Lakebase's change feed, AWS's capture
  Orders,         \* what a bell commits in each lane: the checkout, the guardrail's
  Parts,          \* what the AWS pipeline is made of: the DMS task, the Glue job
  Task,           \* of these the DMS task, which is not started twice
  MaxBout,        \* bound on the claims of the ring
  MaxFaults,      \* bound on errors, refusals, lost leases and crashes
  Attempts        \* how often a settlement in the background is tried

Bouts == 1..MaxBout

VARIABLES
  holder,  \* the bout that holds the ring, 0 for none
  begun,   \* how many bouts have claimed it
  bout,    \* of each bout: its card's task, its towel, its settlement
  prior,   \* the bout whose settlement this process scheduled last, 0 for none
  rows,    \* the orders in the sources: of which bout, which order, in which lane
  calls,   \* commits and starts that have not answered
  part,    \* what each part of the pipeline is doing
  slips    \* how many faults there have been

raceVars == <<holder, begun, bout, prior, rows, calls, part, slips>>

Fresh == [run |-> "none", towel |-> "none", job |-> "none", rang |-> FALSE, lost |-> FALSE,
          early |-> FALSE, bad |-> FALSE, tries |-> 0, parked |-> {}]
Row == [bout : Bouts, order : Orders, lane : Lanes]
Call == [bout : Bouts, call : Orders, at : Lanes] \cup
        [bout : Bouts, call : {"start"}, at : Parts]

Card ==
  [run : {"none", "look", "park", "purge", "armed", "race", "publish", "over", "dead"},
   towel : {"none", "CLEANING", "READY", "FAILED"},
   job : {"none", "pending", "deleting", "parking", "settled", "gaveUp"},
   rang : BOOLEAN, lost : BOOLEAN, early : BOOLEAN, bad : BOOLEAN,
   tries : 0..Attempts, parked : SUBSET Parts]

RaceTypeOK ==
  /\ holder \in 0..MaxBout /\ begun \in 0..MaxBout /\ prior \in 0..MaxBout
  /\ bout \in [Bouts -> Card]
  /\ rows \subseteq Row /\ calls \subseteq Call
  /\ part \in [Parts -> {"parked", "starting", "running", "stopping"}]
  /\ slips \in 0..MaxFaults

Init ==
  /\ holder = 0 /\ begun = 0 /\ prior = 0
  /\ bout = [b \in Bouts |-> Fresh]
  /\ rows = {} /\ calls = {}
  /\ part = [p \in Parts |-> "parked"]
  /\ slips = 0

-----------------------------------------------------------------------------
Of(b) == {c \in calls : c.bout = b}

(* Mutant: a start has answered once one of its parts was refused.          *)
InFlightUnrefused(b) == {c \in Of(b) : c.call = "start" => ~bout[b].bad}

(* What a settlement waits for: a start answers once every part has.        *)
InFlight(b) == Of(b)
RowsOf(b) == {r \in rows : r.bout = b}
Sets(b, field, value) == bout' = [bout EXCEPT ![b][field] = value]
Slip == slips < MaxFaults /\ slips' = slips + 1
ring == <<holder, begun>>

(* A settlement that is still at work.                                      *)
Settling(b) == bout[b].job \in {"pending", "deleting", "parking"}

(* A claim waits here for the work of a card that lost the ring.            *)
Unstopped == \E b \in Bouts : bout[b].lost /\ Settling(b)

-----------------------------------------------------------------------------
(* The pipeline comes up, and stops, in its own time.                       *)
ComesUp(p) ==
  /\ part[p] = "starting"
  /\ part' = [part EXCEPT ![p] = "running"]
  /\ UNCHANGED <<ring, bout, prior, rows, calls, slips>>
Stops(p) ==
  /\ part[p] = "stopping"
  /\ part' = [part EXCEPT ![p] = "parked"]
  /\ UNCHANGED <<ring, bout, prior, rows, calls, slips>>

-----------------------------------------------------------------------------
(* The calls of a bell: _track.                                             *)
Commits(c) ==
  /\ c \in calls /\ c.call \in Orders
  /\ rows' = rows \cup {[bout |-> c.bout, order |-> c.call, lane |-> c.at]}
  /\ calls' = calls \ {c}
  /\ UNCHANGED <<ring, bout, prior, part, slips>>

(* DmsCaptureTask.start, GlueWriterJob.start: a part at rest is started and *)
(* one on its way is waited for; a DMS task that runs is let be.            *)
Starts(c) ==
  /\ c \in calls /\ c.call = "start"
  /\ part[c.at] = "parked" \/ (part[c.at] = "running" /\ c.at = Task)
  /\ part' = [part EXCEPT ![c.at] = IF @ = "parked" THEN "starting" ELSE @]
  /\ calls' = calls \ {c}
  /\ UNCHANGED <<ring, bout, prior, rows, slips>>

(* A Glue run that holds the job's only slot has another refused in the end *)
(* (ConcurrentRunsExceededException).                                       *)
NoSlot(c) ==
  /\ c \in calls /\ c.call = "start" /\ c.at # Task /\ part[c.at] \in {"starting", "running"}
  /\ calls' = calls \ {c}
  /\ bout' = [bout EXCEPT ![c.bout].bad = TRUE]
  /\ UNCHANGED <<ring, prior, rows, part, slips>>

(* A call ends in an error; a commit may have been served all the same.     *)
Refused(c) ==
  /\ c \in calls /\ Slip
  /\ calls' = calls \ {c}
  /\ bout' = [bout EXCEPT ![c.bout].bad = TRUE]
  /\ \/ UNCHANGED rows
     \/ /\ c.call \in Orders
        /\ rows' = rows \cup {[bout |-> c.bout, order |-> c.call, lane |-> c.at]}
  /\ UNCHANGED <<ring, prior, part>>

-----------------------------------------------------------------------------
(* The claim, Prepare and the bell.                                         *)

(* start_arm: a new card, whose engine knows of no other's calls.           *)
Claim(b) ==
  /\ b = begun + 1 /\ b <= MaxBout /\ holder = 0 /\ ~Unstopped
  /\ holder' = b /\ begun' = b
  /\ Sets(b, "run", "look")
  /\ UNCHANGED <<prior, rows, calls, part, slips>>

(* Mutant: Prepare does not wait for the last bout's settlement.            *)
PriorUnheeded(b) == TRUE

(* _await_prior_round6_settlement.                                          *)
PriorIsDone(b) == \A c \in Bouts : c = prior => ~Settling(c)

(* Prepare looks once, at the settlement that was scheduled last: that of a *)
(* bout that has given the ring back and has not scheduled it yet is not    *)
(* seen ("early").                                                          *)
Look(b) ==
  /\ bout[b].run = "look" /\ PriorIsDone(b)
  /\ bout' = [bout EXCEPT ![b].run = "park",
                          ![b].early = \E c \in 1..(b - 1) : bout[c].run = "publish"]
  /\ UNCHANGED <<ring, prior, rows, calls, part, slips>>

(* Prepare and a settlement park the same way: each part that runs is       *)
(* stopped, one that starts is waited for, and each is done once seen at    *)
(* rest.                                                                    *)
Parking(b) == bout[b].run = "park" \/ bout[b].job = "parking"
StopPart(b, p) ==
  /\ Parking(b) /\ p \notin bout[b].parked /\ part[p] = "running"
  /\ part' = [part EXCEPT ![p] = "stopping"]
  /\ UNCHANGED <<ring, bout, prior, rows, calls, slips>>
SeenParked(b, p) ==
  /\ Parking(b) /\ p \notin bout[b].parked /\ part[p] = "parked"
  /\ Sets(b, "parked", bout[b].parked \cup {p})
  /\ UNCHANGED <<ring, prior, rows, calls, part, slips>>

AtRest(b) ==
  /\ bout[b].run = "park" /\ bout[b].parked = Parts
  /\ bout' = [bout EXCEPT ![b].run = "purge", ![b].parked = {}]
  /\ UNCHANGED <<ring, prior, rows, calls, part, slips>>

(* What carries a bout's nonce is residue and is removed; the sources then  *)
(* read their baseline, and the card is armed.                              *)
Purge(b) ==
  /\ bout[b].run = "purge"
  /\ rows' = {}
  /\ Sets(b, "run", "armed")
  /\ UNCHANGED <<ring, prior, calls, part, slips>>

PrepareFails(b) ==
  /\ bout[b].run \in {"look", "park", "purge"} /\ Slip
  /\ bout' = [bout EXCEPT ![b].run = "over", ![b].parked = {}]
  /\ holder' = 0
  /\ UNCHANGED <<begun, prior, rows, calls, part>>

(* _abandon_armed_bout: nothing was started, so nothing is settled.         *)
Abandon(b) ==
  /\ bout[b].run = "armed"
  /\ Sets(b, "run", "over")
  /\ holder' = 0
  /\ UNCHANGED <<begun, prior, rows, calls, part, slips>>

(* The bell: every commit and every start is on its way at once.            *)
Bell(b) ==
  /\ bout[b].run = "armed" /\ holder = b
  /\ bout' = [bout EXCEPT ![b].run = "race", ![b].rang = TRUE]
  /\ calls' = calls \cup [bout : {b}, call : Orders, at : Lanes]
                   \cup [bout : {b}, call : {"start"}, at : Parts]
  /\ UNCHANGED <<ring, prior, rows, part, slips>>

(* ... or a source has left its baseline, and the bell is refused.          *)
BellFails(b) ==
  /\ bout[b].run = "armed" /\ holder = b /\ Slip
  /\ bout' = [bout EXCEPT ![b].run = "publish", ![b].rang = TRUE]
  /\ holder' = 0
  /\ UNCHANGED <<begun, prior, rows, calls, part>>

-----------------------------------------------------------------------------
(* The end of a run and its settlement.                                     *)

(* run, _finish_live_orders: once the lanes are judged and the commits have *)
(* answered the ring is given back ...                                      *)
RaceEnds(b) ==
  /\ bout[b].run = "race"
  /\ \A c \in Of(b) : c.call = "start"
  /\ Sets(b, "run", "publish")
  /\ holder' = 0
  /\ UNCHANGED <<begun, prior, rows, calls, part, slips>>

(* ... or the run fails, its calls still on their way.                      *)
RaceFails(b) ==
  /\ bout[b].run = "race" /\ Slip
  /\ Sets(b, "run", "publish")
  /\ holder' = 0
  /\ UNCHANGED <<begun, prior, rows, calls, part>>

Due(b, run) == [bout[b] EXCEPT !.run = run, !.job = "pending", !.tries = 0, !.bad = FALSE]

(* Mutant: a process schedules one settlement only.                         *)
ScheduleOnce(b) ==
  /\ bout[b].run = "publish"
  /\ bout' = [bout EXCEPT ![b] = IF prior = 0 THEN Due(b, "over") ELSE [@ EXCEPT !.run = "over"]]
  /\ prior' = b
  /\ UNCHANGED <<ring, rows, calls, part, slips>>

(* _schedule_round_settlement, after the verdict was published.             *)
Schedule(b) ==
  /\ bout[b].run = "publish"
  /\ bout' = [bout EXCEPT ![b] = Due(b, "over")]
  /\ prior' = b
  /\ UNCHANGED <<ring, rows, calls, part, slips>>

(* start_towel: the run is cancelled, its calls are not, and the settlement *)
(* keeps the ring.                                                          *)
Towel(b) ==
  /\ bout[b].run = "race"
  /\ bout' = [bout EXCEPT ![b] = [Due(b, "over") EXCEPT !.towel = "CLEANING"]]
  /\ UNCHANGED <<ring, prior, rows, calls, part, slips>>

(* settle: what the bell issued is waited for ...                           *)
Drains(b) ==
  /\ bout[b].job = "pending" /\ InFlight(b) = {}
  /\ bout' = [bout EXCEPT ![b].job = "deleting", ![b].bad = FALSE]
  /\ UNCHANGED <<ring, prior, rows, calls, part, slips>>

(* ... the bout's own orders go from every source ...                       *)
Deletes(b) ==
  /\ bout[b].job = "deleting"
  /\ rows' = rows \ RowsOf(b)
  /\ Sets(b, "job", "parking")
  /\ UNCHANGED <<ring, prior, calls, part, slips>>

(* (a delete that fails may have been served) ...                           *)
DeletesSome(b) ==
  /\ bout[b].job = "deleting" /\ Slip
  /\ \E left \in SUBSET RowsOf(b) : rows' = rows \ left
  /\ bout' = [bout EXCEPT ![b].job = "parking", ![b].bad = TRUE]
  /\ UNCHANGED <<ring, prior, calls, part>>

(* ... and every pipeline is parked, even when a delete failed.             *)
Again(b) ==
  IF bout[b].tries + 1 < Attempts \/ bout[b].towel # "none"
  THEN [bout[b] EXCEPT !.job = "pending", !.parked = {},
                       !.tries = IF @ + 1 < Attempts THEN @ + 1 ELSE @]
  ELSE [bout[b] EXCEPT !.job = "gaveUp", !.parked = {}]
Settles(b) ==
  /\ bout[b].job = "parking" /\ bout[b].parked = Parts /\ ~bout[b].bad
  /\ bout' = [bout EXCEPT ![b].job = "settled", ![b].parked = {},
                          ![b].towel = IF @ = "none" THEN @ ELSE "READY"]
  /\ holder' = IF bout[b].towel = "none" THEN holder ELSE 0
  /\ UNCHANGED <<begun, prior, rows, calls, part, slips>>
Retries(b) ==
  /\ bout[b].job = "parking" /\ bout[b].parked = Parts /\ bout[b].bad
  /\ bout' = [bout EXCEPT ![b] = Again(b)]
  /\ UNCHANGED <<ring, prior, rows, calls, part, slips>>
ParkFails(b) ==
  /\ bout[b].job = "parking" /\ Slip
  /\ bout' = [bout EXCEPT ![b] = Again(b)]
  /\ UNCHANGED <<ring, prior, rows, calls, part>>

(* A towel's retries run out of their window; the operator's start anew.    *)
TowelGivesUp(b) ==
  /\ bout[b].towel = "CLEANING" /\ bout[b].job = "pending" /\ bout[b].tries > 0
  /\ bout' = [bout EXCEPT ![b].towel = "FAILED", ![b].job = "none"]
  /\ UNCHANGED <<ring, prior, rows, calls, part, slips>>
TowelRetry(b) ==
  /\ bout[b].towel = "FAILED" /\ holder = b
  /\ bout' = [bout EXCEPT ![b] = [Due(b, "over") EXCEPT !.towel = "CLEANING"]]
  /\ UNCHANGED <<ring, prior, rows, calls, part, slips>>

-----------------------------------------------------------------------------
(* _handle_lost_lease: the card's task is cancelled and its settlement      *)
(* scheduled, which the process then remembers in place of one that may     *)
(* still be at work; a towel's is cancelled, and nothing else comes for it. *)
Loses(b) ==
  /\ holder = b /\ bout[b].run # "armed" /\ bout[b].towel = "none" /\ Slip
  /\ holder' = 0 /\ prior' = b
  /\ bout' = [bout EXCEPT ![b] = [Due(b, "over") EXCEPT !.lost = TRUE, !.parked = {},
                                       !.early = @ \/ ~PriorIsDone(b)]]
  /\ UNCHANGED <<begun, rows, calls, part>>
LosesTowel(b) ==
  /\ holder = b /\ bout[b].towel \in {"CLEANING", "FAILED"} /\ Slip
  /\ holder' = 0
  /\ bout' = [bout EXCEPT ![b].towel = "FAILED", ![b].job = "none", ![b].lost = TRUE,
                          ![b].parked = {}]
  /\ UNCHANGED <<begun, prior, rows, calls, part>>

(* The process dies: what is on the wire lands or is lost before the next   *)
(* one serves, which remembers no card.                                     *)
Crash ==
  /\ begun > 0 /\ Slip
  /\ \E landed \in SUBSET calls :
       /\ rows' = rows \cup {[bout |-> c.bout, order |-> c.call, lane |-> c.at] :
                              c \in {d \in landed : d.call \in Orders}}
       /\ part' = [p \in Parts |->
            IF part[p] = "parked" /\ \E c \in landed : c.call = "start" /\ c.at = p
            THEN "starting" ELSE part[p]]
  /\ calls' = {} /\ holder' = 0 /\ prior' = 0
  /\ bout' = [b \in Bouts |->
       IF bout[b].run = "none" \/ bout[b].job = "settled" THEN bout[b]
       ELSE [Fresh EXCEPT !.run = "dead", !.rang = bout[b].rang]]
  /\ UNCHANGED begun

-----------------------------------------------------------------------------
Pipeline(p) == ComesUp(p) \/ Stops(p)
Served(c) == Commits(c) \/ Starts(c) \/ NoSlot(c)

CardStep(b) ==
  \/ Look(b) \/ AtRest(b) \/ Purge(b) \/ RaceEnds(b) \/ Schedule(b)
  \/ Drains(b) \/ Deletes(b) \/ Settles(b) \/ Retries(b)
  \/ \E p \in Parts : StopPart(b, p) \/ SeenParked(b, p)

Mishap(b) ==
  \/ PrepareFails(b) \/ BellFails(b) \/ RaceFails(b) \/ DeletesSome(b) \/ ParkFails(b) \/ TowelGivesUp(b)
  \/ Loses(b) \/ LosesTowel(b)

Operator(b) == Claim(b) \/ Abandon(b) \/ Bell(b) \/ Towel(b) \/ TowelRetry(b)

Next ==
  \/ \E p \in Parts : Pipeline(p)
  \/ \E c \in calls : Served(c) \/ Refused(c)
  \/ \E b \in Bouts : CardStep(b) \/ Mishap(b) \/ Operator(b)
  \/ Crash

Spec == Init /\ [][Next]_raceVars

(* The provider answers, a card's own tasks go on.          *)
Fairness ==
  /\ \A p \in Parts : WF_raceVars(Pipeline(p))
  /\ WF_raceVars(\E c \in calls : Served(c))
  /\ \A b \in Bouts : WF_raceVars(CardStep(b))
FairSpec == Spec /\ Fairness

-----------------------------------------------------------------------------
(* A settlement that reports success leaves nothing of its bout in a source *)
(* or on its way, and the pipeline runs, billed, only while some bout that  *)
(* rang has not been settled.                                               *)
SettledLeavesNothing ==
  /\ \A b \in Bouts : bout[b].job = "settled" => Of(b) = {} /\ RowsOf(b) = {}
  /\ (\E p \in Parts : part[p] # "parked") =>
       \E b \in Bouts : bout[b].rang /\ bout[b].job # "settled"

(* Nobody parks the pipeline under a race, as long as no bout so far looked *)
(* before an earlier one had scheduled its settlement, or lost the ring     *)
(* with an earlier settlement at work: the process remembers the one it     *)
(* scheduled last, and one that was passed over can park any later race.    *)
NoRaceIsParked ==
  [][\A b \in Bouts : bout[b].run = "race" /\ (\A c \in 1..b : ~bout[c].early) =>
       \A p \in Parts : part'[p] = "stopping" => part[p] = "stopping"]_raceVars

(* Every bout that rang is settled in the end, whatever ended it, unless    *)
(* its process died, its towel waits for the operator, or every try failed. *)
Attended(b) ==
  \/ bout[b].job \in {"settled", "gaveUp"} \/ bout[b].run = "dead"
  \/ bout[b].towel = "FAILED"

EveryBellIsSettled ==
  (\E b \in Bouts : bout[b].run = "race")
    ~> \A b \in Bouts : bout[b].rang => Attended(b)
=============================================================================
