------------------------------ MODULE LaneRace ------------------------------
(***************************************************************************)
(* The verdict of Round 6: after one bell each lane commits the checkout   *)
(* to its source, a pipeline carries it into the lane's history, and a     *)
(* verifier reads the history until it finds the order.  What the two      *)
(* verifiers noted decides the bout (server/round6_race.py, _poll; the     *)
(* rule is server/round4_race.py, resolve, Round 4's too).  One race, from *)
(* the bell to the verdict; who parks and cleans afterwards is             *)
(* Round6Race's.                                                           *)
(***************************************************************************)
EXTENDS Naturals

CONSTANTS
  Contender,  \* the lanes: Lakebase's change feed, AWS's DMS and Glue
  Limit,      \* lane_timeout_seconds, in ticks from the bell
  MaxSlips    \* bound on refusals, broken pipelines and failed reads

VARIABLES
  order,    \* of each lane: its checkout's way to the source
  carrier,  \* of each lane: what its pipeline is doing
  arrived,  \* of each lane: since when its history holds the order
  poll,     \* of each lane: what its verifier has noted
  misread,  \* lanes whose verifier lost a read
  time,     \* ticks since the bell
  slips     \* how many faults there have been

laneVars == <<order, carrier, arrived, poll, misread, time, slips>>

Time == 0..Limit
Never == Limit + 1

LaneTypeOK ==
  /\ order \in [Contender -> {"sent", "there", "acked", "refused"}]
  /\ carrier \in [Contender -> {"starting", "on", "refused", "broken"}]
  /\ arrived \in [Contender -> Time \cup {Never}]
  /\ poll \in [Contender ->
       [at : {"top", "reading", "done"}, began : Time \cup {Never},
        neg : Time \cup {Never}, ack : Time \cup {Never}, elapsed : Time \cup {Never},
        end : {"none", "verified", "timedOut", "failed"}, failing : BOOLEAN]]
  /\ misread \subseteq Contender
  /\ time \in Time /\ slips \in 0..MaxSlips

LaneInit ==
  /\ order = [l \in Contender |-> "sent"]
  /\ carrier = [l \in Contender |-> "starting"]
  /\ arrived = [l \in Contender |-> Never]
  /\ poll = [l \in Contender |->
       [at |-> "top", began |-> Never, neg |-> Never, ack |-> Never, elapsed |-> Never,
        end |-> "none", failing |-> FALSE]]
  /\ misread = {} /\ time = 0 /\ slips = 0

-----------------------------------------------------------------------------
Judged == \A l \in Contender : poll[l].at = "done"
Slip == slips < MaxSlips /\ slips' = slips + 1

Tick ==
  /\ time < Limit /\ ~Judged
  /\ time' = time + 1
  /\ UNCHANGED <<order, carrier, arrived, poll, misread, slips>>

(* The source has the order before the engine has the answer.               *)
Commits(l) ==
  /\ order[l] = "sent"
  /\ order' = [order EXCEPT ![l] = "there"]
  /\ UNCHANGED <<carrier, arrived, poll, misread, time, slips>>
Acknowledged(l) ==
  /\ order[l] = "there"
  /\ order' = [order EXCEPT ![l] = "acked"]
  /\ poll' = [poll EXCEPT ![l].ack = time]
  /\ UNCHANGED <<carrier, arrived, misread, time, slips>>
CommitRefused(l) ==
  /\ order[l] \in {"sent", "there"} /\ Slip
  /\ order' = [order EXCEPT ![l] = "refused"]
  /\ UNCHANGED <<carrier, arrived, poll, misread, time>>

(* A start answers once the pipeline runs; it is refused, or breaks later.  *)
Starts(l) ==
  /\ carrier[l] = "starting"
  /\ carrier' = [carrier EXCEPT ![l] = "on"]
  /\ UNCHANGED <<order, arrived, poll, misread, time, slips>>
Fails(l) ==
  /\ carrier[l] \in {"starting", "on"} /\ Slip
  /\ carrier' = [carrier EXCEPT ![l] = IF @ = "on" THEN "broken" ELSE "refused"]
  /\ UNCHANGED <<order, arrived, poll, misread, time>>

(* What reached the source before its answer was lost is carried as well.   *)
Arrives(l) ==
  /\ carrier[l] = "on" /\ order[l] # "sent" /\ arrived[l] = Never
  /\ arrived' = [arrived EXCEPT ![l] = time]
  /\ UNCHANGED <<order, carrier, poll, misread, time, slips>>

-----------------------------------------------------------------------------
(* _poll.                                                                   *)
Notes(l, note) == poll' = [poll EXCEPT ![l] = note]
Outcome(l, end) == [poll[l] EXCEPT !.at = "done", !.began = Never, !.end = end]

(* The top of the loop: a commit or a start that was refused ends the lane. *)
Begin(l) ==
  /\ poll[l].at = "top"
  /\ Notes(l, IF order[l] = "refused" \/ carrier[l] = "refused" THEN Outcome(l, "failed")
              ELSE [poll[l] EXCEPT !.at = "reading", !.began = time])
  /\ UNCHANGED <<order, carrier, arrived, misread, time, slips>>

(* A read sees the history as it was at some time between its two ends; one *)
(* that finds the order counts once its commit was acknowledged.            *)
Sees(l) == arrived[l] # Never
Misses(l) == arrived[l] >= poll[l].began

Finds(l) ==
  /\ poll[l].at = "reading" /\ Sees(l) /\ poll[l].ack # Never
  /\ Notes(l, [Outcome(l, "verified") EXCEPT !.elapsed = time])
  /\ UNCHANGED <<order, carrier, arrived, misread, time, slips>>

(* Mutant: a negative read vouches for the time it ended.                   *)
NegativeAtEnd(l) == time

(* A negative read vouches for the time it began.                           *)
Negative(l) == poll[l].began

(* It ends the lane past the bound, or if the pipeline was known to have    *)
(* failed before it began.                                                  *)
Missed(l) ==
  LET note == IF time >= Limit THEN Outcome(l, "timedOut")
              ELSE IF poll[l].failing THEN Outcome(l, "failed")
              ELSE [poll[l] EXCEPT !.at = "top", !.began = Never]
  IN [note EXCEPT !.neg = Negative(l)]

FindsNothing(l) ==
  /\ poll[l].at = "reading"
  /\ Misses(l) \/ (Sees(l) /\ poll[l].ack = Never)
  /\ Notes(l, Missed(l))
  /\ UNCHANGED <<order, carrier, arrived, misread, time, slips>>

(* "a failed read is a negative read", whatever the history holds.          *)
ReadFails(l) ==
  /\ poll[l].at = "reading" /\ Slip
  /\ Notes(l, Missed(l))
  /\ misread' = misread \cup {l}
  /\ UNCHANGED <<order, carrier, arrived, time>>

(* _watch: a pipeline that broke is known before some later read.           *)
Watch(l) ==
  /\ poll[l].at = "top" /\ carrier[l] = "broken" /\ ~poll[l].failing
  /\ Notes(l, [poll[l] EXCEPT !.failing = TRUE])
  /\ UNCHANGED <<order, carrier, arrived, misread, time, slips>>

(* Once both lanes are judged the notes are final.                          *)
LaneNext ==
  \/ Tick
  \/ \E l \in Contender : ~Judged /\
       (\/ Commits(l) \/ Acknowledged(l) \/ CommitRefused(l)
        \/ Starts(l) \/ Fails(l) \/ Arrives(l)
        \/ Begin(l) \/ Finds(l) \/ FindsNothing(l) \/ ReadFails(l) \/ Watch(l))

LaneSpec == LaneInit /\ [][LaneNext]_laneVars

-----------------------------------------------------------------------------
(* LaneOutcome: U is poll.elapsed, L the later of the acknowledgment and    *)
(* the last negative read's start.                                          *)
Later(s, t) == IF s = Never \/ (t # Never /\ t > s) THEN t ELSE s
LastNegative(l) == Later(poll[l].ack, poll[l].neg)

(* resolve: of two lanes that delivered, the one that was found first, if   *)
(* that read was over when the other's last negative read began (found in   *)
(* one instant, neither is first here).                                     *)
Wins(l, m) ==
  /\ poll[l].end = "verified" /\ poll[m].end = "verified"
  /\ poll[l].elapsed < poll[m].elapsed
  /\ LastNegative(m) # Never /\ poll[l].elapsed <= LastNegative(m)

(* The winner's order was in its history before the other's was in its own, *)
(* or before the other's checkout was acknowledged.                         *)
First(l, m) == arrived[l] <= Later(arrived[m], poll[m].ack)

(* While every read of the loser's answered, a win is a fact of the         *)
(* histories ("Resolution comes from evidence").                            *)
WinIsFirst ==
  Judged => \A l, m \in Contender :
    l # m /\ Wins(l, m) /\ m \notin misread => First(l, m)

(* "A slow read only widens that lane's interval, which can turn a win into *)
(* WITHIN MEASUREMENT RESOLUTION and never the reverse": nor does a read    *)
(* that fails give the other lane a win.                                    *)
NoReadGivesAWin ==
  Judged => \A l, m \in Contender : l # m /\ Wins(l, m) => First(l, m)
=============================================================================
