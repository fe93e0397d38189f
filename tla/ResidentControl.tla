---------------------------- MODULE ResidentControl ----------------------------
(***************************************************************************)
(* How the server commands a lane's resident runner in Round 5: events are *)
(* committed to an outbox (server/round5_control.py), published by a       *)
(* dispatcher in each server process to an SQS FIFO queue, and carried out *)
(* by the agent on the runner (runner/connection_spike_runner.py), whose   *)
(* answers the database admits only for the attempt the warm slot names    *)
(* (server/lifecycle.py).                                                  *)
(*                                                                         *)
(* One lane.  An attempt is a warm attempt token; it has two jobs, each a  *)
(* FIFO group: "warm", preloaded backstage, and "bout", staged, released   *)
(* and cancelled for the one bout that gets so far.  A server is one run   *)
(* of its process, a boot one run of the agent's.  The slot is as much of  *)
(* Round5Warm as the commands depend on.  A retry of a publication falls   *)
(* in the queue's deduplication window.                                    *)
(***************************************************************************)
EXTENDS Naturals, Sequences

CONSTANTS
  Server,          \* runs of the server
  None,
  MaxAttempt,      \* bound on attempts
  MaxBout,         \* and on those of them a bout may claim
  MaxBoot          \* bound on runs of the agent

Attempt == 1..MaxAttempt
Job == {"warm", "bout"} \X Attempt
Kind == {"preload", "stage", "release", "cancel"}
Event == Kind \X Attempt

(* A message in hand, and what the agent makes of it                       *)
Message == [event : Event, as : {"foreign", "cancelled", "terminal", "superseded", "current",
                                 "done", "left"}]

ASSUME ControlAssumption ==
  /\ None \notin Job /\ None \notin Event /\ None \notin Message
  /\ MaxAttempt \in Nat /\ MaxBout \in 0..MaxAttempt /\ MaxBoot \in Nat \ {0}

(* Round5ControlBinding.job_id                                             *)
JobOf(e) == <<IF e[1] = "preload" THEN "warm" ELSE "bout", e[2]>>

VARIABLES
  slot,            \* the attempt it names, and its claim
  row,             \* row[e]: not written, due, or done (published_at is set)
  bound,           \* bound[a]: the boot that READY, and a's bout, rest on, or 0
  ready,           \* ready[a]: the boot of the last agent_ready of a, or 0
  log              \* log[j]: what the agent has said of j

durable == <<slot, row, bound, ready, log>>

VARIABLES
  queue,           \* queue[j]: messages of j's group, oldest first
  posted           \* events the queue has taken

sqs == <<queue, posted>>

VARIABLES
  alive,           \* servers running
  doing,           \* doing[s]: what s's manager does with its claim
  mine,            \* mine[s]: the attempt of that claim, or 0
  clean,           \* servers that have seen nothing left of the bout
  sending          \* sending[s]: the attempt whose RELEASE s is sending, or 0

server == <<alive, doing, mine, clean, sending>>

VARIABLES
  boot, at,        \* the agent's run, and where it is
  phase,           \* how far the job at work is
  hand,            \* the message in hand and what is made of it
  stageFile,       \* the job in the stage file, and while up the job staged
  activeFile       \* the event in the active file, of the job at work

agent == <<boot, at, phase, hand, stageFile, activeFile>>

vars == <<slot, row, bound, ready, log, queue, posted, alive, doing, mine, clean, sending,
          boot, at, phase, hand, stageFile, activeFile>>

ControlTypeOK ==
  /\ slot \in [attempt : 1..(MaxAttempt + 1), claim : {"free", "held", "cleaning"}]
  /\ row \in [Event -> {"none", "due", "done"}]
  /\ bound \in [Attempt -> 0..MaxBoot] /\ ready \in [Attempt -> 0..MaxBoot]
  /\ log \in [Job -> SUBSET {"prepared", "settled", "quarantined"}]
  /\ queue \in [Job -> Seq(Kind)] /\ posted \subseteq Event
  /\ alive \subseteq Server /\ clean \subseteq Server
  /\ doing \in [Server -> {"idle", "arming", "waiting", "rung", "racing"}]
  /\ mine \in [Server -> 0..MaxAttempt]
  /\ sending \in [Server -> 0..MaxAttempt]
  /\ boot \in 1..MaxBoot /\ at \in {"down", "clear", "up", "leaving"}
  /\ phase \in {"none", "preparing", "prepared", "open", "ended", "quiet"}
  /\ hand \in Message \cup {None}
  /\ stageFile \in Job \cup {None} /\ activeFile \in Event \cup {None}

Init ==
  /\ slot = [attempt |-> 1, claim |-> "free"]
  /\ row = [e \in Event |-> "none"]
  /\ bound = [a \in Attempt |-> 0] /\ ready = [a \in Attempt |-> 0]
  /\ log = [j \in Job |-> {}]
  /\ queue = [j \in Job |-> <<>>] /\ posted = {}
  /\ alive = Server /\ clean = {}
  /\ doing = [s \in Server |-> "idle"] /\ mine = [s \in Server |-> 0]
  /\ sending = [s \in Server |-> 0]
  /\ boot = 1 /\ at = "down" /\ phase = "none" /\ hand = None
  /\ stageFile = None /\ activeFile = None

(* round5_runner_event_authorized_v1: the slot names the attempt.          *)
Admits(a) == slot.attempt = a

(* Something of a's bout was handed to the runner.                         *)
Handed(a) == row[<<"stage", a>>] # "none" \/ row[<<"release", a>>] # "none"

(* Mutant: an event of an attempt the slot has left passes for current.    *)
DispositionLenient(e) ==
  IF e[1] = "release" /\ row[<<"cancel", e[2]>>] # "none" THEN "cancelled"
  ELSE IF log[JobOf(e)] \cap {"settled", "quarantined"} # {} THEN "terminal"
  ELSE "current"

(* round5_runner_event_disposition_v1, for an event of the outbox          *)
Disposition(e) ==
  IF e[1] = "release" /\ row[<<"cancel", e[2]>>] # "none" THEN "cancelled"
  ELSE IF log[JobOf(e)] \cap {"settled", "quarantined"} # {} THEN "terminal"
  ELSE IF slot.attempt = e[2] THEN "current" ELSE "superseded"

(* The attempt the agent has a pool of workers for, and the one whose job  *)
(* is at work, or 0                                                        *)
Pool == IF at = "up" /\ phase # "quiet" /\ stageFile # None THEN stageFile[2] ELSE 0
Active == IF phase # "none" /\ activeFile # None THEN activeFile[2] ELSE 0

-----------------------------------------------------------------------------
(* The server: the warm slot and the manager of a bout.                    *)

Manager(s, d, a) ==
  /\ doing' = [doing EXCEPT ![s] = d]
  /\ mine' = [mine EXCEPT ![s] = a]

(* The process ends, and its gates with it; another is there to go on.     *)
Crash(s) ==
  /\ s \in alive /\ alive # {s}
  /\ alive' = alive \ {s} /\ clean' = clean \ {s}
  /\ Manager(s, "idle", 0)
  /\ sending' = [sending EXCEPT ![s] = 0]
  /\ UNCHANGED <<durable, sqs, agent>>

(* _enqueue: a control of the job, written once                            *)
Writes(e) == row' = [row EXCEPT ![e] = "due"]

Idle(s) == s \in alive /\ slot.claim = "free" /\ slot.attempt \in Attempt

(* stage_resident_generation                                               *)
Preload(s) ==
  /\ Idle(s)
  /\ row[<<"preload", slot.attempt>>] = "none"
  /\ Writes(<<"preload", slot.attempt>>)
  /\ UNCHANGED <<slot, bound, ready, log, sqs, server, agent>>

(* wait_agent_ready, and READY on its boot                                 *)
AgentReady(s) ==
  /\ Idle(s)
  /\ bound[slot.attempt] # ready[slot.attempt]
  /\ bound' = [bound EXCEPT ![slot.attempt] = ready[slot.attempt]]
  /\ UNCHANGED <<slot, row, ready, log, sqs, server, agent>>

Moves(a, c) == slot' = [attempt |-> a, claim |-> c]

(* READY is withdrawn, for a boot that is gone or any other reason, or the *)
(* warming given up: the next warming is another attempt.                  *)
Rotate(s) ==
  /\ Idle(s)
  /\ Moves(slot.attempt + 1, "free")
  /\ UNCHANGED <<row, bound, ready, log, sqs, server, agent>>

ClaimReady(s) ==
  /\ Idle(s) /\ doing[s] = "idle" /\ bound[slot.attempt] # 0 /\ slot.attempt <= MaxBout
  /\ Moves(slot.attempt, "held")
  /\ Manager(s, "arming", slot.attempt)
  /\ UNCHANGED <<row, bound, ready, log, sqs, alive, clean, sending, agent>>

Holds(s) == slot.claim = "held" /\ slot.attempt = mine[s]

(* return_unstarted: the start state was refused, nothing is staged.       *)
ReturnUnstarted(s) ==
  /\ doing[s] = "arming"
  /\ IF Holds(s) THEN Moves(mine[s], "free") ELSE UNCHANGED slot
  /\ Manager(s, "idle", 0)
  /\ UNCHANGED <<row, bound, ready, log, sqs, alive, clean, sending, agent>>

(* stage.  It asks nobody whether the claim is still its own.              *)
Stage(s) ==
  /\ doing[s] = "arming" /\ row[<<"stage", mine[s]>>] = "none"
  /\ Writes(<<"stage", mine[s]>>)
  /\ Manager(s, "waiting", mine[s])
  /\ UNCHANGED <<slot, bound, ready, log, sqs, alive, clean, sending, agent>>

(* accept_bell: RELEASE is committed with the bell's compare-and-swap, and *)
(* held until its gate is reached.                                         *)
Ring(s) ==
  /\ doing[s] = "waiting" /\ "prepared" \in log[<<"bout", mine[s]>>]
  /\ Holds(s)
  /\ Writes(<<"release", mine[s]>>)
  /\ Manager(s, "rung", mine[s])
  /\ UNCHANGED <<slot, bound, ready, log, sqs, alive, clean, sending, agent>>

(* allow_release                                                           *)
Open(s) ==
  /\ doing[s] = "rung"
  /\ Manager(s, "racing", mine[s])
  /\ UNCHANGED <<durable, sqs, alive, clean, sending, agent>>

(* The manager is done with its claim, for a result, a failure or a cancel:*)
(* it stops what would have staged or opened, and owes the cleanup.  Its   *)
(* gate, if it was opened, stays open until CANCEL is committed.           *)
EndBout(s) ==
  /\ doing[s] # "idle" /\ (doing[s] = "racing" => Holds(s))
  /\ IF Holds(s) THEN Moves(mine[s], "cleaning") ELSE UNCHANGED slot
  /\ IF doing[s] = "racing" /\ row[<<"release", mine[s]>>] = "due"
     THEN UNCHANGED <<doing, mine>> ELSE Manager(s, "idle", 0)
  /\ UNCHANGED <<row, bound, ready, log, sqs, alive, clean, sending, agent>>

(* Another process leads the slot and fences the claim: its manager may be *)
(* dead, or go on.                                                         *)
TakeOver(s) ==
  /\ s \in alive /\ slot.claim = "held" /\ ~Holds(s)
  /\ Moves(slot.attempt, "cleaning")
  /\ UNCHANGED <<row, bound, ready, log, sqs, server, agent>>

(* settle_registry_job, cancel: nothing to do when nothing was handed out; *)
(* otherwise CANCEL tombstones an unpublished RELEASE as it is committed.  *)
Cancel(s) ==
  LET a == slot.attempt IN
  /\ s \in alive /\ slot.claim = "cleaning"
  /\ Handed(a) /\ "settled" \notin log[<<"bout", a>>] /\ row[<<"cancel", a>>] = "none"
  /\ row' = [row EXCEPT ![<<"cancel", a>>] = "due",
                        ![<<"release", a>>] = IF @ = "due" THEN "done" ELSE @]
  /\ IF mine[s] = a THEN Manager(s, "idle", 0) ELSE UNCHANGED <<doing, mine>>
  /\ UNCHANGED <<slot, bound, ready, log, sqs, alive, clean, sending, agent>>

(* Mutant: the cancel is sent, and its settlement not awaited.             *)
ReconcileUnsettled(s) ==
  /\ s \in alive \ clean /\ slot.claim = "cleaning"
  /\ Handed(slot.attempt) => row[<<"cancel", slot.attempt>>] # "none"
  /\ clean' = clean \cup {s}
  /\ UNCHANGED <<durable, sqs, alive, doing, mine, sending, agent>>

(* reconcile_claim: the job has settled, or there is none...               *)
Reconcile(s) ==
  /\ s \in alive \ clean /\ slot.claim = "cleaning"
  /\ Handed(slot.attempt) => "settled" \in log[<<"bout", slot.attempt>>]
  /\ clean' = clean \cup {s}
  /\ UNCHANGED <<durable, sqs, alive, doing, mine, sending, agent>>

(* ...and finish_cleanup_and_rewarm goes on to the next attempt.           *)
Finish(s) ==
  /\ s \in clean
  /\ Moves(slot.attempt + 1, "free")
  /\ clean' = {}
  /\ UNCHANGED <<row, bound, ready, log, sqs, alive, doing, mine, sending, agent>>

-----------------------------------------------------------------------------
(* The outbox's dispatcher, one in each server, and its janitor.           *)

Posts(e) ==
  /\ posted' = posted \cup {e}
  /\ queue' = IF e \in posted THEN queue ELSE [queue EXCEPT ![JobOf(e)] = Append(@, e[1])]

Publishes(e) ==
  /\ Posts(e)
  /\ row' = [row EXCEPT ![e] = "done"]

(* publish_once: the rows due are sent in the order of their sequence, and *)
(* marked; if the mark fails, another publish_once sends them again.       *)
Publish(s, e) ==
  /\ s \in alive /\ sending[s] = 0
  /\ row[e] = "due" /\ e[1] # "release"
  /\ e[1] = "cancel" => row[<<"stage", e[2]>>] # "due"
  /\ Publishes(e) \/ (Posts(e) /\ UNCHANGED row)
  /\ UNCHANGED <<slot, bound, ready, log, server, agent>>

(* A RELEASE is sent only by a server that opened its gate, while no       *)
(* CANCEL is committed: which may change before it is sent.                *)
Dispatch(s) ==
  /\ doing[s] = "racing" /\ sending[s] = 0
  /\ row[<<"release", mine[s]>>] = "due" /\ row[<<"cancel", mine[s]>>] = "none"
  /\ sending' = [sending EXCEPT ![s] = mine[s]]
  /\ UNCHANGED <<durable, sqs, alive, doing, mine, clean, agent>>

Send(s) ==
  /\ sending[s] # 0
  /\ Publishes(<<"release", sending[s]>>)
  /\ sending' = [sending EXCEPT ![s] = 0]
  /\ UNCHANGED <<slot, bound, ready, log, alive, doing, mine, clean, agent>>

(* The mark, or the send itself, fails.                                    *)
SendFails(s) ==
  /\ sending[s] # 0
  /\ Posts(<<"release", sending[s]>>) \/ UNCHANGED sqs
  /\ sending' = [sending EXCEPT ![s] = 0]
  /\ UNCHANGED <<durable, alive, doing, mine, clean, agent>>

(* A gate of no more use is forgotten: another server's CANCEL or janitor  *)
(* has revoked the RELEASE, or fenced the bout.                            *)
Forget(s) ==
  /\ doing[s] = "racing" /\ ~Holds(s) /\ row[<<"release", mine[s]>>] = "done"
  /\ Manager(s, "idle", 0)
  /\ UNCHANGED <<durable, sqs, alive, clean, sending, agent>>

(* _held_releases                                                          *)
Protects(s, a) == mine[s] = a /\ doing[s] \in {"rung", "racing"}

(* expire_orphaned_releases, of the releases this process does not protect *)
Expire(s, a) ==
  /\ s \in alive /\ row[<<"release", a>>] = "due" /\ ~Protects(s, a)
  /\ row' = [row EXCEPT ![<<"release", a>>] = "done"]
  /\ UNCHANGED <<slot, bound, ready, log, sqs, server, agent>>

-----------------------------------------------------------------------------
(* The agent.                                                              *)

Says(j, what) == log' = [log EXCEPT ![j] = @ \cup {what}]

(* A message that was received is kept for a later receive, or has been    *)
(* received as often as it may be and goes to the dead letters.            *)
Returned ==
  \/ UNCHANGED queue
  \/ hand # None /\ queue' = [queue EXCEPT ![JobOf(hand.event)] = Tail(@)]

(* A run ends, with its workers and all it knew, and systemd starts        *)
(* another.                                                                *)
Reboots ==
  /\ boot' = boot + 1 /\ at' = "down" /\ phase' = "none" /\ hand' = None

AgentCrash ==
  /\ boot < MaxBoot
  /\ Reboots
  /\ Returned
  /\ UNCHANGED <<durable, posted, server, stageFile, activeFile>>

(* Started with an active file: the job its event belongs to is settled as *)
(* failed, or as cancelled, if the database still admits it...             *)
RecoverJob ==
  /\ at = "down" /\ activeFile # None
  /\ LET j == JobOf(activeFile) IN
       IF Disposition(activeFile) \in {"current", "cancelled"} /\ Admits(j[2])
       THEN Says(j, "settled") ELSE UNCHANGED log
  /\ at' = "clear"
  /\ UNCHANGED <<slot, row, bound, ready, sqs, server, boot, phase, hand, stageFile,
                 activeFile>>

(* ...and then the files are removed.                                      *)
RemoveFiles ==
  /\ at = "clear"
  /\ stageFile' = None /\ activeFile' = None
  /\ at' = "up"
  /\ UNCHANGED <<durable, sqs, server, boot, phase, hand>>

(* Started with a stage file: the current attempt's preload is warmed      *)
(* again, and anything else dropped; a bout is bound to an earlier boot.   *)
RecoverStage ==
  /\ at = "down" /\ activeFile = None
  /\ IF /\ stageFile # None /\ stageFile[1] = "warm"
        /\ Disposition(<<"preload", stageFile[2]>>) = "current"
     THEN ready' = [ready EXCEPT ![stageFile[2]] = boot] /\ UNCHANGED stageFile
     ELSE stageFile' = None /\ UNCHANGED ready
  /\ at' = "up"
  /\ UNCHANGED <<slot, row, bound, log, sqs, server, boot, phase, hand, activeFile>>

(* require_process_binding, then the disposition                           *)
Classifies(e) ==
  IF e[1] # "preload" /\ bound[e[2]] # boot THEN "foreign" ELSE Disposition(e)

(* The oldest message of a group is received and classified.               *)
Receive(j) ==
  LET e == <<Head(queue[j]), j[2]>> IN
  /\ at = "up" /\ hand = None /\ queue[j] # <<>> /\ phase # "quiet"
  /\ hand' = [event |-> e, as |-> Classifies(e)]
  /\ UNCHANGED <<durable, sqs, server, boot, at, phase, stageFile, activeFile>>

(* It is deleted once it is handled...                                     *)
Acknowledge ==
  /\ hand # None /\ hand.as = "done"
  /\ queue' = [queue EXCEPT ![JobOf(hand.event)] = Tail(@)]
  /\ hand' = None
  /\ UNCHANGED <<durable, posted, server, boot, at, phase, stageFile, activeFile>>

(* ...and otherwise not, as when the database could not be reached.        *)
Leave ==
  /\ hand # None /\ hand.as # "done"
  /\ Returned
  /\ hand' = None
  /\ UNCHANGED <<durable, posted, server, boot, at, phase, stageFile, activeFile>>

Handled == hand' = [hand EXCEPT !.as = "done"]

(* A RELEASE that its CANCEL has overtaken                                 *)
Revoked ==
  /\ hand # None /\ hand.as = "cancelled"
  /\ Handled
  /\ UNCHANGED <<durable, sqs, server, boot, at, phase, stageFile, activeFile>>

(* discard_residue: only what belongs to this binding                      *)
DiscardsResidue(j) ==
  /\ IF j = <<"bout", Active>> THEN phase' = "none" /\ activeFile' = None
     ELSE UNCHANGED <<phase, activeFile>>
  /\ stageFile' = IF stageFile = j THEN None ELSE stageFile

Discard ==
  /\ hand # None /\ hand.as \in {"terminal", "superseded"}
  /\ DiscardsResidue(JobOf(hand.event))
  /\ Handled
  /\ UNCHANGED <<durable, sqs, server, boot, at>>

(* A message this run cannot obey; the answer may be refused.              *)
Quarantines(j) ==
  /\ IF Admits(j[2]) THEN Says(j, "quarantined") /\ Handled
     ELSE hand' = [hand EXCEPT !.as = "left"] /\ UNCHANGED log
  /\ UNCHANGED <<ready, phase, stageFile, activeFile>>

Foreign ==
  /\ hand # None /\ hand.as = "foreign"
  /\ Quarantines(JobOf(hand.event))
  /\ UNCHANGED <<slot, row, bound, sqs, server, boot, at>>

(* Workers for the attempt, and agent_ready, which may be refused          *)
ObeyPreload(a) ==
  IF Active # 0 THEN Quarantines(<<"warm", a>>)
  ELSE /\ IF Admits(a)
          THEN stageFile' = <<"warm", a>> /\ ready' = [ready EXCEPT ![a] = boot]
          ELSE stageFile' = None /\ UNCHANGED ready
       /\ Handled
       /\ UNCHANGED <<log, phase, activeFile>>

ObeyStage(a) ==
  IF Pool # a THEN Quarantines(<<"bout", a>>)
  ELSE /\ stageFile' = <<"bout", a>>
       /\ phase' = "preparing" /\ activeFile' = <<"stage", a>>
       /\ Handled
       /\ UNCHANGED <<log, ready>>

(* A task that has just ended may or may not have been prepared.           *)
ObeyRelease(a) ==
  \/ /\ stageFile # <<"bout", a>> \/ Active # a \/ phase \in {"preparing", "ended"}
     /\ Quarantines(<<"bout", a>>)
  \/ /\ stageFile = <<"bout", a>> /\ Active = a /\ phase \in {"prepared", "ended"}
     /\ IF Admits(a)
        THEN /\ phase' = IF phase = "prepared" THEN "open" ELSE phase
             /\ activeFile' = <<"release", a>>
             /\ UNCHANGED stageFile
        ELSE DiscardsResidue(<<"bout", a>>)
     /\ Handled
     /\ UNCHANGED <<log, ready>>

ObeyCancel(a) ==
  IF Active # a THEN Quarantines(<<"bout", a>>)
  ELSE /\ phase' = "ended"
       /\ Handled
       /\ UNCHANGED <<log, ready, stageFile, activeFile>>

Obey ==
  LET k == hand.event[1]
      a == hand.event[2] IN
  /\ hand # None /\ hand.as = "current"
  /\ \/ k = "preload" /\ ObeyPreload(a)
     \/ k = "stage" /\ ObeyStage(a)
     \/ k = "release" /\ ObeyRelease(a)
     \/ k = "cancel" /\ ObeyCancel(a)
  /\ UNCHANGED <<slot, row, bound, sqs, server, boot, at>>

(* The job's task has its workers ready, and says so, or fails.            *)
Prepare ==
  /\ at = "up" /\ phase = "preparing"
  /\ IF Admits(Active) /\ Pool = Active
     THEN Says(<<"bout", Active>>, "prepared") /\ phase' = "prepared"
     ELSE phase' = "ended" /\ UNCHANGED log
  /\ UNCHANGED <<slot, row, bound, ready, sqs, server, boot, at, hand, stageFile,
                 activeFile>>

(* It ends with a result, a failure, or for want of its workers.           *)
TaskEnds ==
  /\ at = "up" /\ phase \in {"preparing", "prepared", "open"}
  /\ phase' = "ended"
  /\ UNCHANGED <<durable, sqs, server, boot, at, hand, stageFile, activeFile>>

(* Mutant: the job is settled before its workers are stopped.              *)
StopPoolLast ==
  /\ at = "up" /\ phase = "ended" /\ hand = None /\ Admits(Active)
  /\ IF "settled" \in log[<<"bout", Active>>] THEN phase' = "quiet" /\ UNCHANGED log
     ELSE Says(<<"bout", Active>>, "settled") /\ UNCHANGED phase
  /\ UNCHANGED <<slot, row, bound, ready, sqs, server, boot, at, hand, stageFile,
                 activeFile>>

(* The loop finds it ended: the outcome is said and the workers stopped,   *)
(* the job is settled, and the files are removed as the run ends; refused, *)
(* it goes straight to the end.                                            *)
StopPool ==
  /\ at = "up" /\ phase = "ended" /\ hand = None
  /\ IF Admits(Active) THEN phase' = "quiet" /\ UNCHANGED at
     ELSE at' = "leaving" /\ UNCHANGED phase
  /\ UNCHANGED <<durable, sqs, server, boot, hand, stageFile, activeFile>>

Settle ==
  /\ at = "up" /\ phase = "quiet"
  /\ IF Admits(Active) THEN Says(<<"bout", Active>>, "settled") ELSE UNCHANGED log
  /\ at' = "leaving"
  /\ UNCHANGED <<slot, row, bound, ready, sqs, server, boot, phase, hand, stageFile,
                 activeFile>>

Exit ==
  /\ at = "leaving" /\ boot < MaxBoot
  /\ Reboots
  /\ stageFile' = None /\ activeFile' = None
  /\ UNCHANGED <<durable, sqs, server>>

(* The heartbeat of an attempt the slot no longer names is refused, and    *)
(* its workers are taken down.                                             *)
Heartbeat ==
  /\ at = "up" /\ hand = None /\ Pool # 0 /\ ~Admits(Pool)
  /\ stageFile' = None
  /\ UNCHANGED <<durable, sqs, server, boot, at, phase, hand, activeFile>>

-----------------------------------------------------------------------------
Manages(s) ==
  \/ Preload(s) \/ AgentReady(s) \/ Rotate(s) \/ ClaimReady(s) \/ ReturnUnstarted(s)
  \/ Stage(s) \/ Ring(s) \/ Open(s) \/ EndBout(s) \/ TakeOver(s)
  \/ Cancel(s) \/ Reconcile(s) \/ Finish(s)

Dispatcher(s) ==
  \/ \E e \in Event : Publish(s, e)
  \/ \E a \in Attempt : Expire(s, a)
  \/ Dispatch(s) \/ Send(s) \/ SendFails(s) \/ Forget(s)

Agent ==
  \/ RecoverJob \/ RemoveFiles \/ RecoverStage
  \/ \E j \in Job : Receive(j)
  \/ Acknowledge \/ Leave \/ Revoked \/ Discard \/ Foreign \/ Obey
  \/ Prepare \/ TaskEnds \/ StopPool \/ Settle \/ Exit \/ Heartbeat

Next ==
  \/ \E s \in Server : Crash(s) \/ Manages(s) \/ Dispatcher(s)
  \/ AgentCrash \/ Agent

Spec == Init /\ [][Next]_vars

-----------------------------------------------------------------------------
(* A job that was said to be settled has no workers: the server takes its  *)
(* databases down on the word of it.                                       *)
SettledIsQuiet ==
  Active # 0 /\ Pool = Active => "settled" \notin log[<<"bout", Active>>]

(* Workers released for a bout run only while the slot names its attempt.  *)
OpenIsOwned == phase = "open" /\ Pool = Active => slot.attempt = Active

(* While the run of the agent that READY or a claim rests on goes on, its  *)
(* pool stands, up to the end of the bout it was lent to.                  *)
ReadyHasPool ==
  /\ slot.attempt \in Attempt /\ slot.claim # "cleaning"
  /\ bound[slot.attempt] = boot /\ at = "up"
  => Pool = slot.attempt \/ phase # "none"

(* No message of another attempt takes down the pool of the slot's.        *)
CurrentPoolStands ==
  [][Pool # 0 /\ Pool = slot.attempt /\ Pool' # Pool /\ boot' = boot =>
       phase # "none" \/ (hand # None /\ hand.event[2] = Pool)]_vars

(* A RELEASE that a live server protects is not expired by another's       *)
(* janitor: it is published, or its CANCEL has revoked it.                 *)
HeldReleaseSurvives ==
  \A s \in Server : \A a \in Attempt :
    Protects(s, a) /\ row[<<"release", a>>] = "done" =>
      <<"release", a>> \in posted \/ row[<<"cancel", a>>] # "none"

(* A bout whose cleanup is owed can be settled: its job is not quarantined *)
(* with no run of it left to settle.                                       *)
CleanupCanSettle ==
  \A a \in Attempt :
    /\ row[<<"cancel", a>>] # "none" /\ slot.attempt = a
    /\ "quarantined" \in log[<<"bout", a>>]
    /\ Active # a /\ (activeFile # None => activeFile[2] # a)
    => "settled" \in log[<<"bout", a>>]
=============================================================================
