------------------------------ MODULE RingHolder ------------------------------
(***************************************************************************)
(* The holder of a ring: what one bout session of the run manager does     *)
(* with the coordination lease, from the claim to the end of its release,  *)
(* and its heartbeat beside it (server/manager.py).  Every step is a step  *)
(* of BoutLease, or leaves the store and its calls alone.                  *)
(*                                                                         *)
(* A local clock counts the same ticks as the coordinator's: offsets never *)
(* enter, because only durations are compared.  Timers are prompt: the     *)
(* clock does not move past an instant at which a heartbeat has to act.    *)
(*                                                                         *)
(* stopping and the stages that Working names are the record's ring work;  *)
(* an "expiring" or "retrying" card has none.                              *)
(***************************************************************************)
EXTENDS BoutLease

CONSTANTS
  Replica,      \* Replica[s]: the process session s lives in
  Heartbeat,    \* _lease_heartbeat, in ticks
  Main, Beat,   \* the two slots: the bout's own calls, its heartbeat's
  Checking, Armed, RunCommitted

ASSUME SlotAssumption == Main # Beat /\ Slot = {Main, Beat}
ASSUME PhasesAssumption ==
  /\ Phase = {Checking, Armed, RunCommitted}
  /\ Checking # Armed /\ Armed # RunCommitted /\ Checking # RunCommitted
  /\ ClaimPhase = {Checking}
  /\ Moves = {<<Checking, Armed>>, <<Armed, RunCommitted>>}
(* Both TTLs are at least three heartbeats, so _heartbeat_cadence answers  *)
(* one heartbeat both for the interval and for the margin.                 *)
ASSUME CadenceAssumption ==
  /\ Heartbeat \in Nat \ {0}
  /\ Ttl[Checking] >= 3 * Heartbeat /\ Ttl[RunCommitted] >= 3 * Heartbeat

Stage ==
  {"idle", "claiming", "checking", "arming", "armed", "ringing", "converging",
   "running", "settling", "probing", "retrying", "reprobing", "expiring"}

Record ==
  [stage: Stage,
   stopping: BOOLEAN,   \* work of a lost ring that has not ended yet
   lost: BOOLEAN,       \* ring_lease_lost
   beat: {"off", "on", "losing"},
   wake: Nat,           \* when the heartbeat's sleep ends
   renewed: Nat,        \* when its last renewal was sent
   sent: Nat,           \* when the last claim or transition was sent
   proof: Nat,          \* lease_proof: the row cannot lapse before it
   late: BOOLEAN]       \* history: its claim was answered after its proof

Blank ==
  [stage |-> "idle", stopping |-> FALSE, lost |-> FALSE, beat |-> "off",
   wake |-> 0, renewed |-> 0, sent |-> 0, proof |-> 0, late |-> FALSE]

VARIABLE rec             \* rec[s]: the SessionRecord of s

holderVars == <<now, token, lease, past, minted, call, stray, copy, faults, rec>>

M(s) == <<s, Main>>
B(s) == <<s, Beat>>

Quiet(c) == call[c] = NoCall
Answered(c, kind) == call[c] # NoCall /\ call[c].at = "answered" /\ call[c].reply.kind = kind
Row(s) == call[M(s)].reply.lease

Keep(s) == copy'[s] = copy[s]
Drop(s) == copy'[s] = Vacant
Adopt(s) == copy'[s] = Row(s)

At(s, stages) == rec[s].stage \in stages
Become(s, r) == rec' = [rec EXCEPT ![s] = r]
Goto(s, to) == Become(s, [rec[s] EXCEPT !.stage = to])

-----------------------------------------------------------------------------
(* Helpers of the manager.                                                 *)

SilentR(r) == [r EXCEPT !.beat = "off", !.wake = 0, !.renewed = 0]
BeatingR(r) == [r EXCEPT !.beat = "on", !.wake = now + Heartbeat]

(* _start_lease_heartbeat.  A renewal the last heartbeat left in flight    *)
(* has been abandoned first.                                               *)
CanBeat(s) == Quiet(B(s))

Over(s, lostRing) == [Blank EXCEPT !.lost = lostRing]

(* Mutant: the proof counted from the answer instead of the request.       *)
ProvenFromAnswer(sent, p) == now + Ttl[p]

Proven(sent, p) == sent + Ttl[p]

(* Mutant: a heartbeat that waits for the proof itself to run out.         *)
DueTooLate(until) == now >= until + Heartbeat

(* The heartbeat gives a lease up one margin before its proof runs out.    *)
Due(until) == now + Heartbeat >= until

(* Mutant: the bell's commit counts whenever it is answered.               *)
NeverLapsed(until) == until < 0

BellProofLapsed(until) == now + Heartbeat >= until

Working(s) ==
  rec[s].stopping
    \/ At(s, {"checking", "arming", "ringing", "converging", "running",
              "settling", "probing"})

(* _unstopped_ring_work: before a claim, then again once it won the row.   *)
Unstopped(s, claimed) ==
  \E o \in Session :
    /\ Replica[o] = Replica[s] /\ Working(o)
    /\ rec[o].lost \/ (claimed /\ o # s /\ copy[o] # Vacant)

ExpiredOnItsOwn(s) == copy[s].phase = Armed /\ now >= rec[s].proof

Exact(a, b) == SameAuthority(a, b) /\ a.phase = b.phase

-----------------------------------------------------------------------------
HolderTypeOK == TypeOK /\ rec \in [Session -> Record]

HolderInit == Init /\ rec = [s \in Session |-> Blank]

(* The heartbeats that must act before the clock moves.                    *)
Pressing(s) ==
  \/ rec[s].beat = "losing"
  \/ rec[s].beat = "on" /\ Quiet(B(s)) /\ now >= rec[s].wake
  \/ rec[s].beat = "on" /\ ~Quiet(B(s)) /\ Due(rec[s].proof)

HolderTick == Tick /\ (\A s \in Session : ~Pressing(s)) /\ UNCHANGED rec

(* The claim of a card: start_arm up to the arm task it creates.           *)
StartClaim(s) ==
  /\ At(s, {"idle"})
  /\ ~Unstopped(s, FALSE)
  /\ Claim(M(s), 0, Checking)
  /\ Become(s, [rec[s] EXCEPT !.stage = "claiming", !.sent = now])

ClaimWon(s) ==
  /\ At(s, {"claiming"})
  /\ Answered(M(s), "granted") /\ Return(M(s))
  /\ LET won == [rec[s] EXCEPT !.proof = Proven(rec[s].sent, Checking)] IN
     IF Unstopped(s, TRUE)
       THEN Become(s, [won EXCEPT !.stage = "retrying"])
       ELSE /\ CanBeat(s)
            /\ Become(s, BeatingR([won EXCEPT
                 !.stage = "checking", !.lost = FALSE, !.late = now >= won.proof]))

ClaimRefused(s) ==
  /\ At(s, {"claiming"})
  /\ \/ Answered(M(s), "refused") /\ Return(M(s)) /\ Keep(s)
     \/ GiveUp(M(s))
  /\ Become(s, [rec[s] EXCEPT !.stage = "idle", !.sent = 0])

(* _mark_bout_armed: the heartbeat stops, then the row moves to armed.     *)
StartArming(s) ==
  /\ At(s, {"checking"})
  /\ Become(s, SilentR([rec[s] EXCEPT !.stage = "arming"]))
  /\ UNCHANGED vars

SendArm(s) ==
  /\ At(s, {"arming"})
  /\ Transition(M(s), Checking, Armed)
  /\ Become(s, [rec[s] EXCEPT !.sent = now])

ArmCommitted(s) ==
  /\ At(s, {"arming"})
  /\ Answered(M(s), "granted") /\ Return(M(s))
  /\ Become(s, [rec[s] EXCEPT
       !.stage = "armed", !.proof = Proven(rec[s].sent, Armed), !.late = FALSE])

(* A check that fails, or an arm that was refused or never answered, goes  *)
(* through _fail to _settle_terminal_release, whose heartbeat renews the   *)
(* fence while its release is retried.                                     *)
CheckFails(s) ==
  /\ At(s, {"checking"})
  /\ Goto(s, "settling")
  /\ UNCHANGED vars

ArmFails(s) ==
  /\ At(s, {"arming"}) /\ CanBeat(s)
  /\ \/ Answered(M(s), "refused") /\ Return(M(s)) /\ Keep(s)
     \/ GiveUp(M(s))
  /\ Become(s, BeatingR([rec[s] EXCEPT !.stage = "settling"]))

(* The owner cancels the armed card, or its window expires.                *)
AbandonArmed(s) ==
  /\ At(s, {"armed"})
  /\ Goto(s, "retrying")
  /\ UNCHANGED vars

(* The bell: _commit_bout, armed to run_committed.                         *)
RingBell(s) ==
  /\ At(s, {"armed"})
  /\ Transition(M(s), Armed, RunCommitted)
  /\ Become(s, [rec[s] EXCEPT !.stage = "ringing", !.sent = now])

BellCommitted(s) ==
  /\ At(s, {"ringing"}) /\ CanBeat(s)
  /\ Answered(M(s), "granted") /\ Return(M(s))
  /\ LET until == Proven(rec[s].sent, RunCommitted) IN
     Become(s, BeatingR([rec[s] EXCEPT
       !.proof = until,
       !.stage = IF BellProofLapsed(until) THEN "settling" ELSE "running"]))

BellUnconfirmed(s) ==
  /\ At(s, {"ringing"})
  /\ \/ Answered(M(s), "refused") /\ Return(M(s)) /\ Keep(s)
     \/ GiveUp(M(s))
  /\ Goto(s, "converging")

(* _converge_cancelled_bell_handoff asks the store what became of it.      *)
AskHolder(s) ==
  /\ At(s, {"converging"})
  /\ Current(M(s))
  /\ UNCHANGED rec

Converged(s) ==
  /\ At(s, {"converging"})
  /\ Answered(M(s), "row") /\ Return(M(s))
  /\ \/ /\ SameAuthority(Row(s), copy[s]) /\ Row(s).phase = RunCommitted
        /\ Adopt(s) /\ CanBeat(s)
        /\ Become(s, BeatingR([rec[s] EXCEPT
             !.stage = "settling", !.proof = Proven(rec[s].sent, RunCommitted)]))
     \/ Exact(Row(s), copy[s]) /\ Keep(s) /\ Goto(s, "settling")
     \/ ~SameAuthority(Row(s), copy[s]) /\ Drop(s) /\ Become(s, Over(s, TRUE))

ConvergenceFails(s) ==
  /\ At(s, {"converging"})
  /\ GiveUp(M(s))
  /\ \E to \in {"converging", "expiring"} : Goto(s, to)

(* _forget_fence_at_expiry: an unconfirmed bell's fence is only watched.   *)
WatchFence(s) ==
  /\ At(s, {"expiring"})
  /\ Current(M(s))
  /\ UNCHANGED rec

FenceSeen(s) ==
  /\ At(s, {"expiring"})
  /\ \/ GiveUp(M(s)) /\ UNCHANGED rec
     \/ /\ Answered(M(s), "row") /\ Return(M(s))
        /\ IF SameAuthority(Row(s), copy[s])
             THEN Keep(s) /\ UNCHANGED rec
             ELSE Drop(s) /\ Become(s, Over(s, rec[s].lost))

-----------------------------------------------------------------------------
(* The release of a finished bout.  "settling" and "probing" are the       *)
(* bounded settle, awaited by the bout's own task; "retrying" and          *)
(* "reprobing" the background one, which never renews.                     *)

Finish(s) ==
  /\ At(s, {"running"})
  /\ Goto(s, "settling")
  /\ UNCHANGED vars

ReleaseOnce(s) ==
  /\ At(s, {"settling", "retrying"})
  /\ Release(M(s))
  /\ UNCHANGED rec

ReleaseConfirmed(s) ==
  /\ At(s, {"settling", "retrying"})
  /\ Answered(M(s), "released") /\ Return(M(s))
  /\ Become(s, Over(s, rec[s].lost))

ReleaseUnconfirmed(s) ==
  /\ At(s, {"settling", "retrying"})
  /\ \/ Answered(M(s), "refused") /\ Return(M(s)) /\ Keep(s)
     \/ GiveUp(M(s))
  /\ Goto(s, IF At(s, {"settling"}) THEN "probing" ELSE "reprobing")

Probe(s) ==
  /\ At(s, {"probing", "reprobing"})
  /\ Current(M(s))
  /\ UNCHANGED rec

Again(s) == IF At(s, {"probing"}) THEN "settling" ELSE "retrying"

(* The row answers the probe: gone, still ours, ours but already armed     *)
(* (the arm committed and only its answer was lost), or another's.         *)
ProbeGone(s) ==
  Row(s) = Vacant /\ Drop(s) /\ Become(s, Over(s, rec[s].lost \/ ~ExpiredOnItsOwn(s)))

ProbeOurs(s) == Exact(Row(s), copy[s]) /\ Keep(s) /\ Goto(s, Again(s))

ProbeArmed(s) ==
  /\ SameAuthority(Row(s), copy[s])
  /\ copy[s].phase = Checking /\ Row(s).phase = Armed
  /\ Adopt(s)
  /\ Become(s, [rec[s] EXCEPT !.stage = Again(s), !.proof = Proven(rec[s].sent, Armed)])

ProbeTaken(s) ==
  /\ Row(s) # Vacant /\ ~Exact(Row(s), copy[s])
  /\ ~(SameAuthority(Row(s), copy[s]) /\ copy[s].phase = Checking /\ Row(s).phase = Armed)
  /\ Drop(s) /\ Become(s, Over(s, TRUE))

Probed(s) ==
  /\ At(s, {"probing", "reprobing"})
  /\ \/ GiveUp(M(s)) /\ Goto(s, Again(s))
     \/ /\ Answered(M(s), "row") /\ Return(M(s))
        /\ ProbeGone(s) \/ ProbeOurs(s) \/ ProbeArmed(s) \/ ProbeTaken(s)

(* The settle's deadline passed; then the lease's own end did.             *)
SettleUnknown(s) ==
  /\ At(s, {"settling", "probing"}) /\ Quiet(M(s))
  /\ Become(s, SilentR([rec[s] EXCEPT !.stage = "retrying"]))
  /\ UNCHANGED vars

RetryEnds(s) ==
  /\ At(s, {"retrying", "reprobing"}) /\ Quiet(M(s))
  /\ copy[s] # Vacant /\ now >= copy[s].expires
  /\ Forget(s)
  /\ Become(s, Over(s, TRUE))

-----------------------------------------------------------------------------
(* The heartbeat: _heartbeat_lease and _renew_within.                      *)

(* When a heartbeat that got no renewal wakes again: at the deadline at    *)
(* the latest.                                                             *)
Pause(until) ==
  CASE Due(until) -> now
    [] ~Due(until) /\ Due(until - Heartbeat) -> until - Heartbeat
    [] OTHER -> now + Heartbeat

Awake(s) == rec[s].beat = "on" /\ Quiet(B(s)) /\ now >= rec[s].wake

BeatRenews(s) ==
  /\ Awake(s)
  /\ copy[s] # Vacant /\ copy[s].phase # Armed
  /\ ~Due(rec[s].proof)
  /\ Renew(B(s))
  /\ Become(s, [rec[s] EXCEPT !.renewed = now])

BeatEnds(s) ==
  /\ Awake(s)
  /\ copy[s] = Vacant \/ copy[s].phase = Armed
  /\ Become(s, SilentR(rec[s]))
  /\ UNCHANGED vars

BeatTooLate(s) ==
  /\ Awake(s)
  /\ copy[s] # Vacant /\ copy[s].phase # Armed
  /\ Due(rec[s].proof)
  /\ Become(s, [rec[s] EXCEPT !.beat = "losing"])
  /\ UNCHANGED vars

BeatAnswered(s) ==
  /\ rec[s].beat = "on" /\ Return(B(s))
  /\ LET q == call[B(s)].request
         ours == Asked(q, copy[s])
     IN  \/ /\ Answered(B(s), "granted")
            /\ Become(s, [rec[s] EXCEPT
                 !.wake = now + Heartbeat,
                 !.proof = IF ours THEN Proven(rec[s].renewed, q.to) ELSE @])
         \/ /\ Answered(B(s), "refused") /\ Keep(s)
            /\ Become(s, [rec[s] EXCEPT
                 !.beat = IF ours THEN "losing" ELSE @, !.wake = Pause(rec[s].proof)])

(* The renewal is abandoned at the deadline, or both its attempts failed   *)
(* before it.                                                              *)
BeatUnanswered(s) ==
  /\ rec[s].beat = "on" /\ GiveUp(B(s))
  /\ Become(s,
       IF Due(rec[s].proof) THEN [rec[s] EXCEPT !.beat = "losing"]
       ELSE [rec[s] EXCEPT !.wake = Pause(rec[s].proof)])

(* _handle_lost_lease.  A settle that runs owns the loss instead.          *)
Lose(s) ==
  /\ rec[s].beat = "losing"
  /\ IF At(s, {"checking", "running"})
       THEN Forget(s) /\ Become(s, [Over(s, TRUE) EXCEPT
                             !.stopping = TRUE, !.late = rec[s].late])
       ELSE Become(s, SilentR(rec[s])) /\ UNCHANGED vars

(* Work that was told to stop ends, in its own time.                       *)
WorkStops(s) ==
  /\ rec[s].stopping
  /\ Become(s, [rec[s] EXCEPT !.stopping = FALSE, !.late = FALSE])
  /\ UNCHANGED vars

(* The renewal a stopped heartbeat left in flight is cancelled.            *)
RenewalDropped(s) == rec[s].beat = "off" /\ GiveUp(B(s)) /\ UNCHANGED rec

(* The connection and the coordinator do their part.                       *)
Wire ==
  /\ \/ \E c \in Caller : Serve(c)
     \/ \E c \in Caller : (c[2] = Main \/ rec[c[1]].beat = "on") /\ Resend(c)
     \/ \E q \in stray : ServeStray(q)
  /\ UNCHANGED rec

-----------------------------------------------------------------------------
Bout(s) ==
  \/ StartClaim(s) \/ ClaimWon(s) \/ ClaimRefused(s)
  \/ StartArming(s) \/ SendArm(s) \/ ArmCommitted(s) \/ ArmFails(s) \/ CheckFails(s)
  \/ AbandonArmed(s) \/ RingBell(s) \/ BellCommitted(s) \/ BellUnconfirmed(s)
  \/ AskHolder(s) \/ Converged(s) \/ ConvergenceFails(s)
  \/ WatchFence(s) \/ FenceSeen(s) \/ Finish(s) \/ WorkStops(s)

Settle(s) ==
  \/ ReleaseOnce(s) \/ ReleaseConfirmed(s) \/ ReleaseUnconfirmed(s)
  \/ Probe(s) \/ Probed(s) \/ SettleUnknown(s) \/ RetryEnds(s)

Heart(s) ==
  \/ BeatRenews(s) \/ BeatEnds(s) \/ BeatTooLate(s) \/ BeatAnswered(s)
  \/ BeatUnanswered(s) \/ Lose(s) \/ RenewalDropped(s)

HolderNext ==
  \/ HolderTick
  \/ Wire
  \/ \E s \in Session : Bout(s) \/ Settle(s) \/ Heart(s)

HolderSpec == HolderInit /\ [][HolderNext]_holderVars

-----------------------------------------------------------------------------
(* A lease whose proof has not run out is not overtaken: whatever the row  *)
(* is now, it is that lease's own tenure, or this holder released it or    *)
(* moved its phase on (_proven_until).                                     *)
ProofHolds ==
  \A s \in Session :
    copy[s] # Vacant /\ now < rec[s].proof =>
      \/ LastRow(copy[s].token) = Vacant
      \/ LastRow(copy[s].token).phase # copy[s].phase
      \/ Live /\ token = copy[s].token /\ lease.expires >= rec[s].proof

(* A run acts only while its row is live and its own: it is started by no  *)
(* late bell, and stopped before the row can lapse under it.               *)
RunIsFenced ==
  \A s \in Session : At(s, {"running"}) => Live /\ SameAuthority(lease, copy[s])

(* On one replica no card is checked or run beside the unfinished work of  *)
(* another that held the same ring, however that one lost it.              *)
Acting(s) == At(s, {"checking", "running"})

OneWorkPerReplica ==
  \A a, b \in Session :
    a # b /\ Replica[a] = Replica[b] /\ Acting(a) => ~rec[b].stopping /\ ~Acting(b)

(* The same, between cards whose claims were answered in time.             *)
OneTimelyWorkPerReplica ==
  \A a, b \in Session :
    a # b /\ Replica[a] = Replica[b] /\ Acting(a) /\ ~rec[a].late /\ ~rec[b].late =>
      ~rec[b].stopping /\ ~Acting(b)
=============================================================================
