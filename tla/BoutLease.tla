------------------------------ MODULE BoutLease ------------------------------
(***************************************************************************)
(* The durable lease of one ring: the row of the coordination table, the   *)
(* statements that compare and set it, and the client that carries them    *)
(* over a connection that may die before or after the statement ran        *)
(* (server/coordination.py, BoutLeaseStore and its two implementations).   *)
(*                                                                         *)
(* The row's clock is the coordinator's clock_timestamp(), here `now`, in  *)
(* whole ticks.  owner_subject is fixed by the session, so the columns     *)
(* that only describe the holder are left out.  The TTL a caller passes is *)
(* a function of the phase it asks for.                                    *)
(***************************************************************************)
EXTENDS Naturals, Sequences, FiniteSets

CONSTANTS
  Session,      \* callers, one per bout session, on any replica
  Slot,         \* concurrent calls of one session (its handler, its heartbeat)
  Phase,        \* the lease phases
  ClaimPhase,   \* those a claim opens
  Moves,        \* the pairs <<expected_phase, phase>> of the transitions made
  Ttl,          \* the TTL a caller passes with each phase
  Vacant,       \* the lease columns when they are NULL
  NoCall,       \* a slot with no call in progress
  MaxNow,       \* bound: the clock stops here
  MaxClaims,    \* bound: claim calls made
  MaxFaults     \* bound: attempts that lose their connection or their caller

Lease ==
  [id: Nat, token: Nat, session: Session, phase: Phase, expires: Nat]

ASSUME PhaseAssumption == ClaimPhase \subseteq Phase /\ Moves \subseteq Phase \X Phase
ASSUME TtlAssumption == Ttl \in [Phase -> Nat \ {0}]
ASSUME VacantAssumption == Vacant \notin Lease

(* One statement: the values its WHERE clause matches (id, token, session, *)
(* phase), the phase it sets, and which attempt of its call sent it.  A    *)
(* claim's id is the uuid it proposes and its token is                     *)
(* expected_previous_token, 0 when that is None; reclaim_expired_cleanup   *)
(* is the claim that expects none.  A renewal sets the phase it matches.   *)
Op == {"claim", "write", "release", "current"}

Request ==
  [op: Op, id: Nat, token: Nat, session: Session, phase: Phase, to: Phase,
   attempt: {1, 2}]

Reply ==
  [kind: {"none", "granted", "released", "refused", "row"},
   lease: Lease \cup {Vacant}]

Silence == [kind |-> "none", lease |-> Vacant]

Call ==
  [at: {"sent", "answered"}, request: Request, reply: Reply]

ASSUME NoCallAssumption == NoCall \notin Call

VARIABLES
  now,       \* the coordinator's clock
  token,     \* the row's fencing_token
  lease,     \* the row's lease columns
  past,      \* history: the lease columns each earlier tenure ended with
  minted,    \* lease ids (uuids) proposed so far
  call,      \* call[<<s, k>>]: the call session s is waiting on in slot k
  stray,     \* statements whose caller stopped waiting and that may still run
  copy,      \* copy[s]: the lease session s last had answered, if it keeps it
  faults     \* attempts given up so far

rowVars == <<token, lease, past>>
vars == <<now, token, lease, past, minted, call, stray, copy, faults>>

Caller == Session \X Slot

-----------------------------------------------------------------------------
(* The row and its statements.                                             *)

Live == lease # Vacant /\ lease.expires > now

Grant(q, n) ==
  [id |-> q.id, token |-> n, session |-> q.session, phase |-> q.to,
   expires |-> now + Ttl[q.to]]

(* Mutants: a claim that ignores the expiry of the row it finds; an update *)
(* that no longer asks for an unexpired row.                               *)
TakesLiveRow(q) == q.op = "claim" /\ (q.token # 0 => q.token = token)

FitsLapsedRow(q) ==
  /\ lease # Vacant
  /\ lease.id = q.id
  /\ token = q.token
  /\ lease.session = q.session
  /\ lease.phase = q.phase

(* The WHERE of a claim's ON CONFLICT DO UPDATE, and of the cleanup reclaim.*)
Takes(q) ==
  /\ q.op = "claim"
  /\ ~Live
  /\ q.token # 0 => q.token = token

(* The WHERE of every other update.                                        *)
Fits(q) ==
  /\ Live
  /\ lease.id = q.id
  /\ token = q.token
  /\ lease.session = q.session
  /\ lease.phase = q.phase

(* Mutants: a claim that leaves the fencing token alone, one that counts   *)
(* it down.                                                                *)
ClaimedSameToken(q) ==
  Takes(q) /\ lease' = Grant(q, token) /\ UNCHANGED <<token, past>>

ClaimedCountingDown(q) ==
  Takes(q) /\ token' = token - 1 /\ lease' = Grant(q, token) /\ UNCHANGED past

Claimed(q) ==
  /\ Takes(q)
  /\ token' = token + 1
  /\ lease' = Grant(q, token + 1)
  /\ past' = IF token = 0 THEN past ELSE Append(past, lease)

Extended(q) ==
  /\ q.op = "write"
  /\ Fits(q)
  /\ lease' = Grant(q, token)
  /\ UNCHANGED <<token, past>>

Cleared(q) ==
  /\ q.op = "release"
  /\ Fits(q)
  /\ lease' = Vacant
  /\ UNCHANGED <<token, past>>

(* A statement that matches no row, or the read of the row: no change.     *)
Untouched(q) ==
  /\ ~ Takes(q)
  /\ q.op \in {"write", "release"} => ~ Fits(q)
  /\ UNCHANGED rowVars

Run(q) == Claimed(q) \/ Extended(q) \/ Cleared(q) \/ Untouched(q)

(* Mutant: a release that finds no live row says it released it.           *)
AnswerGoneAsReleased(q) ==
  CASE Takes(q) -> [kind |-> "granted", lease |-> Grant(q, token + 1)]
    [] q.op = "write" /\ Fits(q) -> [kind |-> "granted", lease |-> Grant(q, token)]
    [] q.op = "release" /\ (Fits(q) \/ ~Live) -> [kind |-> "released", lease |-> Vacant]
    [] OTHER -> [kind |-> "refused", lease |-> Vacant]

(* What the statement answers, from the row it found.                      *)
Answer(q) ==
  CASE Takes(q) -> [kind |-> "granted", lease |-> Grant(q, token + 1)]
    [] q.op = "write" /\ Fits(q) ->
         [kind |-> "granted", lease |-> Grant(q, token)]
    [] q.op = "release" /\ Fits(q) -> [kind |-> "released", lease |-> Vacant]
    [] q.op = "current" ->
         [kind |-> "row", lease |-> IF Live THEN lease ELSE Vacant]
    [] OTHER -> [kind |-> "refused", lease |-> Vacant]

-----------------------------------------------------------------------------
TypeOK ==
  /\ now \in Nat
  /\ token \in Nat
  /\ lease \in Lease \cup {Vacant}
  /\ past \in Seq(Lease \cup {Vacant})
  /\ minted \in Nat
  /\ call \in [Caller -> Call \cup {NoCall}]
  /\ stray \subseteq Request
  /\ copy \in [Session -> Lease \cup {Vacant}]
  /\ faults \in Nat

(* The row initialize() leaves: fencing token 0 and no lease.              *)
Init ==
  /\ now = 0
  /\ token = 0
  /\ lease = Vacant
  /\ past = <<>>
  /\ minted = 0
  /\ call = [c \in Caller |-> NoCall]
  /\ stray = {}
  /\ copy = [s \in Session |-> Vacant]
  /\ faults = 0

Tick ==
  /\ now < MaxNow
  /\ now' = now + 1
  /\ UNCHANGED <<rowVars, minted, call, stray, copy, faults>>

-----------------------------------------------------------------------------
(* The client: one call is at most two attempts, each on a connection of   *)
(* its own.                                                                *)

Send(c, q) ==
  /\ call[c] = NoCall
  /\ call' = [call EXCEPT ![c] =
       [at |-> "sent", request |-> q, reply |-> Silence]]
  /\ UNCHANGED <<now, rowVars, stray, copy, faults>>

(* A claim proposes a fresh uuid, the same one in both its attempts.       *)
Claim(c, expected, to) ==
  /\ minted < MaxClaims
  /\ minted' = minted + 1
  /\ Send(c, [op |-> "claim", id |-> minted + 1, token |-> expected,
              session |-> c[1], phase |-> to, to |-> to, attempt |-> 1])

(* Every other statement is fenced by a lease the caller was answered.     *)
Fenced(c, op, from, to) ==
  /\ copy[c[1]] # Vacant
  /\ UNCHANGED minted
  /\ Send(c, [op |-> op, id |-> copy[c[1]].id, token |-> copy[c[1]].token,
              session |-> c[1], phase |-> from, to |-> to, attempt |-> 1])

Transition(c, from, to) == Fenced(c, "write", from, to)

Renew(c) ==
  \E p \in Phase : copy[c[1]] # Vacant /\ p = copy[c[1]].phase /\ Fenced(c, "write", p, p)

Release(c) ==
  \E p \in Phase : copy[c[1]] # Vacant /\ p = copy[c[1]].phase /\ Fenced(c, "release", p, p)

Current(c) ==
  \E p \in Phase : copy[c[1]] # Vacant /\ p = copy[c[1]].phase /\ Fenced(c, "current", p, p)

(* The server runs the statement a caller waits on.  What a refused claim  *)
(* then reads only words its refusal.                                      *)
Serve(c) ==
  /\ call[c] # NoCall /\ call[c].at = "sent"
  /\ Run(call[c].request)
  /\ call' = [call EXCEPT ![c].at = "answered",
                          ![c].reply = Answer(call[c].request)]
  /\ UNCHANGED <<now, minted, stray, copy, faults>>

(* The caller gives up on the attempt it waits on.  A statement that had   *)
(* not run is gone with its connection, or stays in the server's hands.    *)
Abandon(c) ==
  /\ call[c] # NoCall
  /\ faults < MaxFaults
  /\ faults' = faults + 1
  /\ \/ stray' = stray
     \/ call[c].at = "sent" /\ stray' = stray \cup {call[c].request}
  /\ UNCHANGED <<now, rowVars, minted, copy>>

(* An OperationalError in the first attempt: the same statement is sent    *)
(* again on a new connection, whether or not the first one ran.            *)
Resend(c) ==
  /\ Abandon(c)
  /\ call[c].request.attempt = 1
  /\ call' = [call EXCEPT ![c] =
       [at |-> "sent", request |-> [@.request EXCEPT !.attempt = 2], reply |-> Silence]]

(* The second attempt fails too, or the caller's task is cancelled: the    *)
(* caller learns nothing.  A cancelled call is never sent again.           *)
GiveUp(c) ==
  /\ Abandon(c)
  /\ call' = [call EXCEPT ![c] = NoCall]

(* A statement nobody waits on runs late.                                  *)
ServeStray(q) ==
  /\ q \in stray
  /\ Run(q)
  /\ stray' = stray \ {q}
  /\ UNCHANGED <<now, minted, call, copy, faults>>

(* The answer reaches the caller.  It installs what a claim was granted;   *)
(* any other answer counts only if it is about the lease the caller still  *)
(* has: the same tenure and, but for a read of the row, the same phase.    *)
(* After a refusal or a read it may also keep the lease it has, or drop it.*)
SameAuthority(a, b) ==
  a # Vacant /\ b # Vacant /\ a.id = b.id /\ a.token = b.token /\ a.session = b.session

Asked(q, l) ==
  l # Vacant /\ l.id = q.id /\ l.token = q.token /\ l.phase = q.phase

Keeps(s, q, r) ==
  CASE r.kind = "granted" /\ (q.op = "claim" \/ Asked(q, copy[s])) -> r.lease
    [] r.kind = "released" /\ Asked(q, copy[s]) -> Vacant
    [] r.kind = "row" /\ SameAuthority(r.lease, copy[s]) -> r.lease
    [] OTHER -> copy[s]

Return(c) ==
  /\ call[c] # NoCall /\ call[c].at = "answered"
  /\ call' = [call EXCEPT ![c] = NoCall]
  /\ \/ copy' = [copy EXCEPT ![c[1]] = Keeps(c[1], call[c].request, call[c].reply)]
     \/ /\ call[c].reply.kind \in {"refused", "row"}
        /\ \E l \in {copy[c[1]], Vacant} : copy' = [copy EXCEPT ![c[1]] = l]
  /\ UNCHANGED <<now, rowVars, minted, stray, faults>>

(* The caller drops its lease unreleased, as lost.                         *)
Forget(s) ==
  /\ copy[s] # Vacant
  /\ copy' = [copy EXCEPT ![s] = Vacant]
  /\ UNCHANGED <<now, rowVars, minted, call, stray, faults>>

Issue(c) ==
  \/ \E to \in ClaimPhase, expected \in {0, token} : Claim(c, expected, to)
  \/ \E move \in Moves : Transition(c, move[1], move[2])
  \/ Renew(c)
  \/ Release(c)
  \/ Current(c)

Next ==
  \/ Tick
  \/ \E c \in Caller :
       \/ Issue(c)
       \/ Serve(c)
       \/ Resend(c)
       \/ GiveUp(c)
       \/ Return(c)
  \/ \E q \in stray : ServeStray(q)
  \/ \E s \in Session : Forget(s)

Spec == Init /\ [][Next]_vars

-----------------------------------------------------------------------------
(* The leases somebody was granted and may still act on.                   *)
Known ==
  {copy[s] : s \in Session}
    \cup {call[c].reply.lease : c \in {d \in Caller : call[d] # NoCall}}

(* What became of every tenure, read off the row and the history.          *)
Ended(l) == IF l = Vacant THEN "released" ELSE "lapsed"

Fate ==
  [n \in 1..token |->
     IF n < token THEN Ended(past[n])
                  ELSE IF Live THEN "open" ELSE Ended(lease)]

Ring == INSTANCE FencedRing WITH fate <- Fate

(* The store keeps the ring's promise whatever is lost, resent or run      *)
(* late: one tenure at a time, each under a new token, none revived.       *)
RefinesFencedRing == Ring!Spec

(* A fencing token has one owner: a claim that was resent, or that ran     *)
(* after its caller had given it up, never hands a token out twice.        *)
FenceHasOneOwner ==
  \A a, b \in (Known \cup {lease}) \ {Vacant} :
    a.token = b.token => a.id = b.id /\ a.session = b.session

(* A lease that has not expired by its own stamp is not overtaken: unless  *)
(* its caller released it or moved its phase on, the row is still its      *)
(* tenure's, and lives at least as long as the stamp says.                 *)
LastRow(n) == IF n < token THEN past[n] ELSE lease

StampHolds ==
  \A a \in Known \ {Vacant} :
    \/ LastRow(a.token) = Vacant
    \/ LastRow(a.token).phase # a.phase
    \/ LastRow(a.token).expires >= a.expires /\ (a.expires > now => a.token = token)

(* release() answers True only when the tenure was never broken from its   *)
(* claim to that release: such a tenure ended released, never lapsed.      *)
TrueReleaseIsUnbroken ==
  \A c \in Caller :
    call[c] # NoCall /\ call[c].reply.kind = "released" =>
      LastRow(call[c].request.token) = Vacant
=============================================================================
