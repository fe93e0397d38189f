--------------------------- MODULE RingHolderProofs ---------------------------
(***************************************************************************)
(* Theorems of the lease store and of the run manager that holds its rings.*)
(* First the store, BoutLease, for every number of sessions, every set of  *)
(* phases with any TTLs, and every bound.  Then RingHolder, for any number *)
(* of cards, processes, TTLs and faults: the run manager only ever acts on *)
(* a ring through the store, so every behaviour of RingHolder is one of    *)
(* BoutLease and what is proved of the store holds of the manager.  On     *)
(* that rests the last part: a running bout is always inside its own live  *)
(* lease.                                                                  *)
(***************************************************************************)
EXTENDS RingHolder, TLAPS

-----------------------------------------------------------------------------
(* The store.                                                              *)

(* A claim advances the token by one, so the history holds one entry for   *)
(* each tenure before the last, and a row with no tenure yet is vacant.    *)
Lineage ==
  /\ Len(past) = IF token = 0 THEN 0 ELSE token - 1
  /\ lease # Vacant => token > 0 /\ lease.token = token
  /\ \A a \in Known \ {Vacant} : a.token \in 1..token

(* No stamp reaches further than a write made now would reach.             *)
StampBounded ==
  \A a \in (Known \cup {lease}) \ {Vacant} : a.expires <= now + Ttl[a.phase]

(* StampHolds, with what it takes to survive a claim: an overtaken tenure  *)
(* that was not released, and that did not change phase, had run out.      *)
StampInv ==
  \A a \in Known \ {Vacant} :
    \/ LastRow(a.token) = Vacant
    \/ LastRow(a.token).phase # a.phase
    \/ /\ LastRow(a.token).expires >= a.expires
       /\ a.token < token => a.expires <= now

(* An answer of True names a tenure that exists and ended vacant.          *)
ReleaseInv ==
  \A c \in Caller :
    call[c] # NoCall /\ call[c].reply.kind = "released" =>
      call[c].request.token \in 1..token /\ LastRow(call[c].request.token) = Vacant

IInv ==
  /\ TypeOK
  /\ Lineage
  /\ FenceHasOneOwner
  /\ StampBounded
  /\ StampInv
  /\ ReleaseInv

-----------------------------------------------------------------------------
USE TtlAssumption, VacantAssumption, NoCallAssumption, PhaseAssumption

(* What a caller's copy can become when an answer arrives.                 *)
LEMMA KeepsKnown ==
  ASSUME TypeOK, NEW c \in Caller, call[c] # NoCall
  PROVE  /\ c[1] \in Session
         /\ Keeps(c[1], call[c].request, call[c].reply)
              \in {Vacant, copy[c[1]], call[c].reply.lease}
BY DEF TypeOK, Keeps, Caller, Call, Reply

(* The lease a request would be granted is a lease.                        *)
LEMMA GrantType ==
  ASSUME TypeOK, NEW q \in Request, NEW n \in Nat
  PROVE  Grant(q, n) \in Lease
BY DEF TypeOK, Grant, Request, Lease

LEMMA AnswerType ==
  ASSUME TypeOK, NEW q \in Request
  PROVE  Answer(q) \in Reply
<1>1. Grant(q, token) \in Lease /\ Grant(q, token + 1) \in Lease
  BY GrantType DEF TypeOK
<1> QED
  BY <1>1 DEF TypeOK, Answer, Reply, Live

LEMMA RunType ==
  ASSUME TypeOK, NEW q \in Request, Run(q)
  PROVE  /\ token' \in Nat
         /\ lease' \in Lease \cup {Vacant}
         /\ past' \in Seq(Lease \cup {Vacant})
<1>1. Grant(q, token) \in Lease /\ Grant(q, token + 1) \in Lease
  BY GrantType DEF TypeOK
<1>2. CASE Claimed(q)
  BY <1>1, <1>2 DEF TypeOK, Claimed
<1>3. CASE Extended(q) \/ Cleared(q) \/ Untouched(q)
  BY <1>1, <1>3 DEF TypeOK, Extended, Cleared, Untouched, rowVars
<1> QED
  BY <1>2, <1>3 DEF Run

(* Every step keeps the state well typed.                                  *)
LEMMA TypeStep == TypeOK /\ [Next]_vars => TypeOK'
<1> SUFFICES ASSUME TypeOK, [Next]_vars PROVE TypeOK'
  OBVIOUS
<1>1. CASE Tick
  BY <1>1 DEF TypeOK, Tick, rowVars
<1>2. ASSUME NEW c \in Caller, Issue(c) PROVE TypeOK'
  <2>0. c[1] \in Session
    BY DEF Caller
  <2>1. ASSUME NEW to \in ClaimPhase, NEW expected \in {0, token}, Claim(c, expected, to)
        PROVE  TypeOK'
    <3>1. to \in Phase /\ expected \in Nat
      BY DEF TypeOK
    <3> QED
      BY <2>0, <2>1, <3>1 DEF TypeOK, Claim, Send, Call, Request, Reply, Silence, Op, rowVars
  <2>2. ASSUME NEW op \in Op, NEW from \in Phase, NEW to \in Phase, Fenced(c, op, from, to)
        PROVE  TypeOK'
    <3>1. copy[c[1]] \in Lease
      BY <2>0, <2>2 DEF TypeOK, Fenced
    <3> QED
      BY <2>0, <2>2, <3>1
         DEF TypeOK, Fenced, Send, Call, Request, Reply, Silence, Lease, rowVars
  <2>3. \A move \in Moves : move[1] \in Phase /\ move[2] \in Phase
    OBVIOUS
  <2> QED
    BY <1>2, <2>1, <2>2, <2>3 DEF Issue, Transition, Renew, Release, Current, Op
<1>3. ASSUME NEW c \in Caller, Serve(c) PROVE TypeOK'
  <2>1. call[c].request \in Request
    BY <1>3 DEF TypeOK, Serve, Call
  <2> QED
    BY <1>3, <2>1, RunType, AnswerType DEF TypeOK, Serve, Call
<1>4. ASSUME NEW c \in Caller, Resend(c) PROVE TypeOK'
  <2>1. call[c].request \in Request
    BY <1>4 DEF TypeOK, Resend, Abandon, Call
  <2>2. [call[c].request EXCEPT !.attempt = 2] \in Request
    BY <2>1 DEF Request
  <2>3. PICK again \in Call : call' = [call EXCEPT ![c] = again]
    BY <1>4, <2>2 DEF Resend, Call, Reply, Silence
  <2>4. Abandon(c)
    BY <1>4 DEF Resend
  <2> QED
    BY <2>1, <2>3, <2>4 DEF TypeOK, Abandon, rowVars
<1>5. ASSUME NEW c \in Caller, GiveUp(c) PROVE TypeOK'
  BY <1>5 DEF TypeOK, GiveUp, Abandon, Call, rowVars
<1>6. ASSUME NEW c \in Caller, Return(c) PROVE TypeOK'
  <2>1. call[c] \in Call /\ copy[c[1]] \in Lease \cup {Vacant}
    BY <1>6 DEF TypeOK, Return, Caller
  <2>2. Keeps(c[1], call[c].request, call[c].reply) \in Lease \cup {Vacant}
    BY <1>6, <2>1, KeepsKnown DEF Return, Call, Reply
  <2>3. PICK l \in Lease \cup {Vacant} : copy' = [copy EXCEPT ![c[1]] = l]
    BY <1>6, <2>1, <2>2 DEF Return
  <2>4. call' = [call EXCEPT ![c] = NoCall] /\ UNCHANGED <<now, rowVars, minted, stray, faults>>
    BY <1>6 DEF Return
  <2> QED
    BY <2>3, <2>4 DEF TypeOK, rowVars
<1>7. ASSUME NEW q \in stray, ServeStray(q) PROVE TypeOK'
  BY <1>7, RunType DEF TypeOK, ServeStray
<1>8. ASSUME NEW s \in Session, Forget(s) PROVE TypeOK'
  BY <1>8 DEF TypeOK, Forget, rowVars
<1>9. CASE UNCHANGED vars
  BY <1>9 DEF TypeOK, vars, rowVars
<1> QED
  BY <1>1, <1>2, <1>3, <1>4, <1>5, <1>6, <1>7, <1>8, <1>9 DEF Next

(* The state is well typed at every moment of every behaviour.             *)
THEOREM TypeCorrect == Spec => []TypeOK
<1>1. Init => TypeOK
  BY DEF Init, TypeOK
<1> QED
  BY <1>1, TypeStep, PTL DEF Spec

-----------------------------------------------------------------------------
(* A statement answers with no lease, or with the one it leaves in the row.*)
LEMMA AnswerNamesRow ==
  ASSUME TypeOK, NEW q \in Request, Run(q)
  PROVE  Answer(q).lease \in {Vacant, lease'}
<1>1. CASE Claimed(q)
  BY <1>1 DEF Claimed, Answer, Takes
<1>2. CASE Extended(q)
  BY <1>2 DEF Extended, Answer, Takes
<1>3. CASE Cleared(q)
  BY <1>3 DEF Cleared, Answer, Takes
<1>4. CASE Untouched(q)
  BY <1>4 DEF Untouched, Answer, rowVars
<1> QED
  BY <1>1, <1>2, <1>3, <1>4 DEF Run

(* Where the tenures' last rows are after a claim.                         *)
LEMMA ClaimedHistory ==
  ASSUME TypeOK, Lineage, NEW q \in Request, Claimed(q)
  PROVE  /\ token' = token + 1
         /\ lease' = Grant(q, token + 1)
         /\ Len(past') = token
         /\ \A n \in 1..token : LastRow(n)' = LastRow(n)
<1>1. CASE token = 0
  BY <1>1 DEF TypeOK, Lineage, Claimed, LastRow
<1>2. CASE token # 0
  BY <1>2 DEF TypeOK, Lineage, Claimed, LastRow
<1> QED
  BY <1>1, <1>2

(* The part of the invariant that concerns leases survives any statement,  *)
(* if nobody learns a lease but from its answer.                           *)
LEMMA RunKeeps ==
  ASSUME IInv, TypeOK', NEW q \in Request, Run(q), now' = now,
         Known' \subseteq Known \cup {Vacant, lease'}
  PROVE  (Lineage /\ FenceHasOneOwner /\ StampBounded /\ StampInv)'
<1> USE DEF IInv
<1>0. \A a \in Known \cup {lease} : a # Vacant => a \in Lease
  BY DEF TypeOK, Known, Call, Reply
<1>1. CASE Claimed(q)
  <2>1. /\ token' = token + 1
        /\ lease' = Grant(q, token + 1)
        /\ Len(past') = token
        /\ \A n \in 1..token : LastRow(n)' = LastRow(n)
    BY <1>1, ClaimedHistory
  <2>2. /\ lease' \in Lease
        /\ lease'.token = token + 1
        /\ lease'.expires = now + Ttl[lease'.phase]
    BY <2>1, GrantType DEF Grant, TypeOK
  <2>3. Lineage'
    BY <2>1, <2>2 DEF Lineage, TypeOK
  <2>4. \A a \in (Known' \cup {lease'}) \ {Vacant} :
          a = lease' \/ (a \in Known \ {Vacant} /\ a.token \in 1..token /\ a \in Lease)
    BY <1>0 DEF Lineage
  <2>5. FenceHasOneOwner'
    BY <2>2, <2>4 DEF FenceHasOneOwner, TypeOK
  <2>6. StampBounded'
    BY <1>0, <2>2, <2>4 DEF StampBounded, TypeOK, Lease
  <2>7. StampInv'
    <3> SUFFICES ASSUME NEW a \in Known' \ {Vacant}
                 PROVE  \/ LastRow(a.token)' = Vacant
                        \/ LastRow(a.token)'.phase # a.phase
                        \/ /\ LastRow(a.token)'.expires >= a.expires
                           /\ a.token < token' => a.expires <= now'
      BY DEF StampInv, LastRow
    <3>1. CASE a = lease'
      BY <2>1, <2>2, <3>1 DEF LastRow, TypeOK, Lease
    <3>2. CASE a \in Known \ {Vacant} /\ a.token \in 1..token /\ a \in Lease
      <4>1. LastRow(a.token)' = LastRow(a.token)
        BY <2>1, <3>2
      <4>2. CASE a.token < token
        BY <2>1, <3>2, <4>1, <4>2 DEF StampInv
      <4>3. CASE a.token = token
        <5>1. LastRow(a.token) = lease
          BY <4>3 DEF LastRow, TypeOK
        <5>2. lease = Vacant \/ (lease \in Lease /\ lease.expires <= now)
          BY <1>1, <1>0 DEF Claimed, Takes, Live, TypeOK, Lease
        <5> QED
          <6>1. \/ lease = Vacant \/ lease.phase # a.phase
                \/ lease.expires >= a.expires /\ lease.expires <= now
            BY <3>2, <5>1, <5>2 DEF StampInv
          <6>2. a.expires \in Nat /\ now \in Nat /\ (lease # Vacant => lease.expires \in Nat)
            BY <3>2, <5>2 DEF TypeOK, Lease
          <6> QED
            BY <4>1, <5>1, <5>2, <6>1, <6>2
      <4> QED
        BY <3>2, <4>2, <4>3 DEF TypeOK
    <3> QED
      BY <2>4, <3>1, <3>2
  <2> QED
    BY <2>3, <2>5, <2>6, <2>7
<1>2. CASE Extended(q)
  <2>1. /\ lease \in Lease /\ token' = token /\ past' = past
        /\ lease' = Grant(q, token) /\ lease' \in Lease
    BY <1>2, GrantType DEF Extended, Fits, Live, TypeOK
  <2>2. /\ lease'.token = token /\ lease'.id = lease.id
        /\ lease'.session = lease.session
        /\ lease'.expires = now + Ttl[lease'.phase]
        /\ lease.token = token /\ token > 0
    BY <1>2, <2>1 DEF Extended, Fits, Grant, Lineage, Live
  <2>3. \A a \in (Known' \cup {lease'}) \ {Vacant} :
          a = lease' \/ (a \in Known \ {Vacant} /\ a \in Lease)
    BY <1>0
  <2>4. Lineage'
    BY <2>1, <2>2, <2>3 DEF Lineage, TypeOK
  <2>5. FenceHasOneOwner'
    BY <2>1, <2>2, <2>3 DEF FenceHasOneOwner
  <2>6. StampBounded'
    BY <1>0, <2>2, <2>3, <2>1 DEF StampBounded, TypeOK, Lease
  <2>7. StampInv'
    <3> SUFFICES ASSUME NEW a \in Known' \ {Vacant}
                 PROVE  \/ LastRow(a.token)' = Vacant
                        \/ LastRow(a.token)'.phase # a.phase
                        \/ /\ LastRow(a.token)'.expires >= a.expires
                           /\ a.token < token' => a.expires <= now'
      BY DEF StampInv, LastRow
    <3>1. CASE a = lease'
      BY <2>1, <2>2, <3>1 DEF LastRow, TypeOK, Lease
    <3>2. CASE a \in Known \ {Vacant} /\ a \in Lease
      <4>1. a.expires <= now + Ttl[a.phase]
        BY <3>2 DEF StampBounded
      <4>2. CASE a.token < token
        BY <2>1, <3>2, <4>2 DEF StampInv, LastRow
      <4>3. CASE ~(a.token < token)
        BY <2>1, <2>2, <4>1, <4>3 DEF LastRow
      <4> QED
        BY <4>2, <4>3
    <3> QED
      BY <2>3, <3>1, <3>2
  <2> QED
    BY <2>4, <2>5, <2>6, <2>7
<1>3. CASE Cleared(q)
  <2>1. token' = token /\ past' = past /\ lease' = Vacant
    BY <1>3 DEF Cleared
  <2>2. \A a \in (Known' \cup {lease'}) \ {Vacant} : a \in Known \ {Vacant} /\ a \in Lease
    BY <1>0, <2>1
  <2> QED
    BY <2>1, <2>2
       DEF Lineage, FenceHasOneOwner, StampBounded, StampInv, LastRow, TypeOK
<1>4. CASE Untouched(q)
  <2>1. token' = token /\ past' = past /\ lease' = lease
    BY <1>4 DEF Untouched, rowVars
  <2>2. Lineage'
    BY <2>1 DEF Lineage, TypeOK
  <2>3. FenceHasOneOwner' /\ StampBounded'
    BY <2>1 DEF FenceHasOneOwner, StampBounded
  <2>4. StampInv'
    BY <1>0, <2>1 DEF StampInv, LastRow, Lineage, TypeOK, Lease
  <2> QED
    BY <2>2, <2>3, <2>4
<1> QED
  BY <1>1, <1>2, <1>3, <1>4 DEF Run

(* So it does any step that leaves the row alone and teaches nobody a      *)
(* lease, the passing of time included.                                    *)
LEMMA QuietKeeps ==
  ASSUME IInv, TypeOK', UNCHANGED rowVars, now' \in {now, now + 1},
         Known' \subseteq Known \cup {Vacant}
  PROVE  (Lineage /\ FenceHasOneOwner /\ StampBounded /\ StampInv)'
<1> USE DEF IInv
<1>0. \A a \in Known \cup {lease} : a # Vacant => a \in Lease
  BY DEF TypeOK, Known, Call, Reply
<1>1. token' = token /\ past' = past /\ lease' = lease
  BY DEF rowVars
<1>2. Lineage' /\ FenceHasOneOwner'
  BY <1>1 DEF Lineage, FenceHasOneOwner
<1>3. StampBounded'
  <2> SUFFICES ASSUME NEW a \in (Known' \cup {lease'}) \ {Vacant}
               PROVE  a.expires <= now' + Ttl[a.phase]
    BY DEF StampBounded
  <2>1. a \in Lease /\ a.expires <= now + Ttl[a.phase]
    BY <1>0, <1>1 DEF StampBounded
  <2> QED
    BY <2>1 DEF TypeOK, Lease
<1>4. StampInv'
  <2> SUFFICES ASSUME NEW a \in Known' \ {Vacant}
               PROVE  \/ LastRow(a.token) = Vacant
                      \/ LastRow(a.token).phase # a.phase
                      \/ /\ LastRow(a.token).expires >= a.expires
                         /\ a.token < token => a.expires <= now'
    BY <1>1 DEF StampInv, LastRow
  <2>1. a \in Known \ {Vacant} /\ a \in Lease
    BY <1>0
  <2>2. \/ LastRow(a.token) = Vacant
        \/ LastRow(a.token).phase # a.phase
        \/ /\ LastRow(a.token).expires >= a.expires
           /\ a.token < token => a.expires <= now
    BY <2>1 DEF StampInv
  <2>3. a.expires \in Nat /\ now \in Nat
    BY <2>1 DEF TypeOK, Lease
  <2>4. a.expires <= now => a.expires <= now'
    BY <2>3
  <2> QED
    BY <2>2, <2>4
<1> QED
  BY <1>2, <1>3, <1>4

(* A tenure that ended vacant is vacant for good.                          *)
LEMMA VacantStays ==
  ASSUME IInv, NEW q \in Request, Run(q), NEW n \in 1..token, LastRow(n) = Vacant
  PROVE  n \in 1..token' /\ LastRow(n)' = Vacant
<1> USE DEF IInv
<1>1. CASE Claimed(q)
  BY <1>1, ClaimedHistory DEF TypeOK
<1>2. CASE Extended(q)
  BY <1>2 DEF Extended, Fits, Live, LastRow, TypeOK
<1>3. CASE Cleared(q)
  BY <1>3 DEF Cleared, LastRow, TypeOK
<1>4. CASE Untouched(q)
  BY <1>4 DEF Untouched, rowVars, LastRow
<1> QED
  BY <1>1, <1>2, <1>3, <1>4 DEF Run

(* A release is answered True by the statement that vacated the row.       *)
LEMMA ReleasedVacates ==
  ASSUME IInv, NEW q \in Request, Run(q), Answer(q).kind = "released"
  PROVE  q.token \in 1..token' /\ LastRow(q.token)' = Vacant
<1> USE DEF IInv
<1>1. q.op = "release" /\ Fits(q)
  BY DEF Answer, Takes
<1>2. Cleared(q)
  BY <1>1 DEF Run, Claimed, Extended, Untouched, Takes
<1> QED
  BY <1>1, <1>2 DEF Cleared, Fits, Live, LastRow, Lineage, TypeOK

-----------------------------------------------------------------------------
(* Every step keeps the inductive invariant.                               *)
LEMMA InvStep == IInv /\ [Next]_vars => IInv'
<1> SUFFICES ASSUME IInv, [Next]_vars PROVE IInv'
  OBVIOUS
<1>0. TypeOK'
  BY TypeStep DEF IInv
<1>q. \A c \in Caller : call[c] # NoCall => call[c].request \in Request
  BY DEF IInv, TypeOK, Call
<1>a. ASSUME UNCHANGED rowVars, now' \in {now, now + 1},
             Known' \subseteq Known \cup {Vacant},
             \A c \in Caller :
               call'[c] # NoCall /\ call'[c].reply.kind = "released" => call'[c] = call[c]
      PROVE  IInv'
  <2>1. (Lineage /\ FenceHasOneOwner /\ StampBounded /\ StampInv)'
    BY <1>a, <1>0, QuietKeeps
  <2>2. ReleaseInv'
    BY <1>a DEF IInv, ReleaseInv, LastRow, rowVars
  <2> QED
    BY <1>0, <2>1, <2>2 DEF IInv
<1>1. CASE Tick
  BY <1>1, <1>a DEF Tick, Known, IInv, TypeOK
<1>2. ASSUME NEW c \in Caller, Issue(c) PROVE IInv'
  <2>1. PICK q : Send(c, q)
    BY <1>2 DEF Issue, Claim, Fenced, Transition, Renew, Release, Current
  <2>2. /\ UNCHANGED <<now, rowVars, copy>>
        /\ \A d \in Caller : call'[d] # NoCall =>
             call'[d].reply = Silence \/ (call[d] # NoCall /\ call'[d] = call[d])
    BY <2>1 DEF Send, IInv, TypeOK
  <2>3. Known' \subseteq Known \cup {Vacant}
    BY <2>2 DEF Known, Silence
  <2> QED
    BY <1>a, <2>2, <2>3 DEF Silence, IInv, TypeOK
<1>3. ASSUME NEW c \in Caller, Serve(c) PROVE IInv'
  <2>0. PICK q \in Request : q = call[c].request
    BY <1>3, <1>q DEF Serve
  <2>1. Run(q) /\ now' = now /\ copy' = copy
    BY <1>3, <2>0 DEF Serve
  <2>2. \A d \in Caller : call'[d] # NoCall =>
          \/ d = c /\ call'[d].request = q /\ call'[d].reply = Answer(q)
          \/ call[d] # NoCall /\ call'[d] = call[d]
    BY <1>3, <2>0 DEF Serve, IInv, TypeOK, Call
  <2>3. Answer(q).lease \in {Vacant, lease'}
    BY <2>1, AnswerNamesRow DEF IInv
  <2>4. Known' \subseteq Known \cup {Vacant, lease'}
    BY <2>1, <2>2, <2>3 DEF Known
  <2>5. (Lineage /\ FenceHasOneOwner /\ StampBounded /\ StampInv)'
    BY <1>0, <2>1, <2>4, RunKeeps
  <2>6. ReleaseInv'
    <3> SUFFICES ASSUME NEW d \in Caller, call'[d] # NoCall,
                        call'[d].reply.kind = "released",
                        NEW n, n = call'[d].request.token
                 PROVE  n \in 1..token' /\ LastRow(n)' = Vacant
      BY DEF ReleaseInv, LastRow
    <3>1. CASE call'[d].request = q /\ call'[d].reply = Answer(q)
      BY <2>1, <3>1, ReleasedVacates
    <3>2. CASE call[d] # NoCall /\ call'[d] = call[d]
      <4>1. n \in 1..token /\ LastRow(n) = Vacant
        BY <3>2 DEF IInv, ReleaseInv
      <4> QED
        BY <2>1, <4>1, VacantStays
    <3> QED
      BY <2>2, <3>1, <3>2
  <2> QED
    BY <1>0, <2>5, <2>6 DEF IInv
<1>4. ASSUME NEW c \in Caller, Resend(c) PROVE IInv'
  <2>1. UNCHANGED <<now, rowVars, copy>>
    BY <1>4 DEF Resend, Abandon
  <2>2. \A d \in Caller : call'[d] # NoCall =>
          call'[d].reply = Silence \/ (call[d] # NoCall /\ call'[d] = call[d])
    BY <1>4 DEF Resend, IInv, TypeOK
  <2>3. Known' \subseteq Known \cup {Vacant}
    BY <2>1, <2>2 DEF Known, Silence
  <2> QED
    BY <1>a, <2>1, <2>2, <2>3 DEF Silence, IInv, TypeOK
<1>5. ASSUME NEW c \in Caller, GiveUp(c) PROVE IInv'
  <2>1. UNCHANGED <<now, rowVars, copy>>
    BY <1>5 DEF GiveUp, Abandon
  <2>2. \A d \in Caller : call'[d] # NoCall => call[d] # NoCall /\ call'[d] = call[d]
    BY <1>5 DEF GiveUp, Abandon, IInv, TypeOK
  <2> QED
    BY <1>a, <2>1, <2>2 DEF Known, IInv, TypeOK
<1>6. ASSUME NEW c \in Caller, Return(c) PROVE IInv'
  <2>1. UNCHANGED <<now, rowVars>> /\ call[c] # NoCall
    BY <1>6 DEF Return
  <2>2. \A d \in Caller : call'[d] # NoCall => call[d] # NoCall /\ call'[d] = call[d]
    BY <1>6 DEF Return, IInv, TypeOK
  <2>3. \A s \in Session : copy'[s] \in {Vacant, copy[s], call[c].reply.lease}
    BY <1>6, <2>1, KeepsKnown DEF Return, IInv, TypeOK
  <2>4. Known' \subseteq Known \cup {Vacant}
    BY <2>1, <2>2, <2>3 DEF Known
  <2> QED
    BY <1>a, <2>1, <2>2, <2>4 DEF IInv, TypeOK
<1>7. ASSUME NEW q \in stray, ServeStray(q) PROVE IInv'
  <2>1. q \in Request /\ Run(q) /\ UNCHANGED <<now, call, copy>>
    BY <1>7 DEF ServeStray, IInv, TypeOK
  <2>2. (Lineage /\ FenceHasOneOwner /\ StampBounded /\ StampInv)'
    BY <1>0, <2>1, RunKeeps DEF Known
  <2>3. ReleaseInv'
    <3> SUFFICES ASSUME NEW d \in Caller, call[d] # NoCall,
                        call[d].reply.kind = "released",
                        NEW n, n = call[d].request.token
                 PROVE  n \in 1..token' /\ LastRow(n)' = Vacant
      BY <2>1 DEF ReleaseInv, LastRow
    <3>1. n \in 1..token /\ LastRow(n) = Vacant
      BY DEF IInv, ReleaseInv
    <3> QED
      BY <2>1, <3>1, VacantStays
  <2> QED
    BY <1>0, <2>2, <2>3 DEF IInv
<1>8. ASSUME NEW s \in Session, Forget(s) PROVE IInv'
  <2>1. UNCHANGED <<now, rowVars, call>>
    BY <1>8 DEF Forget
  <2>2. Known' \subseteq Known \cup {Vacant}
    BY <1>8, <2>1 DEF Forget, Known, IInv, TypeOK
  <2> QED
    BY <1>a, <2>1, <2>2 DEF IInv, TypeOK
<1>9. CASE UNCHANGED vars
  <2>1. UNCHANGED <<now, rowVars, call, copy>>
    BY <1>9 DEF vars, rowVars
  <2>2. Known' \subseteq Known \cup {Vacant}
    BY <2>1 DEF Known
  <2> QED
    BY <1>a, <2>1, <2>2 DEF IInv, TypeOK
<1> QED
  BY <1>1, <1>2, <1>3, <1>4, <1>5, <1>6, <1>7, <1>8, <1>9 DEF Next

LEMMA InvInit == Init => IInv
<1> SUFFICES ASSUME Init PROVE IInv
  OBVIOUS
<1>1. Known \subseteq {Vacant}
  BY DEF Init, Known
<1> QED
  BY <1>1 DEF Init, IInv, TypeOK, Lineage, FenceHasOneOwner, StampBounded,
             StampInv, ReleaseInv

LEMMA Invariance == Spec => []IInv
  BY InvInit, InvStep, PTL DEF Spec

-----------------------------------------------------------------------------
(* Two sessions never hold the same fencing token, however often a claim   *)
(* was resent and however late an abandoned one ran.                       *)
THEOREM TokenNamesOneOwner == Spec => []FenceHasOneOwner
  BY Invariance, PTL DEF IInv

(* A lease that is unexpired by its own stamp still fences its ring, or    *)
(* its own caller released it or moved its phase.                          *)
THEOREM UnexpiredLeaseFences == Spec => []StampHolds
<1>1. IInv => StampHolds
  <2> SUFFICES ASSUME IInv, NEW a \in Known \ {Vacant}
               PROVE  \/ LastRow(a.token) = Vacant
                      \/ LastRow(a.token).phase # a.phase
                      \/ /\ LastRow(a.token).expires >= a.expires
                         /\ a.expires > now => a.token = token
    BY DEF StampHolds
  <2>1. a \in Lease /\ a.token \in 1..token
    BY DEF IInv, Lineage, TypeOK, Known, Call, Reply
  <2>2. a.token < token => (a.expires <= now => ~(a.expires > now))
    BY <2>1 DEF IInv, TypeOK, Lease
  <2> QED
    BY <2>1, <2>2 DEF IInv, StampInv, TypeOK, Lease
<1> QED
  BY <1>1, Invariance, PTL

(* release() answering True proves the tenure was never broken.            *)
THEOREM TrueReleaseProves == Spec => []TrueReleaseIsUnbroken
<1>1. IInv => TrueReleaseIsUnbroken
  BY DEF IInv, ReleaseInv, TrueReleaseIsUnbroken
<1> QED
  BY <1>1, Invariance, PTL

-----------------------------------------------------------------------------
(* The store keeps the abstract promise.                                   *)

LEMMA FateIsSequence ==
  ASSUME TypeOK
  PROVE  /\ Fate \in Seq({"open", "released", "lapsed"})
         /\ Len(Fate) = token
BY DEF Fate, TypeOK, Ended

(* The mapped ring is held exactly when the row is live.                   *)
LEMMA HeldIsLive ==
  ASSUME TypeOK, Lineage
  PROVE  Ring!Held <=> Live
BY FateIsSequence DEF Ring!Held, Ring!Newest, Fate, TypeOK, Lineage, Live, Ended

LEMMA ClaimOpens ==
  ASSUME IInv, IInv', NEW q \in Request, Claimed(q), now' = now
  PROVE  Ring!Open
<1> USE DEF IInv
<1>1. /\ token' = token + 1
      /\ lease' = Grant(q, token + 1)
      /\ \A n \in 1..token : LastRow(n)' = LastRow(n)
  BY ClaimedHistory
<1>2. Live' /\ ~Live
  <2>1. ~Live
    BY DEF Claimed, Takes
  <2>2. q.to \in Phase
    BY DEF Claimed, Request
  <2>3. lease' # Vacant /\ lease'.expires > now'
    <3>1. lease' # Vacant
      BY <1>1, GrantType DEF TypeOK
    <3>2. lease'.expires = now + Ttl[q.to]
      BY <1>1 DEF Grant
    <3>3. now \in Nat /\ Ttl[q.to] \in Nat \ {0} /\ now' = now
      BY <2>2 DEF TypeOK
    <3> QED
      BY <3>1, <3>2, <3>3
  <2> QED
    BY <2>1, <2>3 DEF Live
<1>3. \A n \in 1..token : Fate'[n] = Fate[n]
  <2> SUFFICES ASSUME NEW n \in 1..token PROVE Fate'[n] = Fate[n]
    OBVIOUS
  <2>1. past'[n] = LastRow(n)
    BY <1>1 DEF LastRow, TypeOK
  <2>2. Fate'[n] = Ended(LastRow(n))
    BY <1>1, <2>1 DEF Fate, Ended, TypeOK
  <2>3. Fate[n] = Ended(LastRow(n))
    BY <1>2 DEF Fate, Ended, LastRow, TypeOK
  <2> QED
    BY <2>2, <2>3
<1>4. Fate'[token + 1] = "open"
  BY <1>1, <1>2 DEF Fate, TypeOK
<1>5. Fate' = Append(Fate, "open")
  <2>1. Fate \in Seq({"open", "released", "lapsed"}) /\ Len(Fate) = token
    BY FateIsSequence
  <2>2. Fate' \in Seq({"open", "released", "lapsed"}) /\ Len(Fate') = token + 1
    <3>1. /\ token + 1 \in Nat
          /\ Fate' \in [1..(token + 1) -> {"open", "released", "lapsed"}]
      BY <1>1 DEF Fate, Ended, TypeOK
    <3> QED
      BY <3>1
  <2> HIDE DEF IInv
  <2> QED
    BY <1>3, <1>4, <2>1, <2>2
<1>6. ~Ring!Held
  BY <1>2, HeldIsLive
<1> QED
  BY <1>5, <1>6 DEF Ring!Open

(* A statement that leaves the row live, or leaves it alone, is a stutter; *)
(* one that vacates it ends the open tenure.                               *)
LEMMA RunMaps ==
  ASSUME IInv, IInv', NEW q \in Request, Run(q), now' = now
  PROVE  [Ring!Next]_Fate
<1> USE DEF IInv
<1>1. CASE Claimed(q)
  BY <1>1, ClaimOpens DEF Ring!Next
<1>2. CASE Extended(q)
  <2>1. /\ token' = token /\ past' = past
        /\ Live /\ Live'
    BY <1>2 DEF Extended, Fits, Live, Grant, TypeOK, Lease, Request
  <2> QED
    BY <2>1 DEF Fate
<1>3. CASE Cleared(q)
  <2>1. /\ token' = token /\ past' = past /\ lease' = Vacant
        /\ Live /\ ~Live' /\ token > 0
    BY <1>3 DEF Cleared, Fits, Live, Lineage
  <2>2. Fate' = [Fate EXCEPT ![token] = "released"]
    <3>1. Fate'[token] = "released"
      BY <2>1 DEF Fate, Ended, rowVars, TypeOK
    <3>2. \A n \in 1..token : n # token => Fate'[n] = Fate[n]
      BY <2>1 DEF Fate, Ended, rowVars, TypeOK
    <3>3. Fate' = [n \in 1..token |-> Fate'[n]] /\ DOMAIN Fate = 1..token
      BY <2>1 DEF Fate, rowVars
    <3> HIDE DEF IInv
    <3> QED
      BY <3>1, <3>2, <3>3
  <2>3. Ring!Held /\ Ring!Newest = token
    BY <2>1, HeldIsLive, FateIsSequence DEF Ring!Newest
  <2> QED
    BY <2>2, <2>3 DEF Ring!Next, Ring!End
<1>4. CASE Untouched(q)
  BY <1>4 DEF Untouched, rowVars, Fate, Live
<1> QED
  BY <1>1, <1>2, <1>3, <1>4 DEF Run

(* Time can only end the open tenure.                                      *)
LEMMA TickMaps ==
  ASSUME IInv, Tick
  PROVE  [Ring!Next]_Fate
<1> USE DEF IInv
<1>1. UNCHANGED rowVars /\ now' = now + 1
  BY DEF Tick
<1>2. CASE Live' <=> Live
  BY <1>1, <1>2 DEF Fate, rowVars
<1>3. CASE Live /\ ~Live'
  <2>1. lease # Vacant /\ token > 0
    BY <1>3 DEF Live, Lineage
  <2>2. Fate' = [Fate EXCEPT ![token] = "lapsed"]
    <3>1. Fate'[token] = "lapsed"
      BY <1>1, <1>3, <2>1 DEF Fate, Ended, rowVars, TypeOK
    <3>2. \A n \in 1..token : n # token => Fate'[n] = Fate[n]
      BY <1>1, <1>3, <2>1 DEF Fate, Ended, rowVars, TypeOK
    <3>3. Fate' = [n \in 1..token |-> Fate'[n]] /\ DOMAIN Fate = 1..token
      BY <1>1, <1>3, <2>1 DEF Fate, rowVars
    <3> HIDE DEF IInv
    <3> QED
      BY <3>1, <3>2, <3>3
  <2>3. Ring!Held /\ Ring!Newest = token
    BY <1>3, HeldIsLive, FateIsSequence DEF Ring!Newest
  <2> QED
    BY <2>2, <2>3 DEF Ring!Next, Ring!End
<1>4. ~(Live' /\ ~Live)
  BY <1>1 DEF Live, rowVars, TypeOK, Lease
<1> QED
  BY <1>2, <1>3, <1>4

LEMMA QuietMaps ==
  ASSUME UNCHANGED rowVars, now' = now
  PROVE  UNCHANGED Fate
BY DEF rowVars, Fate, Live

(* BoutLease implements FencedRing: whatever is lost, resent or run late,  *)
(* a ring has one tenure at a time, each under a new token, none revived.  *)
THEOREM Implements == Spec => RefinesFencedRing
<1>1. Init => Ring!Init
  BY DEF Init, Ring!Init, Fate
<1>2. IInv /\ IInv' /\ [Next]_vars => [Ring!Next]_Fate
  <2> SUFFICES ASSUME IInv, IInv', [Next]_vars PROVE [Ring!Next]_Fate
    OBVIOUS
  <2>1. CASE Tick
    BY <2>1, TickMaps
  <2>2. ASSUME NEW c \in Caller, Serve(c) PROVE [Ring!Next]_Fate
    <3>1. call[c].request \in Request
      BY <2>2 DEF Serve, IInv, TypeOK, Call
    <3>2. PICK q \in Request : Run(q) /\ now' = now
      BY <2>2, <3>1 DEF Serve
    <3> QED
      BY <3>2, RunMaps
  <2>3. ASSUME NEW q \in stray, ServeStray(q) PROVE [Ring!Next]_Fate
    BY <2>3, RunMaps DEF ServeStray, IInv, TypeOK
  <2>4. ASSUME NEW c \in Caller,
               Issue(c) \/ Resend(c) \/ GiveUp(c) \/ Return(c)
        PROVE  UNCHANGED Fate
    <3>1. UNCHANGED rowVars /\ now' = now
      BY <2>4 DEF Issue, Claim, Transition, Renew, Release, Current, Fenced, Send,
                  Resend, GiveUp, Abandon, Return
    <3> QED
      BY <3>1, QuietMaps
  <2>5. ASSUME NEW s \in Session, Forget(s) PROVE UNCHANGED Fate
    BY <2>5, QuietMaps DEF Forget
  <2>6. CASE UNCHANGED vars
    <3>1. UNCHANGED rowVars /\ now' = now
      BY <2>6 DEF vars, rowVars
    <3> QED
      BY <3>1, QuietMaps
  <2> QED
    BY <2>1, <2>2, <2>3, <2>4, <2>5, <2>6 DEF Next
<1> QED
  BY <1>1, <1>2, Invariance, PTL DEF Spec, RefinesFencedRing, Ring!Spec

(* What the abstract ring promises, so that the store promises it too.      *)
LEMMA RingInvariance == RefinesFencedRing => []Ring!Inv
<1>1. Ring!Init => Ring!Inv
  BY DEF Ring!Init, Ring!Inv, Ring!TypeOK, Ring!OnlyNewestOpen
<1>2. Ring!Inv /\ [Ring!Next]_Fate => Ring!Inv'
  <2> SUFFICES ASSUME Ring!Inv, [Ring!Next]_Fate PROVE Ring!Inv'
    OBVIOUS
  <2> USE DEF Ring!Inv, Ring!TypeOK, Ring!OnlyNewestOpen, Ring!Fates, Ring!Newest, Ring!Held
  <2>1. CASE Ring!Open
    BY <2>1 DEF Ring!Open
  <2>2. CASE Ring!End("released") \/ Ring!End("lapsed")
    BY <2>2 DEF Ring!End
  <2>3. CASE UNCHANGED Fate
    BY <2>3
  <2> QED
    BY <2>1, <2>2, <2>3 DEF Ring!Next
<1> QED
  BY <1>1, <1>2, PTL DEF RefinesFencedRing, Ring!Spec

(* No two claims of a ring answered with two fencing tokens are ever both   *)
(* in force.                                                                *)
THEOREM AtMostOneTenure == Spec => []Ring!OneTenure
<1>1. Ring!Inv => Ring!OneTenure
  BY DEF Ring!Inv, Ring!TypeOK, Ring!OnlyNewestOpen, Ring!OneTenure
<1> QED
  BY <1>1, Implements, RingInvariance, PTL

(* A tenure that was released or lapsed stays ended, the same way: no write *)
(* revives a lapsed lease and no release is taken back.                     *)
THEOREM NoTenureIsRevived == Spec => Ring!EndedStaysEnded
<1> DEFINE Kept == \A n \in 1..Len(Fate) :
                     Fate[n] # "open" => n <= Len(Fate') /\ (Fate')[n] = Fate[n]
<1>1. Ring!Inv /\ [Ring!Next]_Fate => [Kept]_Fate
  <2> SUFFICES ASSUME Ring!Inv, Ring!Next PROVE Kept
    OBVIOUS
  <2> USE DEF Ring!Inv, Ring!TypeOK, Ring!Newest, Ring!Held
  <2>1. CASE Ring!Open
    BY <2>1 DEF Ring!Open
  <2>2. CASE Ring!End("released") \/ Ring!End("lapsed")
    BY <2>2 DEF Ring!End
  <2> QED
    BY <2>1, <2>2 DEF Ring!Next
<1> QED
  BY <1>1, Implements, RingInvariance, PTL DEF RefinesFencedRing, Ring!Spec, Ring!EndedStaysEnded

-----------------------------------------------------------------------------
(* The run manager.                                                        *)

(* The manager's constants are an instance of the store's.                 *)
LEMMA HolderConstants ==
  /\ Checking \in ClaimPhase /\ Checking \in Phase /\ Armed \in Phase /\ RunCommitted \in Phase
  /\ <<Checking, Armed>> \in Moves /\ <<Armed, RunCommitted>> \in Moves
  /\ Ttl[Checking] \in Nat /\ Ttl[Armed] \in Nat /\ Ttl[RunCommitted] \in Nat
  /\ Heartbeat \in Nat /\ Heartbeat > 0
  /\ \A s \in Session : M(s) \in Caller /\ B(s) \in Caller
BY SlotAssumption, PhasesAssumption, CadenceAssumption, TtlAssumption DEF M, B, Caller

(* What a bout's calls are to the store.                                   *)
LEMMA BoutSteps ==
  ASSUME NEW s \in Session, Bout(s)
  PROVE  [Next]_vars
<1> USE HolderConstants
<1>1. CASE StartClaim(s)
  BY <1>1 DEF StartClaim, Next, Issue
<1>2. CASE SendArm(s) \/ RingBell(s)
  <2>1. \E move \in Moves : Transition(M(s), move[1], move[2])
    BY <1>2 DEF SendArm, RingBell
  <2> QED
    BY <2>1 DEF Next, Issue
<1>3. CASE AskHolder(s) \/ WatchFence(s)
  BY <1>3 DEF AskHolder, WatchFence, Next, Issue
<1>4. CASE ClaimWon(s) \/ ClaimRefused(s) \/ ArmCommitted(s) \/ ArmFails(s)
             \/ BellCommitted(s) \/ BellUnconfirmed(s) \/ Converged(s)
             \/ ConvergenceFails(s) \/ FenceSeen(s)
  <2>1. Return(M(s)) \/ GiveUp(M(s))
    BY <1>4 DEF ClaimWon, ClaimRefused, ArmCommitted, ArmFails, BellCommitted,
                BellUnconfirmed, Converged, ConvergenceFails, FenceSeen
  <2> QED
    BY <2>1 DEF Next
<1>5. CASE StartArming(s) \/ CheckFails(s) \/ AbandonArmed(s) \/ Finish(s) \/ WorkStops(s)
  BY <1>5 DEF StartArming, CheckFails, AbandonArmed, Finish, WorkStops
<1> QED
  BY <1>1, <1>2, <1>3, <1>4, <1>5 DEF Bout

LEMMA SettleSteps ==
  ASSUME NEW s \in Session, Settle(s)
  PROVE  [Next]_vars
<1> USE HolderConstants
<1>1. CASE ReleaseOnce(s) \/ Probe(s)
  BY <1>1 DEF ReleaseOnce, Probe, Next, Issue
<1>2. CASE ReleaseConfirmed(s) \/ ReleaseUnconfirmed(s) \/ Probed(s)
  <2>1. Return(M(s)) \/ GiveUp(M(s))
    BY <1>2 DEF ReleaseConfirmed, ReleaseUnconfirmed, Probed
  <2> QED
    BY <2>1 DEF Next
<1>3. CASE SettleUnknown(s) \/ RetryEnds(s)
  BY <1>3 DEF SettleUnknown, RetryEnds, Next
<1> QED
  BY <1>1, <1>2, <1>3 DEF Settle

LEMMA HeartSteps ==
  ASSUME NEW s \in Session, Heart(s)
  PROVE  [Next]_vars
<1> USE HolderConstants
<1>1. CASE BeatRenews(s)
  BY <1>1 DEF BeatRenews, Next, Issue
<1>2. CASE BeatAnswered(s) \/ BeatUnanswered(s) \/ RenewalDropped(s)
  <2>1. Return(B(s)) \/ GiveUp(B(s))
    BY <1>2 DEF BeatAnswered, BeatUnanswered, RenewalDropped
  <2> QED
    BY <2>1 DEF Next
<1>3. CASE BeatEnds(s) \/ BeatTooLate(s) \/ Lose(s)
  BY <1>3 DEF BeatEnds, BeatTooLate, Lose, Next
<1> QED
  BY <1>1, <1>2, <1>3 DEF Heart

(* The manager's cards, heartbeats and settles are callers of the store    *)
(* and nothing else.                                                       *)
THEOREM HolderUsesStore == HolderSpec => Spec
<1>1. HolderInit => Init
  BY DEF HolderInit
<1>2. [HolderNext]_holderVars => [Next]_vars
  <2> SUFFICES ASSUME [HolderNext]_holderVars PROVE [Next]_vars
    OBVIOUS
  <2>1. CASE HolderTick
    BY <2>1 DEF HolderTick, Next
  <2>2. CASE Wire
    BY <2>2 DEF Wire, Next
  <2>3. ASSUME NEW s \in Session, Bout(s) \/ Settle(s) \/ Heart(s) PROVE [Next]_vars
    BY <2>3, BoutSteps, SettleSteps, HeartSteps
  <2>4. CASE UNCHANGED holderVars
    BY <2>4 DEF holderVars, vars
  <2> QED
    BY <2>1, <2>2, <2>3, <2>4 DEF HolderNext
<1> QED
  BY <1>1, <1>2, PTL DEF HolderSpec, Spec

(* A running card's proof rests on what the store promises: a lease that   *)
(* has not expired by its own stamp is not overtaken.                      *)
THEOREM HolderStamps == HolderSpec => [](StampHolds /\ FenceHasOneOwner)
BY HolderUsesStore, UnexpiredLeaseFences, TokenNamesOneOwner, PTL

(* The manager's use of the store keeps the abstract promise of the ring.  *)
THEOREM HolderImplements == HolderSpec => RefinesFencedRing
BY HolderUsesStore, Implements, PTL

-----------------------------------------------------------------------------
(* Types.                                                                  *)

LEMMA HelperTypes ==
  /\ \A r \in Record : SilentR(r) \in Record
  /\ now \in Nat => \A r \in Record : BeatingR(r) \in Record
  /\ \A s \in Session, b \in BOOLEAN : Over(s, b) \in Record
  /\ \A t \in Nat, p \in Phase : Proven(t, p) \in Nat
<1>1. \A r \in Record : SilentR(r) \in Record
  BY DEF SilentR, Record
<1>2. now \in Nat => \A r \in Record : BeatingR(r) \in Record
  <2> SUFFICES ASSUME now \in Nat, NEW r \in Record PROVE BeatingR(r) \in Record
    OBVIOUS
  <2>1. now + Heartbeat \in Nat
    BY HolderConstants
  <2> QED
    BY <2>1 DEF BeatingR, Record
<1>3. \A s \in Session, b \in BOOLEAN : Over(s, b) \in Record
  BY DEF Over, Blank, Record, Stage
<1>4. \A t \in Nat, p \in Phase : Proven(t, p) \in Nat
  BY TtlAssumption DEF Proven
<1> QED
  BY <1>1, <1>2, <1>3, <1>4

LEMMA BoutTypes ==
  ASSUME HolderTypeOK, NEW s \in Session, Bout(s)
  PROVE  rec' \in [Session -> Record]
<1> USE HolderConstants, HelperTypes DEF HolderTypeOK, Become, Goto
<1> now \in Nat
  BY DEF TypeOK
<1> DEFINE r == rec[s]
<1> r \in Record
  OBVIOUS
<1>1. CASE StartClaim(s)
  <2>1. [r EXCEPT !.stage = "claiming", !.sent = now] \in Record
    BY DEF Record, Stage
  <2> QED
    BY <1>1, <2>1 DEF StartClaim
<1>2. CASE ClaimWon(s)
  <2> DEFINE won == [r EXCEPT !.proof = Proven(r.sent, Checking)]
  <2>1. won \in Record
    BY DEF Record
  <2>2. [won EXCEPT !.stage = "retrying"] \in Record
    BY <2>1 DEF Record, Stage
  <2>3. [won EXCEPT !.stage = "checking", !.lost = FALSE, !.late = now >= won.proof] \in Record
    <3>1. \A b \in BOOLEAN :
            [won EXCEPT !.stage = "checking", !.lost = FALSE, !.late = b] \in Record
      BY <2>1 DEF Record, Stage
    <3>2. (now >= won.proof) \in BOOLEAN
      OBVIOUS
    <3> QED
      BY <3>1, <3>2
  <2> QED
    BY <1>2, <2>2, <2>3 DEF ClaimWon
<1>3. CASE ClaimRefused(s)
  <2>1. [r EXCEPT !.stage = "idle", !.sent = 0] \in Record
    BY DEF Record, Stage
  <2> QED
    BY <1>3, <2>1 DEF ClaimRefused
<1>4. CASE StartArming(s)
  <2>1. [r EXCEPT !.stage = "arming"] \in Record
    BY DEF Record, Stage
  <2> QED
    BY <1>4, <2>1 DEF StartArming
<1>5. CASE SendArm(s)
  <2>1. [r EXCEPT !.sent = now] \in Record
    BY DEF Record
  <2> QED
    BY <1>5, <2>1 DEF SendArm
<1>6. CASE ArmCommitted(s)
  <2>1. [r EXCEPT !.stage = "armed", !.proof = Proven(r.sent, Armed), !.late = FALSE] \in Record
    BY DEF Record, Stage
  <2> QED
    BY <1>6, <2>1 DEF ArmCommitted
<1>7. CASE ArmFails(s)
  <2>1. [r EXCEPT !.stage = "settling"] \in Record
    BY DEF Record, Stage
  <2> QED
    BY <1>7, <2>1 DEF ArmFails
<1>8. CASE CheckFails(s) \/ AbandonArmed(s) \/ Finish(s) \/ BellUnconfirmed(s)
             \/ ConvergenceFails(s)
  <2>1. \A to \in Stage : [r EXCEPT !.stage = to] \in Record
    BY DEF Record
  <2> QED
    BY <1>8, <2>1, ZenonT(60)
       DEF CheckFails, AbandonArmed, Finish, BellUnconfirmed, ConvergenceFails, Stage
<1>9. CASE RingBell(s)
  <2>1. [r EXCEPT !.stage = "ringing", !.sent = now] \in Record
    BY DEF Record, Stage
  <2> QED
    BY <1>9, <2>1 DEF RingBell
<1>10. CASE BellCommitted(s)
  <2> DEFINE until == Proven(r.sent, RunCommitted)
  <2>1. until \in Nat
    BY DEF Record
  <2>2. [r EXCEPT !.proof = until,
                  !.stage = IF BellProofLapsed(until) THEN "settling" ELSE "running"] \in Record
    BY <2>1 DEF Record, Stage
  <2> QED
    BY <1>10, <2>2 DEF BellCommitted
<1>11. CASE AskHolder(s) \/ WatchFence(s)
  BY <1>11 DEF AskHolder, WatchFence
<1>12. CASE Converged(s)
  <2>1. [r EXCEPT !.stage = "settling", !.proof = Proven(r.sent, RunCommitted)] \in Record
    BY DEF Record, Stage
  <2>2. [r EXCEPT !.stage = "settling"] \in Record
    BY DEF Record, Stage
  <2> QED
    BY <1>12, <2>1, <2>2 DEF Converged
<1>13. CASE FenceSeen(s)
  <2>1. r.lost \in BOOLEAN
    BY DEF Record
  <2> QED
    BY <1>13, <2>1 DEF FenceSeen
<1>14. CASE WorkStops(s)
  <2>1. [r EXCEPT !.stopping = FALSE, !.late = FALSE] \in Record
    BY DEF Record
  <2> QED
    BY <1>14, <2>1 DEF WorkStops
<1> QED
  BY <1>1, <1>2, <1>3, <1>4, <1>5, <1>6, <1>7, <1>8, <1>9, <1>10, <1>11, <1>12,
     <1>13, <1>14 DEF Bout

LEMMA SettleTypes ==
  ASSUME HolderTypeOK, NEW s \in Session, Settle(s)
  PROVE  rec' \in [Session -> Record]
<1> USE HolderConstants, HelperTypes DEF HolderTypeOK, Become, Goto
<1> DEFINE r == rec[s]
<1>0. r \in Record /\ r.lost \in BOOLEAN
  BY DEF Record
<1>1. CASE ReleaseOnce(s) \/ Probe(s)
  BY <1>1 DEF ReleaseOnce, Probe
<1>2. \A to \in Stage : [r EXCEPT !.stage = to] \in Record
  BY <1>0 DEF Record
<1>3. CASE ReleaseConfirmed(s) \/ RetryEnds(s)
  <2>1. PICK b \in BOOLEAN : Become(s, Over(s, b))
    BY <1>0, <1>3 DEF ReleaseConfirmed, RetryEnds
  <2>2. Over(s, b) \in Record
    BY HelperTypes
  <2> QED
    BY <2>1, <2>2
<1>4. CASE ReleaseUnconfirmed(s)
  BY <1>0, <1>2, <1>4 DEF ReleaseUnconfirmed, Stage
<1>5. CASE SettleUnknown(s)
  BY <1>0, <1>2, <1>5 DEF SettleUnknown, Stage
<1>6. CASE Probed(s)
  <2>1. Again(s) \in Stage
    BY DEF Again, Stage
  <2>2. CASE ProbeGone(s)
    BY <1>0, <2>2 DEF ProbeGone
  <2>3. CASE ProbeTaken(s)
    BY <1>0, <2>3 DEF ProbeTaken
  <2>4. CASE ProbeArmed(s)
    <3>1. [r EXCEPT !.stage = Again(s), !.proof = Proven(r.sent, Armed)] \in Record
      BY <1>0, <2>1 DEF Record
    <3> QED
      BY <1>0, <2>4, <3>1 DEF ProbeArmed
  <2>5. CASE ProbeOurs(s) \/ Goto(s, Again(s))
    BY <1>0, <1>2, <2>1, <2>5 DEF ProbeOurs
  <2> QED
    BY <1>6, <2>2, <2>3, <2>4, <2>5 DEF Probed
<1> QED
  BY <1>1, <1>3, <1>4, <1>5, <1>6 DEF Settle

LEMMA HeartTypes ==
  ASSUME HolderTypeOK, NEW s \in Session, Heart(s)
  PROVE  rec' \in [Session -> Record]
<1> USE HolderConstants, HelperTypes DEF HolderTypeOK, Become
<1> now \in Nat
  BY DEF TypeOK
<1> DEFINE r == rec[s]
<1>0. r \in Record /\ r.late \in BOOLEAN /\ r.proof \in Nat
  BY DEF Record
<1>1. Pause(r.proof) \in Nat
  BY <1>0 DEF Pause, Due
<1>2. CASE BeatRenews(s)
  <2>1. [r EXCEPT !.renewed = now] \in Record
    BY <1>0 DEF Record
  <2> QED
    BY <1>0, <1>2, <2>1 DEF BeatRenews
<1>3. CASE BeatEnds(s)
  BY <1>0, <1>3 DEF BeatEnds
<1>4. CASE BeatTooLate(s)
  <2>1. [r EXCEPT !.beat = "losing"] \in Record
    BY <1>0 DEF Record
  <2> QED
    BY <1>0, <1>4, <2>1 DEF BeatTooLate
<1>5. CASE BeatAnswered(s)
  <2> DEFINE q == call[B(s)].request
             ours == Asked(q, copy[s])
  <2>1. q \in Request /\ q.to \in Phase
    BY <1>5 DEF BeatAnswered, Return, TypeOK, Call, Request
  <2>2. now + Heartbeat \in Nat /\ Proven(r.renewed, q.to) \in Nat
    BY <1>0, <2>1 DEF Record
  <2>3. [r EXCEPT !.wake = now + Heartbeat,
                  !.proof = IF ours THEN Proven(r.renewed, q.to) ELSE r.proof] \in Record
    BY <1>0, <2>2 DEF Record
  <2>4. [r EXCEPT !.beat = IF ours THEN "losing" ELSE r.beat,
                  !.wake = Pause(r.proof)] \in Record
    BY <1>0, <1>1 DEF Record
  <2> QED
    BY <1>0, <1>5, <2>3, <2>4 DEF BeatAnswered
<1>6. CASE BeatUnanswered(s)
  <2>1. [r EXCEPT !.beat = "losing"] \in Record
    BY <1>0 DEF Record
  <2>2. [r EXCEPT !.wake = Pause(r.proof)] \in Record
    BY <1>0, <1>1 DEF Record
  <2> QED
    BY <1>0, <1>6, <2>1, <2>2 DEF BeatUnanswered
<1>7. CASE Lose(s)
  <2>1. Over(s, TRUE) \in Record
    OBVIOUS
  <2>2. [Over(s, TRUE) EXCEPT !.stopping = TRUE, !.late = r.late] \in Record
    BY <1>0, <2>1 DEF Record
  <2> QED
    BY <1>0, <1>7, <2>2 DEF Lose
<1>8. CASE RenewalDropped(s)
  BY <1>8 DEF RenewalDropped
<1> QED
  BY <1>2, <1>3, <1>4, <1>5, <1>6, <1>7, <1>8 DEF Heart

(* Every reachable state of the manager and its store is well typed.       *)
THEOREM HolderTypeCorrect == HolderSpec => []HolderTypeOK
<1>1. HolderInit => HolderTypeOK
  <2>1. Init => TypeOK
    BY InvInit DEF IInv
  <2>2. Blank \in Record
    BY DEF Blank, Record, Stage
  <2> QED
    BY <2>1, <2>2 DEF HolderInit, HolderTypeOK
<1>2. HolderTypeOK /\ TypeOK' /\ [HolderNext]_holderVars => HolderTypeOK'
  <2> SUFFICES ASSUME HolderTypeOK, TypeOK', [HolderNext]_holderVars PROVE HolderTypeOK'
    OBVIOUS
  <2>1. ASSUME NEW s \in Session, Bout(s) \/ Settle(s) \/ Heart(s)
        PROVE  rec' \in [Session -> Record]
    BY <2>1, BoutTypes, SettleTypes, HeartTypes
  <2>2. CASE HolderTick \/ Wire \/ UNCHANGED holderVars
    BY <2>2 DEF HolderTick, Wire, holderVars, HolderTypeOK
  <2> QED
    BY <2>1, <2>2 DEF HolderNext, HolderTypeOK
<1>3. HolderSpec => []TypeOK
  BY HolderUsesStore, TypeCorrect, PTL
<1> QED
  BY <1>1, <1>2, <1>3, PTL DEF HolderSpec
-----------------------------------------------------------------------------
(***************************************************************************)
(* Why a running bout is always inside its own live lease, for any number  *)
(* of cards, processes, faults and any TTLs of at least three heartbeats.  *)
(* What the holder reckons with, its proof and its heartbeat's clock, is   *)
(* related to the row by the store's stamps and by the requests that may   *)
(* still be on their way.                                                  *)
(***************************************************************************)

(* The statements somebody waits on or that may run late, and the leases   *)
(* somebody knows or the row holds.                                        *)
Asks == {call[c].request : c \in {d \in Caller : call[d] # NoCall}} \cup stray
Leases == (Known \cup {lease}) \ {Vacant}

(* What an answer is to its request.                                       *)
Fits2(q, r) ==
  /\ r.kind = "granted" =>
       /\ q.op \in {"claim", "write"} /\ r.lease \in Lease
       /\ r.lease.id = q.id /\ r.lease.session = q.session /\ r.lease.phase = q.to
       /\ q.op = "write" => r.lease.token = q.token
  /\ r.kind = "released" => q.op = "release"
  /\ r.kind = "row" => q.op = "current"
  /\ r.kind = "refused" => q.op # "current" /\ r.lease = Vacant

Answers ==
  \A c \in Caller : call[c] # NoCall =>
    /\ call[c].request.session = c[1]
    /\ call[c].at = "sent" => call[c].reply = Silence
    /\ Fits2(call[c].request, call[c].reply)

(* A claim opens the phase checking; every other statement names a tenure  *)
(* there was, and a write moves its phase on or leaves it.                 *)
AsksKnown ==
  \A q \in Asks :
    /\ q.op # "claim" => q.token \in 1..token
    /\ q.op = "claim" => q.to = Checking
    /\ q.op = "write" => q.phase = q.to \/ <<q.phase, q.to>> \in Moves

(* A tenure its claimer has not heard of yet is known to nobody else.      *)
Fresh(c) ==
  call[c] # NoCall /\ call[c].request.op = "claim" /\ call[c].reply.kind = "granted"

Unheard(n) ==
  /\ \A q \in Asks : q.op # "claim" => q.token # n
  /\ \A s \in Session : copy[s] # Vacant => copy[s].token # n
  /\ \A l \in Leases : l.token = n => l.phase = Checking
  /\ LastRow(n) # Vacant

FreshGrant ==
  \A c \in Caller : Fresh(c) =>
    /\ Unheard(call[c].reply.lease.token)
    /\ \A d \in Caller : d # c /\ Fresh(d) =>
         call[d].reply.lease.token # call[c].reply.lease.token

(* A tenure that was moved to run_committed stays so until it ends.        *)
RunStays ==
  \A l \in Leases : l.phase = RunCommitted =>
    LastRow(l.token) = Vacant \/ LastRow(l.token).phase = RunCommitted

StoreInv == IInv /\ Answers /\ AsksKnown /\ FreshGrant /\ RunStays

-----------------------------------------------------------------------------
LEMMA StoreTypes ==
  ASSUME TypeOK
  PROVE  /\ \A q \in Asks : q \in Request
         /\ \A l \in Leases : l \in Lease
         /\ \A c \in Caller : call[c] # NoCall => call[c] \in Call /\ call[c].request \in Asks
         /\ \A s \in Session : copy[s] # Vacant => copy[s] \in Leases
         /\ \A c \in Caller : call[c] # NoCall /\ call[c].reply.lease # Vacant =>
              call[c].reply.lease \in Leases
         /\ lease # Vacant => lease \in Leases
BY DEF TypeOK, Asks, Leases, Known, Call, Reply

(* How a statement leaves the row and the history.                         *)
LEMMA RunEffect ==
  ASSUME IInv, NEW q \in Request, Run(q)
  PROVE  \/ /\ q.op = "claim" /\ token' = token + 1 /\ lease' = Grant(q, token + 1)
            /\ \A n \in 1..token : LastRow(n)' = LastRow(n)
         \/ /\ q.op = "write" /\ Fits(q) /\ token' = token /\ token > 0
            /\ lease' = Grant(q, token)
            /\ \A n \in Nat : n < token => LastRow(n)' = LastRow(n)
         \/ /\ q.op = "release" /\ Fits(q) /\ token' = token /\ lease' = Vacant
            /\ \A n \in Nat : n < token => LastRow(n)' = LastRow(n)
         \/ UNCHANGED <<token, lease, past>>
<1> USE DEF IInv
<1>1. CASE Claimed(q)
  BY <1>1, ClaimedHistory DEF Claimed, Takes
<1>2. CASE Extended(q)
  BY <1>2 DEF Extended, Fits, Live, LastRow, Lineage, TypeOK
<1>3. CASE Cleared(q)
  BY <1>3 DEF Cleared, LastRow, TypeOK
<1>4. CASE Untouched(q)
  BY <1>4 DEF Untouched, rowVars
<1> QED
  BY <1>1, <1>2, <1>3, <1>4 DEF Run

(* The statement's answer fits it.                                         *)
LEMMA AnswerFits ==
  ASSUME TypeOK, NEW q \in Request
  PROVE  Fits2(q, Answer(q))
<1>1. Grant(q, token) \in Lease /\ Grant(q, token + 1) \in Lease
  BY GrantType DEF TypeOK
<1>2. CASE q.op = "claim"
  BY <1>1, <1>2 DEF Fits2, Answer, Grant, Takes
<1>3. CASE q.op = "write"
  BY <1>1, <1>3 DEF Fits2, Answer, Grant, Takes, Fits
<1>4. CASE q.op = "release"
  BY <1>4 DEF Fits2, Answer, Takes
<1>5. CASE q.op = "current"
  BY <1>5 DEF Fits2, Answer, Takes
<1> QED
  BY <1>2, <1>3, <1>4, <1>5 DEF Request, Op

(* What a step of the store asks, and what it leaves of the requests and   *)
(* leases there were.                                                      *)
LEMMA IssueEffect ==
  ASSUME TypeOK, NEW c \in Caller, Issue(c)
  PROVE  \E q \in Request :
           /\ call[c] = NoCall /\ q.session = c[1]
           /\ call' = [call EXCEPT ![c] = [at |-> "sent", request |-> q, reply |-> Silence]]
           /\ UNCHANGED <<now, rowVars, stray, copy>>
           /\ \/ q.op = "claim" /\ q.to = Checking
              \/ /\ q.op \in {"write", "release", "current"}
                 /\ copy[c[1]] # Vacant /\ q.token = copy[c[1]].token
                 /\ q.phase = q.to \/ <<q.phase, q.to>> \in Moves
<1>0. c[1] \in Session
  BY DEF Caller
<1>1. ASSUME NEW to \in ClaimPhase, NEW expected \in {0, token}, Claim(c, expected, to)
      PROVE  \E q \in Request :
               /\ Send(c, q) /\ q.session = c[1] /\ q.op = "claim" /\ q.to = Checking
  <2>1. to = Checking /\ to \in Phase /\ expected \in Nat /\ minted + 1 \in Nat
    BY PhasesAssumption DEF TypeOK
  <2> QED
    BY <1>0, <1>1, <2>1 DEF Claim, Request, Op
<1>2. ASSUME NEW op \in {"write", "release", "current"}, NEW from \in Phase, NEW to \in Phase,
             from = to \/ <<from, to>> \in Moves, Fenced(c, op, from, to)
      PROVE  \E q \in Request :
               /\ Send(c, q) /\ q.session = c[1] /\ q.op \in {"write", "release", "current"}
               /\ copy[c[1]] # Vacant /\ q.token = copy[c[1]].token
               /\ q.phase = q.to \/ <<q.phase, q.to>> \in Moves
  <2>1. copy[c[1]] \in Lease /\ copy[c[1]] # Vacant
    BY <1>0, <1>2 DEF TypeOK, Fenced
  <2>2. copy[c[1]].id \in Nat /\ copy[c[1]].token \in Nat
    BY <2>1 DEF Lease
  <2> DEFINE q == [op |-> op, id |-> copy[c[1]].id, token |-> copy[c[1]].token,
                   session |-> c[1], phase |-> from, to |-> to, attempt |-> 1]
  <2>3. q \in Request /\ Send(c, q)
    BY <1>0, <1>2, <2>2 DEF Fenced, Request, Op
  <2> QED
    BY <1>2, <2>1, <2>3
<1>3. \A move \in Moves : move[1] \in Phase /\ move[2] \in Phase /\ <<move[1], move[2]>> \in Moves
  BY PhasesAssumption
<1>4. PICK q \in Request :
        /\ Send(c, q) /\ q.session = c[1]
        /\ \/ q.op = "claim" /\ q.to = Checking
           \/ /\ q.op \in {"write", "release", "current"}
              /\ copy[c[1]] # Vacant /\ q.token = copy[c[1]].token
              /\ q.phase = q.to \/ <<q.phase, q.to>> \in Moves
  <2>1. CASE \E to \in ClaimPhase, expected \in {0, token} : Claim(c, expected, to)
    BY <1>1, <2>1
  <2>2. CASE \E move \in Moves : Transition(c, move[1], move[2])
    <3>1. PICK move \in Moves : Fenced(c, "write", move[1], move[2])
      BY <2>2 DEF Transition
    <3> QED
      BY <1>2, <1>3, <3>1
  <2>3. CASE Renew(c) \/ Release(c) \/ Current(c)
    <3>1. PICK op \in {"write", "release", "current"}, p \in Phase : Fenced(c, op, p, p)
      BY <2>3 DEF Renew, Release, Current
    <3> QED
      BY <1>2, <3>1
  <2> QED
    BY <2>1, <2>2, <2>3 DEF Issue
<1> QED
  BY <1>4 DEF Send

(* An answer teaches a caller nothing but its own lease, anew or a later   *)
(* stamp of it.                                                            *)
LEMMA ReturnEffect ==
  ASSUME TypeOK, Answers, NEW c \in Caller, Return(c)
  PROVE  /\ call[c] # NoCall /\ call' = [call EXCEPT ![c] = NoCall]
         /\ UNCHANGED <<now, rowVars, minted, stray, faults>>
         /\ c[1] \in Session
         /\ \A s \in Session : s # c[1] => copy'[s] = copy[s]
         /\ copy'[c[1]] # Vacant =>
              \/ copy'[c[1]] = copy[c[1]]
              \/ Fresh(c) /\ copy'[c[1]] = call[c].reply.lease
              \/ /\ copy[c[1]] # Vacant /\ copy'[c[1]] = call[c].reply.lease
                 /\ copy'[c[1]].token = copy[c[1]].token
<1>1. c[1] \in Session /\ call[c] \in Call /\ Fits2(call[c].request, call[c].reply)
  BY DEF Return, Caller, TypeOK, Answers
<1>2. PICK l : copy' = [copy EXCEPT ![c[1]] = l]
  BY DEF Return
<1>3. l \in {copy[c[1]], Vacant, Keeps(c[1], call[c].request, call[c].reply)}
  BY <1>1, <1>2 DEF Return, TypeOK
<1>4. LET k == Keeps(c[1], call[c].request, call[c].reply) IN
        k # Vacant =>
              \/ k = copy[c[1]]
              \/ Fresh(c) /\ k = call[c].reply.lease
              \/ /\ copy[c[1]] # Vacant /\ k = call[c].reply.lease
                 /\ k.token = copy[c[1]].token
  BY <1>1 DEF Keeps, Fits2, Fresh, Asked, SameAuthority, Return
<1> QED
  BY <1>1, <1>2, <1>3, <1>4 DEF Return, TypeOK

(* A step that leaves the row alone, teaches nobody a lease, and asks      *)
(* nothing but about tenures that somebody holds already.                  *)
LEMMA QuietStore ==
  ASSUME StoreInv, UNCHANGED rowVars, Leases' \subseteq Leases,
         \A q \in Asks' :
           \/ q \in Asks
           \/ q.op = "claim" /\ q.to = Checking
           \/ /\ q.op # "claim"
              /\ q.phase = q.to \/ <<q.phase, q.to>> \in Moves
              /\ \E p \in Asks : p.op # "claim" /\ p.token = q.token
           \/ /\ q.op # "claim"
              /\ q.phase = q.to \/ <<q.phase, q.to>> \in Moves
              /\ \E s \in Session : copy[s] # Vacant /\ q.token = copy[s].token,
         \A c \in Caller : Fresh(c)' => Fresh(c) /\ call'[c] = call[c],
         \A s \in Session : copy'[s] # Vacant =>
           \/ copy[s] # Vacant /\ copy'[s].token = copy[s].token
           \/ \E c \in Caller : Fresh(c) /\ ~Fresh(c)'
                                /\ copy'[s].token = call[c].reply.lease.token
  PROVE  (AsksKnown /\ FreshGrant /\ RunStays)'
<1> USE DEF StoreInv
<1>1. token' = token /\ past' = past /\ lease' = lease
  BY DEF rowVars
<1>2. AsksKnown'
  <2> SUFFICES ASSUME NEW q \in Asks'
               PROVE  /\ q.op # "claim" => q.token \in 1..token
                      /\ q.op = "claim" => q.to = Checking
                      /\ q.op = "write" => q.phase = q.to \/ <<q.phase, q.to>> \in Moves
    BY <1>1 DEF AsksKnown
  <2>1. \A s \in Session : copy[s] # Vacant => copy[s].token \in 1..token
    BY DEF IInv, Lineage, Known
  <2>2. \A p \in Asks : p.op # "claim" => p.token \in 1..token
    BY DEF AsksKnown
  <2>3. CASE q \in Asks
    BY <2>3 DEF AsksKnown
  <2>4. CASE q.op = "claim" /\ q.to = Checking
    BY <2>4
  <2> QED
    BY <2>1, <2>2, <2>3, <2>4
<1>3. FreshGrant'
  <2> SUFFICES ASSUME NEW c \in Caller, Fresh(c)', NEW n, n = call'[c].reply.lease.token
               PROVE  /\ Unheard(n)'
                      /\ \A d \in Caller : d # c /\ Fresh(d)' =>
                           call'[d].reply.lease.token # n
    BY DEF FreshGrant, Fresh
  <2>1. /\ Fresh(c) /\ call'[c] = call[c] /\ Unheard(n)
        /\ \A d \in Caller : d # c /\ Fresh(d) => call[d].reply.lease.token # n
    BY DEF FreshGrant
  <2>2. \A q \in Asks' : q.op # "claim" => q.token # n
    BY <2>1, ZenonT(60) DEF Unheard
  <2>3. \A s \in Session : copy'[s] # Vacant => copy'[s].token # n
    BY <2>1 DEF Unheard
  <2>4. \A l \in Leases' : l.token = n => l.phase = Checking
    BY <2>1 DEF Unheard
  <2>5. LastRow(n)' # Vacant
    BY <1>1, <2>1 DEF Unheard, LastRow
  <2>6. \A d \in Caller : d # c /\ Fresh(d)' => call'[d].reply.lease.token # n
    BY <2>1
  <2> QED
    BY <2>1, <2>2, <2>3, <2>4, <2>5, <2>6 DEF Unheard, LastRow
<1>4. RunStays'
  BY <1>1 DEF RunStays, LastRow
<1> QED
  BY <1>2, <1>3, <1>4

(* A statement that runs, for a caller that waits for it or for none.      *)
LEMMA RunStore ==
  ASSUME StoreInv, TypeOK', NEW q \in Asks, Run(q), copy' = copy, now' = now,
         \A p \in Asks' : p \in Asks,
         \A l \in Leases' : l \in Leases \/ (lease' # Vacant /\ l = lease'),
         \A c \in Caller : Fresh(c)' =>
           \/ Fresh(c) /\ call'[c] = call[c]
           \/ /\ q.op = "claim" /\ token' = token + 1 /\ call'[c].reply.lease = lease'
              /\ \A d \in Caller : Fresh(d)' /\ d # c => Fresh(d) /\ call'[d] = call[d]
  PROVE  (AsksKnown /\ FreshGrant /\ RunStays)'
<1> USE DEF StoreInv
<1>0. /\ q \in Request /\ token \in Nat /\ now \in Nat
      /\ \A l \in Leases : l \in Lease /\ l.token \in 1..token
      /\ \A s \in Session : copy[s] # Vacant => copy[s].token \in 1..token
      /\ \A c \in Caller : Fresh(c) => call[c].reply.lease \in Leases
      /\ lease # Vacant => lease \in Leases
  <2>1. TypeOK /\ q \in Request /\ token \in Nat /\ now \in Nat
    BY StoreTypes DEF IInv, TypeOK
  <2>2. \A l \in Leases : l \in Lease
    BY <2>1, StoreTypes
  <2>3. \A l \in Leases : l.token \in 1..token
    BY <2>1 DEF IInv, Lineage, Leases
  <2>4. \A s \in Session : copy[s] # Vacant => copy[s] \in Leases
    BY <2>1, StoreTypes
  <2>5. \A c \in Caller : Fresh(c) => call[c].reply.lease \in Leases
    <3>1. \A c \in Caller : Fresh(c) => call[c].reply.lease \in Lease
      BY DEF Fresh, Answers, Fits2
    <3>2. \A c \in Caller : Fresh(c) => call[c].reply.lease # Vacant
      BY <3>1, VacantAssumption
    <3> QED
      BY <2>1, <3>2, StoreTypes DEF Fresh
  <2> QED
    BY <2>1, <2>2, <2>3, <2>4, <2>5, StoreTypes
<1>1. \/ /\ q.op = "claim" /\ token' = token + 1 /\ lease' = Grant(q, token + 1)
         /\ \A n \in 1..token : LastRow(n)' = LastRow(n)
      \/ /\ q.op = "write" /\ Fits(q) /\ token' = token /\ token > 0
         /\ lease' = Grant(q, token)
         /\ \A n \in Nat : n < token => LastRow(n)' = LastRow(n)
      \/ /\ q.op = "release" /\ Fits(q) /\ token' = token /\ lease' = Vacant
         /\ \A n \in Nat : n < token => LastRow(n)' = LastRow(n)
      \/ UNCHANGED <<token, lease, past>>
  BY <1>0, RunEffect
<1>2. AsksKnown'
  <2>1. token' \in {token, token + 1}
    BY <1>1
  <2>2. \A p \in Asks : p.op # "claim" => p.token \in 1..token
    BY DEF AsksKnown
  <2>3. \A p \in Asks : p.op # "claim" => p.token \in 1..token'
    <3>1. \A n \in 1..token : n \in 1..token'
      BY <1>0, <2>1
    <3> QED
      BY <2>2, <3>1
  <2> QED
    BY <2>3 DEF AsksKnown
<1>3. \A n \in 1..token : Unheard(n) =>
        /\ Unheard(n)'
        /\ q.op # "claim" => n # q.token
  <2> SUFFICES ASSUME NEW n \in 1..token, Unheard(n)
               PROVE  /\ Unheard(n)'
                      /\ q.op # "claim" => n # q.token
    OBVIOUS
  <2>1. q.op # "claim" => n # q.token
    BY DEF Unheard
  <2>2. LastRow(n)' = LastRow(n)
    <3>1. CASE q.op = "claim"
      BY <1>0, <1>1, <3>1 DEF LastRow
    <3>2. CASE UNCHANGED <<token, lease, past>>
      BY <3>2 DEF LastRow
    <3>3. CASE Fits(q) /\ q.op # "claim" /\ token' = token
               /\ \A m \in Nat : m < token => LastRow(m)' = LastRow(m)
      <4>1. n # token
        BY <2>1, <3>3 DEF Fits
      <4>2. n < token /\ n \in Nat
        BY <1>0, <4>1
      <4> QED
        BY <3>3, <4>2
    <3> QED
      BY <1>1, <3>1, <3>2, <3>3
  <2>3. \A l \in Leases' : l.token = n => l.phase = Checking
    <3> SUFFICES ASSUME lease' # Vacant, lease' \notin Leases, lease'.token = n PROVE FALSE
      BY DEF Unheard
    <3>1. lease'.token = IF q.op = "claim" THEN token + 1 ELSE token
      BY <1>0, <1>1 DEF Grant
    <3>2. q.op # "claim" => Fits(q)
      BY <1>0, <1>1
    <3> QED
      BY <1>0, <2>1, <3>1, <3>2 DEF Fits
  <2> QED
    BY <2>1, <2>2, <2>3 DEF Unheard
<1>4. FreshGrant'
  <2> SUFFICES ASSUME NEW c \in Caller, Fresh(c)', NEW n, n = call'[c].reply.lease.token
               PROVE  /\ Unheard(n)'
                      /\ \A d \in Caller : d # c /\ Fresh(d)' =>
                           call'[d].reply.lease.token # n
    BY DEF FreshGrant, Fresh
  <2>1. CASE Fresh(c) /\ call'[c] = call[c]
    <3>1. /\ n \in 1..token /\ Unheard(n)
          /\ \A d \in Caller : d # c /\ Fresh(d) => call[d].reply.lease.token # n
      BY <1>0, <2>1 DEF FreshGrant
    <3>2. ASSUME NEW d \in Caller, d # c, Fresh(d)'
          PROVE  call'[d].reply.lease.token # n
      <4>1. CASE Fresh(d) /\ call'[d] = call[d]
        BY <3>1, <3>2, <4>1
      <4>2. CASE q.op = "claim" /\ token' = token + 1 /\ call'[d].reply.lease = lease'
        BY <1>0, <1>1, <3>1, <4>2 DEF Grant
      <4> QED
        BY <3>2, <4>1, <4>2
    <3> QED
      BY <1>3, <3>1, <3>2
  <2>2. CASE /\ q.op = "claim" /\ token' = token + 1 /\ call'[c].reply.lease = lease'
             /\ \A d \in Caller : Fresh(d)' /\ d # c => Fresh(d) /\ call'[d] = call[d]
    <3>1. lease' = Grant(q, token + 1) /\ lease' # Vacant /\ q.to = Checking
      <4>1. lease' = Grant(q, token + 1)
        BY <1>0, <1>1, <2>2
      <4>2. Grant(q, token + 1) \in Lease
        BY <1>0, GrantType DEF IInv
      <4> QED
        <5>1. q.op = "claim" => q.to = Checking
          BY DEF AsksKnown
        <5> QED
          BY <2>2, <4>1, <4>2, <5>1, VacantAssumption
    <3>2. lease'.token = token + 1 /\ lease'.phase = Checking
      BY <3>1 DEF Grant
    <3> n = token + 1
      BY <2>2, <3>2
    <3>3. Unheard(n)'
      <4>1. \A p \in Asks' : p.op # "claim" => p.token # n
        <5>1. \A p \in Asks : p.op # "claim" => p.token \in 1..token
          BY DEF AsksKnown
        <5> QED
          BY <1>0, <5>1
      <4>2. \A s \in Session : copy'[s] # Vacant => copy'[s].token # n
        BY <1>0
      <4>3. \A l \in Leases' : l.token = n => l.phase = Checking
        BY <1>0, <3>2
      <4>4. LastRow(n)' # Vacant
        BY <1>0, <2>2, <3>1 DEF LastRow
      <4> QED
        BY <4>1, <4>2, <4>3, <4>4 DEF Unheard
    <3>4. \A d \in Caller : d # c /\ Fresh(d)' => call'[d].reply.lease.token # n
      BY <1>0, <2>2
    <3> QED
      BY <3>3, <3>4
  <2> QED
    BY <2>1, <2>2
<1>5. RunStays'
  <2> SUFFICES ASSUME NEW l \in Leases', l.phase = RunCommitted
               PROVE  LastRow(l.token)' = Vacant \/ LastRow(l.token)'.phase = RunCommitted
    BY DEF RunStays, LastRow
  <2>1. CASE l \in Leases
    <3>1. l.token \in 1..token /\ (LastRow(l.token) = Vacant \/ LastRow(l.token).phase = RunCommitted)
      BY <1>0, <2>1 DEF RunStays
    <3>2. CASE q.op = "claim" \/ l.token < token
      BY <1>0, <1>1, <3>1, <3>2 DEF LastRow
    <3>3. CASE q.op # "claim" /\ l.token = token
      <4>1. LastRow(l.token) = lease /\ (token' = token => LastRow(l.token)' = lease')
        BY <1>0, <3>3 DEF LastRow
      <4>2. CASE q.op = "write" /\ Fits(q) /\ lease' = Grant(q, token)
        <5>1. q.phase = RunCommitted /\ q.to = RunCommitted
          BY <3>1, <4>1, <4>2, PhasesAssumption DEF Fits, Live, AsksKnown
        <5> QED
          BY <1>1, <3>3, <4>1, <4>2, <5>1 DEF Grant
      <4> QED
        BY <1>1, <3>1, <3>3, <4>1, <4>2
    <3> QED
      BY <1>0, <3>1, <3>2, <3>3
  <2>2. CASE lease' # Vacant /\ l = lease'
    <3>1. LastRow(l.token)' = lease'
      <4>1. CASE lease \in Lease /\ UNCHANGED <<token, lease, past>>
        BY <2>2, <4>1, <1>0 DEF LastRow, IInv, Lineage
      <4> QED
        BY <1>0, <1>1, <2>2, <4>1 DEF Grant, LastRow
    <3> QED
      BY <2>2, <3>1
  <2> QED
    BY <2>1, <2>2
<1> QED
  BY <1>2, <1>4, <1>5

LEMMA CallRecord ==
  ASSUME NEW q \in Request, NEW r \in Reply, NEW at \in {"sent", "answered"}
  PROVE  [at |-> at, request |-> q, reply |-> r] \in Call \ {NoCall}
BY NoCallAssumption DEF Call

LEMMA SilenceType ==
  Silence \in Reply /\ Silence.kind = "none" /\ Silence.lease = Vacant
BY DEF Silence, Reply

LEMMA StoreStep == StoreInv /\ [Next]_vars => StoreInv'
<1> SUFFICES ASSUME StoreInv, [Next]_vars PROVE StoreInv'
  OBVIOUS
<1> USE DEF StoreInv
<1>0. IInv' /\ TypeOK /\ TypeOK'
  BY InvStep DEF IInv
<1>a. ASSUME UNCHANGED <<rowVars, stray, copy>>,
             \A c \in Caller : call'[c] # NoCall => call[c] # NoCall /\ call'[c] = call[c]
      PROVE  StoreInv'
  <2>1. Asks' \subseteq Asks /\ Leases' \subseteq Leases
    BY <1>a DEF Asks, Leases, Known, rowVars
  <2>2. (AsksKnown /\ FreshGrant /\ RunStays)'
    BY <1>a, <2>1, QuietStore DEF Fresh
  <2>3. Answers'
    BY <1>a DEF Answers
  <2> QED
    BY <1>0, <2>2, <2>3
<1>1. CASE Tick
  BY <1>1, <1>a DEF Tick
<1>2. ASSUME NEW c \in Caller, Issue(c) PROVE StoreInv'
  <2>1. PICK q \in Request :
           /\ call[c] = NoCall /\ q.session = c[1]
           /\ call' = [call EXCEPT ![c] = [at |-> "sent", request |-> q, reply |-> Silence]]
           /\ UNCHANGED <<now, rowVars, stray, copy>>
           /\ \/ q.op = "claim" /\ q.to = Checking
              \/ /\ q.op \in {"write", "release", "current"}
                 /\ copy[c[1]] # Vacant /\ q.token = copy[c[1]].token
                 /\ q.phase = q.to \/ <<q.phase, q.to>> \in Moves
    BY <1>0, <1>2, IssueEffect
  <2> DEFINE sent == [at |-> "sent", request |-> q, reply |-> Silence]
  <2>2. \A d \in Caller : call'[d] = IF d = c THEN sent ELSE call[d]
    BY <1>0, <2>1 DEF TypeOK
  <2>3. sent # NoCall /\ sent.request = q /\ sent.reply = Silence /\ Silence.kind = "none"
        /\ Silence.lease = Vacant /\ sent.at = "sent"
    <3>1. sent # NoCall
      BY CallRecord, SilenceType
    <3> QED
      BY <3>1, SilenceType
  <2>4. \A p \in Asks' : p \in Asks \/ p = q
    BY <2>1, <2>2, <2>3 DEF Asks
  <2>5. Leases' \subseteq Leases
    BY <2>1, <2>2, <2>3 DEF Leases, Known, rowVars
  <2>6. \A d \in Caller : Fresh(d)' => Fresh(d) /\ call'[d] = call[d]
    BY <2>2, <2>3 DEF Fresh
  <2>7. c[1] \in Session
    BY DEF Caller
  <2>8. (AsksKnown /\ FreshGrant /\ RunStays)'
    BY <2>1, <2>4, <2>5, <2>6, <2>7, QuietStore
  <2>9. Answers'
    BY <2>1, <2>2, <2>3 DEF Answers, Fits2
  <2> QED
    BY <1>0, <2>8, <2>9
<1>3. ASSUME NEW c \in Caller, Serve(c) PROVE StoreInv'
  <2>0. PICK q \in Request : q = call[c].request /\ call[c] # NoCall /\ call[c].at = "sent"
    BY <1>0, <1>3 DEF Serve, TypeOK, Call
  <2>1. Run(q) /\ now' = now /\ copy' = copy /\ stray' = stray /\ q \in Asks
    BY <1>3, <2>0 DEF Serve, Asks
  <2> DEFINE served == [call[c] EXCEPT !.at = "answered", !.reply = Answer(q)]
  <2>2. \A d \in Caller : call'[d] = IF d = c THEN served ELSE call[d]
    BY <1>0, <1>3, <2>0 DEF TypeOK, Serve
  <2>3. /\ served # NoCall /\ served.request = q /\ served.reply = Answer(q)
        /\ served.at = "answered"
    <3>1. Answer(q) \in Reply /\ call[c] \in Call
      BY <1>0, <2>0, AnswerType DEF TypeOK
    <3>2. served \in Call /\ served.request = q /\ served.reply = Answer(q) /\ served.at = "answered"
      BY <2>0, <3>1 DEF Call
    <3> QED
      BY <3>2, NoCallAssumption
  <2> HIDE DEF served
  <2>4. Answer(q).lease \in {Vacant, lease'}
    BY <1>0, <2>1, AnswerNamesRow
  <2>5. \A p \in Asks' : p \in Asks
    BY <2>0, <2>1, <2>2, <2>3 DEF Asks
  <2>6. \A l \in Leases' : l \in Leases \/ (lease' # Vacant /\ l = lease')
    BY <2>0, <2>1, <2>2, <2>3, <2>4 DEF Leases, Known
  <2>7. Fits2(q, Answer(q))
    BY <1>0, AnswerFits
  <2>8. ~Fresh(c)
    BY <2>0 DEF Answers, Silence, Fresh
  <2>9. ASSUME Fresh(c)'
        PROVE  q.op = "claim" /\ token' = token + 1 /\ call'[c].reply.lease = lease'
    <3>1. q.op = "claim" /\ Answer(q).kind = "granted"
      BY <2>2, <2>3, <2>9 DEF Fresh
    <3>2. Takes(q)
      BY <3>1 DEF Answer
    <3>3. token' = token + 1
      BY <2>1, <3>1, <3>2 DEF Run, Claimed, Extended, Cleared, Untouched
    <3>4. Answer(q).lease # Vacant
      BY <2>7, <3>1, VacantAssumption DEF Fits2
    <3> QED
      BY <2>2, <2>3, <2>4, <3>1, <3>3, <3>4
  <2>10. \A d \in Caller : Fresh(d)' /\ d # c => Fresh(d) /\ call'[d] = call[d]
    BY <2>2 DEF Fresh
  <2>11. (AsksKnown /\ FreshGrant /\ RunStays)'
    BY <1>0, <2>1, <2>5, <2>6, <2>9, <2>10, RunStore
  <2>12. Answers'
    BY <2>0, <2>2, <2>3, <2>7 DEF Answers
  <2> QED
    BY <1>0, <2>11, <2>12
<1>4. ASSUME NEW c \in Caller, Resend(c) PROVE StoreInv'
  <2> DEFINE q == [call[c].request EXCEPT !.attempt = 2]
             again == [at |-> "sent", request |-> q, reply |-> Silence]
  <2>0. call[c].request \in Request /\ q \in Request
    <3>1. call[c].request \in Request
      BY <1>0, <1>4 DEF Resend, Abandon, TypeOK, Call
    <3> QED
      BY <3>1 DEF Request
  <2>1. /\ call[c] # NoCall /\ UNCHANGED <<now, rowVars, copy>>
        /\ stray' = stray \/ stray' = stray \cup {call[c].request}
        /\ call[c].request \in Request /\ call[c].request \in Asks
    BY <1>0, <1>4 DEF Resend, Abandon, TypeOK, Call, Asks
  <2>2. \A d \in Caller : call'[d] = IF d = c THEN again ELSE call[d]
    BY <1>0, <1>4 DEF Resend, TypeOK
  <2>3. /\ again # NoCall /\ again.request = q /\ again.reply = Silence /\ Silence.kind = "none"
        /\ Silence.lease = Vacant /\ again.at = "sent"
    <3>1. again # NoCall
      BY <2>0, CallRecord, SilenceType
    <3> HIDE DEF q
    <3> QED
      BY <3>1, SilenceType
  <2>4. /\ q.op = call[c].request.op /\ q.token = call[c].request.token
        /\ q.phase = call[c].request.phase /\ q.to = call[c].request.to
        /\ q.session = call[c].request.session
    BY <2>1 DEF Request
  <2>5. \A p \in Asks' : p \in Asks \/ p = q
    BY <2>1, <2>2, <2>3 DEF Asks
  <2>6. Leases' \subseteq Leases
    BY <2>1, <2>2, <2>3 DEF Leases, Known, rowVars
  <2>7. \A d \in Caller : Fresh(d)' => Fresh(d) /\ call'[d] = call[d]
    BY <2>2, <2>3 DEF Fresh
  <2>8. /\ q.op = "claim" => q.to = Checking
        /\ q.op = "write" => q.phase = q.to \/ <<q.phase, q.to>> \in Moves
    BY <2>1, <2>4 DEF AsksKnown
  <2>9. AsksKnown'
    <3> SUFFICES ASSUME NEW p \in Asks'
                 PROVE  /\ p.op # "claim" => p.token \in 1..token
                        /\ p.op = "claim" => p.to = Checking
                        /\ p.op = "write" => p.phase = p.to \/ <<p.phase, p.to>> \in Moves
      BY <2>1 DEF AsksKnown, rowVars
    <3>1. q.op # "claim" => q.token \in 1..token
      BY <2>1, <2>4 DEF AsksKnown
    <3>2. CASE p \in Asks
      BY <3>2 DEF AsksKnown
    <3> QED
      BY <2>5, <2>8, <3>1, <3>2
  <2>10. (FreshGrant /\ RunStays)'
    <3>1. token' = token /\ past' = past /\ lease' = lease /\ copy' = copy
      BY <2>1 DEF rowVars
    <3>2. RunStays'
      BY <2>6, <3>1 DEF RunStays, LastRow
    <3>3. FreshGrant'
      <4> SUFFICES ASSUME NEW e \in Caller, Fresh(e)', NEW n, n = call'[e].reply.lease.token
                   PROVE  /\ Unheard(n)'
                          /\ \A d \in Caller : d # e /\ Fresh(d)' =>
                               call'[d].reply.lease.token # n
        BY DEF FreshGrant, Fresh
      <4>1. /\ Fresh(e) /\ call'[e] = call[e] /\ Unheard(n)
            /\ \A d \in Caller : d # e /\ Fresh(d) => call[d].reply.lease.token # n
        BY <2>7 DEF FreshGrant
      <4>2. \A p \in Asks : p.op # "claim" => p.token # n
        BY <4>1 DEF Unheard
      <4>3. \A p \in Asks' : p.op # "claim" => p.token # n
        BY <2>1, <2>4, <2>5, <4>2
      <4>4. Unheard(n)'
        BY <2>6, <3>1, <4>1, <4>3 DEF Unheard, LastRow
      <4> QED
        BY <2>7, <4>1, <4>4
    <3> QED
      BY <3>2, <3>3
  <2>11. Answers'
    <3> SUFFICES ASSUME NEW d \in Caller, call'[d] # NoCall
                 PROVE  /\ call'[d].request.session = d[1]
                        /\ call'[d].at = "sent" => call'[d].reply = Silence
                        /\ Fits2(call'[d].request, call'[d].reply)
      BY DEF Answers, Fits2
    <3>1. CASE d # c
      BY <2>2, <3>1 DEF Answers
    <3>2. CASE d = c
      <4>1. call[c].request.session = c[1]
        BY <2>1 DEF Answers
      <4> HIDE DEF q
      <4>2. Fits2(q, Silence)
        BY SilenceType DEF Fits2
      <4>3. call'[d] = again
        BY <2>2, <3>2
      <4> QED
        BY <2>3, <2>4, <3>2, <4>1, <4>2, <4>3
    <3> QED
      BY <3>1, <3>2
  <2> QED
    BY <1>0, <2>9, <2>10, <2>11
<1>5. ASSUME NEW c \in Caller, GiveUp(c) PROVE StoreInv'
  <2>1. /\ call[c] # NoCall /\ UNCHANGED <<now, rowVars, copy>>
        /\ stray' = stray \/ stray' = stray \cup {call[c].request}
    BY <1>5 DEF GiveUp, Abandon
  <2>2. \A d \in Caller : call'[d] # NoCall => call[d] # NoCall /\ call'[d] = call[d]
    BY <1>0, <1>5 DEF GiveUp, TypeOK
  <2>3. Asks' \subseteq Asks /\ Leases' \subseteq Leases
    BY <2>1, <2>2 DEF Asks, Leases, Known, rowVars
  <2>4. (AsksKnown /\ FreshGrant /\ RunStays)'
    BY <2>1, <2>2, <2>3, QuietStore DEF Fresh
  <2>5. Answers'
    BY <2>2 DEF Answers
  <2> QED
    BY <1>0, <2>4, <2>5
<1>6. ASSUME NEW c \in Caller, Return(c) PROVE StoreInv'
  <2>1. /\ call[c] # NoCall /\ call' = [call EXCEPT ![c] = NoCall]
        /\ UNCHANGED <<now, rowVars, minted, stray, faults>>
        /\ c[1] \in Session
        /\ \A s \in Session : s # c[1] => copy'[s] = copy[s]
        /\ copy'[c[1]] # Vacant =>
              \/ copy'[c[1]] = copy[c[1]]
              \/ Fresh(c) /\ copy'[c[1]] = call[c].reply.lease
              \/ /\ copy[c[1]] # Vacant /\ copy'[c[1]] = call[c].reply.lease
                 /\ copy'[c[1]].token = copy[c[1]].token
    BY <1>0, <1>6, ReturnEffect
  <2>2. \A d \in Caller : call'[d] # NoCall => call[d] # NoCall /\ call'[d] = call[d]
    BY <1>0, <2>1 DEF TypeOK
  <2>3. Asks' \subseteq Asks
    BY <2>1, <2>2 DEF Asks
  <2>4. Leases' \subseteq Leases
    BY <2>1, <2>2 DEF Leases, Known, rowVars
  <2>5. ~Fresh(c)'
    BY <1>0, <2>1 DEF Fresh, TypeOK
  <2>6. (AsksKnown /\ FreshGrant /\ RunStays)'
    BY <2>1, <2>2, <2>3, <2>4, <2>5, QuietStore DEF Fresh
  <2>7. Answers'
    BY <2>2 DEF Answers
  <2> QED
    BY <1>0, <2>6, <2>7
<1>7. ASSUME NEW q \in stray, ServeStray(q) PROVE StoreInv'
  <2>1. Run(q) /\ UNCHANGED <<now, call, copy>> /\ stray' \subseteq stray /\ q \in Asks
    BY <1>7 DEF ServeStray, Asks
  <2>2. \A p \in Asks' : p \in Asks
    BY <2>1 DEF Asks
  <2>3. \A l \in Leases' : l \in Leases \/ (lease' # Vacant /\ l = lease')
    BY <2>1 DEF Leases, Known
  <2>4. (AsksKnown /\ FreshGrant /\ RunStays)'
    BY <1>0, <2>1, <2>2, <2>3, RunStore DEF Fresh
  <2>5. Answers'
    BY <2>1 DEF Answers
  <2> QED
    BY <1>0, <2>4, <2>5
<1>8. ASSUME NEW s \in Session, Forget(s) PROVE StoreInv'
  <2>1. UNCHANGED <<now, rowVars, call, stray>>
        /\ \A o \in Session : copy'[o] # Vacant => copy'[o] = copy[o]
    BY <1>0, <1>8 DEF Forget, TypeOK
  <2>2. Asks' \subseteq Asks /\ Leases' \subseteq Leases
    BY <2>1 DEF Asks, Leases, Known, rowVars
  <2>3. (AsksKnown /\ FreshGrant /\ RunStays)'
    BY <2>1, <2>2, QuietStore DEF Fresh
  <2>4. Answers'
    BY <2>1 DEF Answers
  <2> QED
    BY <1>0, <2>3, <2>4
<1>9. CASE UNCHANGED vars
  BY <1>9, <1>a DEF vars, rowVars
<1> QED
  BY <1>1, <1>2, <1>3, <1>4, <1>5, <1>6, <1>7, <1>8, <1>9 DEF Next

-----------------------------------------------------------------------------
(* What one session knows.                                                 *)

Fencing(q, l) == l # Vacant /\ q.id = l.id /\ q.token = l.token

(* Each stage waits for one statement, about the lease the session has.    *)
CallFits(s) ==
  call[M(s)] # NoCall =>
    LET q == call[M(s)].request IN
    \/ At(s, {"claiming"}) /\ q.op = "claim"
    \/ /\ Fencing(q, copy[s])
       /\ \/ At(s, {"arming"}) /\ q.op = "write" /\ q.phase = Checking /\ q.to = Armed
          \/ At(s, {"ringing"}) /\ q.op = "write" /\ q.phase = Armed /\ q.to = RunCommitted
          \/ At(s, {"converging", "expiring", "probing", "reprobing"}) /\ q.op = "current"
          \/ At(s, {"settling", "retrying"}) /\ q.op = "release" /\ q.phase = copy[s].phase

BeatFits(s) ==
  call[B(s)] # NoCall =>
    call[B(s)].request.op = "write" /\ call[B(s)].request.phase = call[B(s)].request.to

CopyFits(s) ==
  /\ copy[s] = Vacant <=> At(s, {"idle", "claiming"})
  /\ At(s, {"checking", "arming"}) => copy[s].phase = Checking
  /\ At(s, {"armed", "ringing", "converging", "expiring"}) => copy[s].phase = Armed
  /\ At(s, {"running"}) => copy[s].phase = RunCommitted
  /\ copy[s] # Vacant => copy[s].session = s

(* The phases a tenure was, or may still be, moved to.                     *)
Named(n, phases) ==
  /\ \A l \in Leases : l.token = n => l.phase \in phases
  /\ \A q \in Asks : q.op = "write" /\ q.token = n => q.to \in phases

Unsent(s) ==
  /\ At(s, {"checking"}) \/ (At(s, {"arming"}) /\ Quiet(M(s))) =>
       Named(copy[s].token, {Checking})
  /\ At(s, {"arming", "armed"}) => Named(copy[s].token, {Checking, Armed})

Ahead(p, to) ==
  (p = Checking /\ to \in {Armed, RunCommitted}) \/ (p = Armed /\ to = RunCommitted)

(* What a transition granted was granted after it was sent.                *)
AheadIsLater(s) ==
  copy[s] # Vacant =>
    \A l \in Leases : l.token = copy[s].token /\ Ahead(copy[s].phase, l.phase) =>
       l.expires >= rec[s].sent + Ttl[l.phase]

ClaimStamp(s) ==
  At(s, {"claiming"}) /\ Answered(M(s), "granted") =>
    Row(s).expires >= rec[s].sent + Ttl[Checking]

RenewStamp(s) ==
  Answered(B(s), "granted") =>
    call[B(s)].reply.lease.expires >= rec[s].renewed + Ttl[call[B(s)].request.to]

Clocks(s) == rec[s].sent <= now /\ rec[s].renewed <= now

(* The proof never outlives the stamp of the lease it is about.            *)
Stamped(s) == copy[s] # Vacant => rec[s].proof <= copy[s].expires

(* Nobody has released, or is about to release, the tenure of a card that  *)
(* has not finished.                                                       *)
Held(s) ==
  At(s, {"checking", "arming", "armed", "ringing", "running"}) =>
    /\ LastRow(copy[s].token) # Vacant
    /\ \A q \in Asks : q.op = "release" => q.token # copy[s].token

(* A run's heartbeat renews or gives up before the proof runs out.         *)
Timely(s) ==
  At(s, {"running"}) =>
    /\ rec[s].beat \in {"on", "losing"} /\ now < rec[s].proof
    /\ rec[s].beat = "on" /\ Quiet(B(s)) =>
         /\ rec[s].wake <= now \/ rec[s].wake < rec[s].proof
         /\ rec[s].proof < rec[s].wake + Ttl[RunCommitted]
    /\ rec[s].beat = "on" /\ ~Quiet(B(s)) =>
         /\ Asked(call[B(s)].request, copy[s])
         /\ rec[s].proof < rec[s].renewed + Ttl[RunCommitted]
         /\ now + Heartbeat <= rec[s].proof

Local(s) ==
  /\ CallFits(s) /\ BeatFits(s) /\ CopyFits(s) /\ Unsent(s) /\ AheadIsLater(s)
  /\ ClaimStamp(s) /\ RenewStamp(s) /\ Clocks(s) /\ Stamped(s) /\ Held(s) /\ Timely(s)

FenceInv == StoreInv /\ HolderTypeOK /\ \A s \in Session : Local(s)

-----------------------------------------------------------------------------
(* Steps of the store and of other sessions.                               *)

LEMMA TwoCallers ==
  ASSUME NEW s \in Session
  PROVE  /\ M(s) \in Caller /\ B(s) \in Caller /\ M(s) # B(s)
         /\ \A o \in Session : o # s => {M(s), B(s)} \cap {M(o), B(o)} = {}
         /\ \A c \in Caller : c[1] = s => c \in {M(s), B(s)}
         /\ M(s)[1] = s /\ B(s)[1] = s
BY SlotAssumption DEF M, B, Caller

(* The session's own record, lease and calls stay as they are, and nobody  *)
(* asks anything new about its tenure.                                     *)
LEMMA Bystander ==
  ASSUME NEW s \in Session, Local(s), rec'[s] = rec[s], copy'[s] = copy[s],
         call'[M(s)] = call[M(s)], call'[B(s)] = call[B(s)], UNCHANGED <<now, rowVars>>,
         Leases' \subseteq Leases,
         \A q \in Asks' :
           q \in Asks \/ q.op = "claim" \/ (copy[s] # Vacant => q.token # copy[s].token)
  PROVE  Local(s)'
<1> USE DEF At, Quiet
<1>0. token' = token /\ past' = past /\ lease' = lease /\ now' = now
  BY DEF rowVars
<1>1. CallFits(s)' /\ BeatFits(s)' /\ CopyFits(s)'
  BY DEF Local, CallFits, BeatFits, CopyFits, Fencing
<1>2. ASSUME NEW phases, copy[s] # Vacant, Named(copy[s].token, phases)
      PROVE  Named(copy[s].token, phases)'
  BY <1>2 DEF Named
<1>3. Unsent(s)'
  BY <1>2 DEF Local, Unsent, CopyFits
<1>4. AheadIsLater(s)'
  BY DEF Local, AheadIsLater, Ahead
<1>5. ClaimStamp(s)' /\ RenewStamp(s)' /\ Clocks(s)' /\ Stamped(s)'
  BY <1>0 DEF Local, ClaimStamp, RenewStamp, Clocks, Stamped, Answered, Row
<1>6. Held(s)'
  BY <1>0 DEF Local, Held, CopyFits, LastRow
<1>7. Timely(s)'
  BY <1>0 DEF Local, Timely, Asked
<1> QED
  BY <1>1, <1>3, <1>4, <1>5, <1>6, <1>7 DEF Local

(* A session's step, as the store sees it.                                 *)
StoreCall(s) ==
  \/ UNCHANGED vars
  \/ Forget(s)
  \/ \E c \in {M(s), B(s)} : Issue(c) \/ GiveUp(c) \/ Return(c)

LEMMA OwnStep ==
  ASSUME HolderTypeOK, NEW o \in Session, Bout(o) \/ Settle(o) \/ Heart(o)
  PROVE  StoreCall(o) /\ \A s \in Session : s # o => rec'[s] = rec[s]
<1> USE HolderConstants DEF HolderTypeOK, Become, Goto
<1>1. CASE StartClaim(o) \/ SendArm(o) \/ RingBell(o) \/ AskHolder(o) \/ WatchFence(o)
             \/ ReleaseOnce(o) \/ Probe(o)
  <2>1. Issue(M(o))
    <3>1. CASE SendArm(o) \/ RingBell(o)
      <4>1. \E move \in Moves : Transition(M(o), move[1], move[2])
        BY <3>1 DEF SendArm, RingBell
      <4> QED
        BY <4>1 DEF Issue
    <3> QED
      BY <1>1, <3>1 DEF StartClaim, AskHolder, WatchFence, ReleaseOnce, Probe, Issue
  <2> QED
    BY <1>1, <2>1 DEF StoreCall, StartClaim, SendArm, RingBell, AskHolder, WatchFence,
                      ReleaseOnce, Probe
<1>2. CASE BeatRenews(o)
  BY <1>2 DEF StoreCall, BeatRenews, Issue
<1>3. CASE ClaimWon(o) \/ ClaimRefused(o) \/ ArmCommitted(o) \/ ArmFails(o)
             \/ BellCommitted(o) \/ BellUnconfirmed(o) \/ Converged(o)
             \/ ConvergenceFails(o) \/ FenceSeen(o)
  <2>1. Return(M(o)) \/ GiveUp(M(o))
    BY <1>3 DEF ClaimWon, ClaimRefused, ArmCommitted, ArmFails, BellCommitted,
                BellUnconfirmed, Converged, ConvergenceFails, FenceSeen
  <2>2. \A s \in Session : s # o => rec'[s] = rec[s]
    BY <1>3 DEF ClaimWon, ClaimRefused, ArmCommitted, ArmFails, BellCommitted,
                BellUnconfirmed, Converged, ConvergenceFails, FenceSeen
  <2> QED
    BY <2>1, <2>2 DEF StoreCall
<1>4. CASE ReleaseConfirmed(o) \/ ReleaseUnconfirmed(o) \/ Probed(o)
  <2>1. Return(M(o)) \/ GiveUp(M(o))
    BY <1>4 DEF ReleaseConfirmed, ReleaseUnconfirmed, Probed
  <2>2. \A s \in Session : s # o => rec'[s] = rec[s]
    BY <1>4 DEF ReleaseConfirmed, ReleaseUnconfirmed, Probed, ProbeGone, ProbeOurs,
                ProbeArmed, ProbeTaken
  <2> QED
    BY <2>1, <2>2 DEF StoreCall
<1>5. CASE BeatAnswered(o) \/ BeatUnanswered(o) \/ RenewalDropped(o)
  <2>1. Return(B(o)) \/ GiveUp(B(o))
    BY <1>5 DEF BeatAnswered, BeatUnanswered, RenewalDropped
  <2>2. \A s \in Session : s # o => rec'[s] = rec[s]
    BY <1>5 DEF BeatAnswered, BeatUnanswered, RenewalDropped
  <2> QED
    BY <2>1, <2>2 DEF StoreCall
<1>6. CASE StartArming(o) \/ CheckFails(o) \/ AbandonArmed(o) \/ Finish(o) \/ WorkStops(o)
             \/ SettleUnknown(o) \/ RetryEnds(o) \/ BeatEnds(o) \/ BeatTooLate(o) \/ Lose(o)
  BY <1>6 DEF StartArming, CheckFails, AbandonArmed, Finish, WorkStops, SettleUnknown,
              RetryEnds, BeatEnds, BeatTooLate, Lose, StoreCall
<1> QED
  BY <1>1, <1>2, <1>3, <1>4, <1>5, <1>6 DEF Bout, Settle, Heart

(* A step that changes neither the row nor what anybody knows or asks.     *)
Calm == UNCHANGED <<now, rowVars>> /\ Leases' \subseteq Leases /\ Asks' \subseteq Asks

LEMMA GiveUpFrame ==
  ASSUME TypeOK, NEW c \in Caller, GiveUp(c)
  PROVE  /\ Calm /\ copy' = copy
         /\ \A d \in Caller : call'[d] = IF d = c THEN NoCall ELSE call[d]
<1>1. /\ call[c] # NoCall /\ UNCHANGED <<now, rowVars, copy>>
      /\ stray' = stray \/ stray' = stray \cup {call[c].request}
  BY DEF GiveUp, Abandon
<1>2. \A d \in Caller : call'[d] = IF d = c THEN NoCall ELSE call[d]
  BY DEF GiveUp, TypeOK
<1> QED
  BY <1>1, <1>2 DEF Calm, Asks, Leases, Known, rowVars

LEMMA ReturnFrame ==
  ASSUME TypeOK, Answers, NEW o \in Session, NEW c \in {M(o), B(o)}, Return(c)
  PROVE  /\ Calm
         /\ \A d \in Caller : call'[d] = IF d = c THEN NoCall ELSE call[d]
         /\ \A s \in Session : s # o => copy'[s] = copy[s]
         /\ \/ copy'[o] = Keeps(o, call[c].request, call[c].reply)
            \/ call[c].reply.kind \in {"refused", "row"} /\ copy'[o] \in {Vacant, copy[o]}
<1> USE TwoCallers
<1>1. /\ call[c] # NoCall /\ call' = [call EXCEPT ![c] = NoCall]
      /\ UNCHANGED <<now, rowVars, minted, stray, faults>>
      /\ \A s \in Session : s # o => copy'[s] = copy[s]
      /\ copy'[o] \in {Vacant, copy[o], call[c].reply.lease}
  BY ReturnEffect
<1>2. \A d \in Caller : call'[d] = IF d = c THEN NoCall ELSE call[d]
  BY <1>1 DEF TypeOK
<1>3. Calm
  BY <1>1, <1>2 DEF Calm, Asks, Leases, Known, rowVars
<1>4. \/ copy'[o] = Keeps(o, call[c].request, call[c].reply)
      \/ call[c].reply.kind \in {"refused", "row"} /\ copy'[o] \in {Vacant, copy[o]}
  BY DEF Return, TypeOK
<1> QED
  BY <1>1, <1>2, <1>3, <1>4

(* It leaves the row and the other sessions alone, and asks only about the *)
(* tenure the session has.                                                 *)
LEMMA StoreCallFrame ==
  ASSUME StoreInv, NEW o \in Session, StoreCall(o)
  PROVE  /\ UNCHANGED <<now, rowVars>>
         /\ Leases' \subseteq Leases
         /\ \A d \in Caller : d[1] # o => call'[d] = call[d]
         /\ \A s \in Session : s # o => copy'[s] = copy[s]
         /\ \A q \in Asks' :
              \/ q \in Asks
              \/ q.op = "claim"
              \/ copy[o] # Vacant /\ q.token = copy[o].token
<1> USE TwoCallers DEF StoreInv, IInv
<1>1. CASE UNCHANGED vars
  BY <1>1 DEF vars, Asks, Leases, Known, rowVars
<1>2. CASE Forget(o)
  <2>1. /\ UNCHANGED <<now, rowVars, call, stray>>
        /\ \A s \in Session : s # o => copy'[s] = copy[s]
        /\ \A s \in Session : copy'[s] # Vacant => copy'[s] = copy[s]
    BY <1>2 DEF Forget, TypeOK
  <2>2. Asks' = Asks
    BY <2>1 DEF Asks
  <2>3. Leases' \subseteq Leases
    BY <2>1 DEF Leases, Known, rowVars
  <2> QED
    BY <2>1, <2>2, <2>3
<1>3. ASSUME NEW c \in {M(o), B(o)}, Issue(c)
      PROVE  /\ UNCHANGED <<now, rowVars>>
             /\ Leases' \subseteq Leases
             /\ \A d \in Caller : d # c => call'[d] = call[d]
             /\ copy' = copy
             /\ \A q \in Asks' :
                  \/ q \in Asks
                  \/ q.op = "claim"
                  \/ copy[o] # Vacant /\ q.token = copy[o].token
  <2>1. PICK q \in Request :
           /\ call[c] = NoCall /\ q.session = c[1]
           /\ call' = [call EXCEPT ![c] = [at |-> "sent", request |-> q, reply |-> Silence]]
           /\ UNCHANGED <<now, rowVars, stray, copy>>
           /\ \/ q.op = "claim" /\ q.to = Checking
              \/ /\ q.op \in {"write", "release", "current"}
                 /\ copy[c[1]] # Vacant /\ q.token = copy[c[1]].token
                 /\ q.phase = q.to \/ <<q.phase, q.to>> \in Moves
    BY <1>3, IssueEffect
  <2> DEFINE sent == [at |-> "sent", request |-> q, reply |-> Silence]
  <2>2. \A d \in Caller : call'[d] = IF d = c THEN sent ELSE call[d]
    BY <2>1 DEF TypeOK
  <2>3. sent.request = q /\ sent.reply = Silence /\ Silence.lease = Vacant
    BY SilenceType
  <2>4. \A p \in Asks' : p \in Asks \/ p = q
    BY <2>1, <2>2, <2>3 DEF Asks
  <2>5. Leases' \subseteq Leases
    BY <2>1, <2>2, <2>3 DEF Leases, Known, rowVars
  <2>6. c[1] = o
    OBVIOUS
  <2> QED
    BY <2>1, <2>2, <2>4, <2>5, <2>6
<1>4. ASSUME NEW c \in {M(o), B(o)}, GiveUp(c)
      PROVE  Calm /\ copy' = copy /\ \A d \in Caller : d # c => call'[d] = call[d]
  BY <1>4, GiveUpFrame
<1>5. ASSUME NEW c \in {M(o), B(o)}, Return(c)
      PROVE  /\ Calm /\ \A d \in Caller : d # c => call'[d] = call[d]
             /\ \A s \in Session : s # o => copy'[s] = copy[s]
  BY <1>5, ReturnFrame
<1> QED
  BY <1>1, <1>2, <1>3, <1>4, <1>5 DEF StoreCall, Calm

LEMMA OthersStep ==
  ASSUME FenceInv, NEW o \in Session, Bout(o) \/ Settle(o) \/ Heart(o),
         NEW s \in Session, s # o
  PROVE  Local(s)'
<1> USE TwoCallers DEF FenceInv
<1>1. StoreCall(o) /\ rec'[s] = rec[s]
  BY OwnStep
<1>2. /\ UNCHANGED <<now, rowVars>> /\ Leases' \subseteq Leases
      /\ \A d \in Caller : d[1] # o => call'[d] = call[d]
      /\ copy'[s] = copy[s]
      /\ \A q \in Asks' :
           q \in Asks \/ q.op = "claim" \/ (copy[o] # Vacant /\ q.token = copy[o].token)
  BY <1>1, StoreCallFrame
<1>3. copy[s] # Vacant /\ copy[o] # Vacant => copy[s].token # copy[o].token
  <2>1. copy[s] \in Known /\ copy[o] \in Known
    BY DEF Known
  <2>2. copy[s] # Vacant => copy[s].session = s
    BY DEF Local, CopyFits
  <2>3. copy[o] # Vacant => copy[o].session = o
    BY DEF Local, CopyFits
  <2> QED
    BY <2>1, <2>2, <2>3 DEF StoreInv, IInv, FenceHasOneOwner
<1>4. call'[M(s)] = call[M(s)] /\ call'[B(s)] = call[B(s)]
  BY <1>2
<1>5. \A q \in Asks' :
        q \in Asks \/ q.op = "claim" \/ (copy[s] # Vacant => q.token # copy[s].token)
  BY <1>2, <1>3
<1> QED
  BY <1>1, <1>2, <1>4, <1>5, Bystander

(* What a statement that runs gives, whoever sent it: a later stamp of the *)
(* tenure it names, or a tenure of its own.                                *)
GivenBy(q, l) ==
  /\ l.phase = q.to /\ l.expires = now + Ttl[q.to]
  /\ \/ q.op = "claim" /\ l.token = token + 1
     \/ q.op = "write" /\ l.token = q.token

Unreleased(n) == \A q \in Asks : q.op = "release" => q.token # n

LEMMA RunGives ==
  ASSUME StoreInv, NEW q \in Asks, Run(q)
  PROVE  /\ lease' = Vacant \/ lease' = lease \/ GivenBy(q, lease')
         /\ \A n \in 1..token : LastRow(n) # Vacant /\ Unreleased(n) => LastRow(n)' # Vacant
<1>0. q \in Request /\ TypeOK /\ token \in Nat /\ \A n \in Nat : Grant(q, n) \in Lease
  BY StoreTypes, GrantType DEF StoreInv, IInv, TypeOK
<1>1. \/ /\ q.op = "claim" /\ token' = token + 1 /\ lease' = Grant(q, token + 1)
         /\ \A n \in 1..token : LastRow(n)' = LastRow(n)
      \/ /\ q.op = "write" /\ Fits(q) /\ token' = token /\ token > 0
         /\ lease' = Grant(q, token)
         /\ \A n \in Nat : n < token => LastRow(n)' = LastRow(n)
      \/ /\ q.op = "release" /\ Fits(q) /\ token' = token /\ lease' = Vacant
         /\ \A n \in Nat : n < token => LastRow(n)' = LastRow(n)
      \/ UNCHANGED <<token, lease, past>>
  BY <1>0, RunEffect DEF StoreInv
<1>2. lease' = Vacant \/ lease' = lease \/ GivenBy(q, lease')
  BY <1>1 DEF GivenBy, Grant, Fits
<1>3. ASSUME NEW n \in 1..token, LastRow(n) # Vacant, Unreleased(n)
      PROVE  LastRow(n)' # Vacant
  <2>1. CASE q.op = "claim" \/ n < token
    BY <1>0, <1>1, <1>3, <2>1 DEF LastRow
  <2>2. CASE q.op # "claim" /\ n = token
    <3>1. lease' # Vacant \/ UNCHANGED <<token, lease, past>>
      <4>1. ~(q.op = "release" /\ Fits(q))
        BY <1>3, <2>2 DEF Unreleased, Fits
      <4> QED
        BY <1>0, <1>1, <2>2, <4>1, VacantAssumption
    <3>2. token' = token
      BY <1>1, <2>2
    <3> QED
      BY <1>0, <1>3, <2>2, <3>1, <3>2 DEF LastRow
  <2> QED
    BY <1>0, <2>1, <2>2
<1> QED
  BY <1>2, <1>3

Alike(p, q) ==
  /\ p.op = q.op /\ p.id = q.id /\ p.token = q.token
  /\ p.phase = q.phase /\ p.to = q.to /\ p.session = q.session

(* What the connection and the coordinator may do to what anybody knows.   *)
WireOnly ==
  /\ UNCHANGED <<now, copy>>
  /\ \A c \in Caller : call'[c] = NoCall <=> call[c] = NoCall
  /\ \A c \in Caller : call[c] # NoCall => Alike(call'[c].request, call[c].request)
  /\ \A c \in Caller : call[c] # NoCall =>
       \/ call'[c] = call[c]
       \/ call'[c].at = "sent"
       \/ call'[c].reply.kind # "granted"
       \/ call'[c].reply.lease.expires = now + Ttl[call[c].request.to]
  /\ \A p \in Asks' : \E q \in Asks : Alike(p, q)
  /\ \A l \in Leases' : l \in Leases \/ \E q \in Asks : GivenBy(q, l)
  /\ \A n \in 1..token : LastRow(n) # Vacant /\ Unreleased(n) => LastRow(n)' # Vacant

LEMMA WireEffect ==
  ASSUME StoreInv, Wire
  PROVE  WireOnly
<1> USE DEF StoreInv, IInv
<1>1. ASSUME NEW c \in Caller, Serve(c) PROVE WireOnly
  <2>0. PICK q \in Request : q = call[c].request /\ call[c] # NoCall /\ call[c].at = "sent"
    BY <1>1 DEF Serve, TypeOK, Call
  <2>1. Run(q) /\ now' = now /\ copy' = copy /\ stray' = stray /\ q \in Asks
    BY <1>1, <2>0 DEF Serve, Asks
  <2> DEFINE served == [call[c] EXCEPT !.at = "answered", !.reply = Answer(q)]
  <2>2. \A d \in Caller : call'[d] = IF d = c THEN served ELSE call[d]
    BY <1>1, <2>0 DEF TypeOK, Serve
  <2>3. served # NoCall /\ served.request = q /\ served.reply = Answer(q)
    <3>1. Answer(q) \in Reply /\ call[c] \in Call
      BY <2>0, AnswerType DEF TypeOK
    <3>2. served \in Call /\ served.request = q /\ served.reply = Answer(q)
      BY <2>0, <3>1 DEF Call
    <3> QED
      BY <3>2, NoCallAssumption
  <2> HIDE DEF served
  <2>4. Answer(q).lease \in {Vacant, lease'}
    BY <2>1, AnswerNamesRow
  <2>5. Asks' \subseteq Asks
    BY <2>0, <2>1, <2>2, <2>3 DEF Asks
  <2>6. \A l \in Leases' : l \in Leases \/ (lease' # Vacant /\ l = lease')
    BY <2>0, <2>1, <2>2, <2>3, <2>4 DEF Leases, Known
  <2>7. \A l \in Leases' : l \in Leases \/ \E p \in Asks : GivenBy(p, l)
    <3>1. lease' # Vacant => lease' \in Leases \/ GivenBy(q, lease')
      BY <2>1, RunGives DEF Leases
    <3> QED
      BY <2>1, <2>6, <3>1
  <2>8. Answer(q).kind = "granted" => Answer(q).lease.expires = now + Ttl[q.to]
    BY DEF Answer, Grant
  <2>9. \A n \in 1..token : LastRow(n) # Vacant /\ Unreleased(n) => LastRow(n)' # Vacant
    BY <2>1, RunGives
  <2>10. \A p \in Asks' : \E r \in Asks : Alike(p, r)
    BY <2>5 DEF Alike
  <2>11. \A d \in Caller : call[d] # NoCall =>
           /\ Alike(call'[d].request, call[d].request)
           /\ \/ call'[d] = call[d]
              \/ call'[d].reply.kind # "granted"
              \/ call'[d].reply.lease.expires = now + Ttl[call[d].request.to]
    BY <2>0, <2>2, <2>3, <2>8 DEF Alike
  <2>12. \A d \in Caller : call'[d] = NoCall <=> call[d] = NoCall
    BY <2>0, <2>2, <2>3
  <2> QED
    BY <2>1, <2>7, <2>9, <2>10, <2>11, <2>12 DEF WireOnly
<1>2. ASSUME NEW c \in Caller, Resend(c) PROVE WireOnly
  <2> DEFINE q == [call[c].request EXCEPT !.attempt = 2]
             again == [at |-> "sent", request |-> q, reply |-> Silence]
  <2>0. call[c] # NoCall /\ call[c].request \in Request /\ q \in Request
    <3>1. call[c] # NoCall /\ call[c].request \in Request
      BY <1>2 DEF Resend, Abandon, TypeOK, Call
    <3> QED
      BY <3>1 DEF Request
  <2>1. /\ UNCHANGED <<now, rowVars, copy>>
        /\ stray' = stray \/ stray' = stray \cup {call[c].request}
        /\ call[c].request \in Asks
    BY <1>2, <2>0 DEF Resend, Abandon, Asks
  <2>2. \A d \in Caller : call'[d] = IF d = c THEN again ELSE call[d]
    BY <1>2 DEF Resend, TypeOK
  <2>3. again # NoCall /\ again.request = q /\ again.reply = Silence /\ again.at = "sent"
        /\ Silence.lease = Vacant
    <3>1. again # NoCall
      BY <2>0, CallRecord, SilenceType
    <3> HIDE DEF q
    <3> QED
      BY <3>1, SilenceType
  <2>4. Alike(q, call[c].request)
    BY <2>0 DEF Request, Alike
  <2> HIDE DEF q
  <2>5. \A p \in Asks' : p \in Asks \/ p = q
    BY <2>1, <2>2, <2>3 DEF Asks
  <2>6. Leases' \subseteq Leases
    BY <2>1, <2>2, <2>3 DEF Leases, Known, rowVars
  <2>7. \A p \in Asks' : \E r \in Asks : Alike(p, r)
    BY <2>1, <2>4, <2>5 DEF Alike
  <2>8. \A d \in Caller : call[d] # NoCall =>
           /\ Alike(call'[d].request, call[d].request)
           /\ call'[d] = call[d] \/ call'[d].at = "sent"
    BY <2>2, <2>3, <2>4 DEF Alike
  <2>9. \A d \in Caller : call'[d] = NoCall <=> call[d] = NoCall
    BY <2>0, <2>2, <2>3
  <2>10. \A n \in 1..token : LastRow(n)' = LastRow(n)
    BY <2>1 DEF rowVars, LastRow
  <2> QED
    BY <2>1, <2>6, <2>7, <2>8, <2>9, <2>10 DEF WireOnly
<1>3. ASSUME NEW q \in stray, ServeStray(q) PROVE WireOnly
  <2>1. Run(q) /\ UNCHANGED <<now, call, copy>> /\ stray' \subseteq stray /\ q \in Asks
    BY <1>3 DEF ServeStray, Asks
  <2>2. \A p \in Asks' : p \in Asks
    BY <2>1 DEF Asks
  <2>3. \A l \in Leases' : l \in Leases \/ (lease' # Vacant /\ l = lease')
    BY <2>1 DEF Leases, Known
  <2>4. lease' # Vacant => lease' \in Leases \/ GivenBy(q, lease')
    BY <2>1, RunGives DEF Leases
  <2>5. \A l \in Leases' : l \in Leases \/ \E p \in Asks : GivenBy(p, l)
    BY <2>1, <2>3, <2>4
  <2>6. \A n \in 1..token : LastRow(n) # Vacant /\ Unreleased(n) => LastRow(n)' # Vacant
    BY <2>1, RunGives
  <2>7. \A p \in Asks' : \E r \in Asks : Alike(p, r)
    BY <2>2 DEF Alike
  <2>8. \A d \in Caller : call[d] # NoCall => Alike(call'[d].request, call[d].request)
    BY <2>1 DEF Alike
  <2> QED
    BY <2>1, <2>5, <2>6, <2>7, <2>8 DEF WireOnly
<1> QED
  BY <1>1, <1>2, <1>3 DEF Wire

LEMMA WireStep ==
  ASSUME FenceInv, Wire, NEW s \in Session
  PROVE  Local(s)'
<1> USE DEF FenceInv
<1>1. WireOnly /\ rec' = rec /\ rec[s] \in Record
  BY WireEffect DEF Wire, HolderTypeOK
<1>2. /\ M(s) \in Caller /\ B(s) \in Caller /\ now' = now /\ copy' = copy
      /\ now \in Nat /\ rec[s].sent \in Nat /\ rec[s].renewed \in Nat
      /\ \A p \in Phase : Ttl[p] \in Nat
      /\ {Checking, Armed, RunCommitted} \subseteq Phase
  BY <1>1, TwoCallers, TtlAssumption, PhasesAssumption DEF WireOnly, HolderTypeOK, TypeOK, Record
<1>3. /\ \A q \in Asks : q.to \in Phase
      /\ call[M(s)] # NoCall => call[M(s)].request \in Asks
      /\ call[B(s)] # NoCall => call[B(s)].request \in Asks
      /\ copy[s] # Vacant => copy[s].token \in 1..token
      /\ token \in Nat
  <2>1. TypeOK
    BY DEF HolderTypeOK
  <2>2. \A q \in Asks : q \in Request
    BY <2>1, StoreTypes
  <2>3. copy[s] # Vacant => copy[s].token \in 1..token
    BY DEF StoreInv, IInv, Lineage, Known
  <2> QED
    BY <1>2, <2>1, <2>2, <2>3 DEF Request, Asks, TypeOK
<1>4. /\ call'[M(s)] = NoCall <=> call[M(s)] = NoCall
      /\ call'[B(s)] = NoCall <=> call[B(s)] = NoCall
      /\ call[M(s)] # NoCall => Alike(call'[M(s)].request, call[M(s)].request)
      /\ call[B(s)] # NoCall => Alike(call'[B(s)].request, call[B(s)].request)
  BY <1>1, <1>2 DEF WireOnly
<1>5. CallFits(s)' /\ BeatFits(s)' /\ CopyFits(s)'
  BY <1>1, <1>2, <1>4 DEF Local, CallFits, BeatFits, CopyFits, Fencing, Alike, At
<1>6. ASSUME NEW phases, copy[s] # Vacant, Named(copy[s].token, phases)
      PROVE  Named(copy[s].token, phases)'
  <2>1. \A q \in Asks' : q.op = "write" /\ q.token = copy[s].token => q.to \in phases
    BY <1>1, <1>6 DEF WireOnly, Alike, Named
  <2>2. \A l \in Leases' : l.token = copy[s].token => l.phase \in phases
    <3> SUFFICES ASSUME NEW l \in Leases', l.token = copy[s].token PROVE l.phase \in phases
      OBVIOUS
    <3>1. CASE l \in Leases
      BY <1>6, <3>1 DEF Named
    <3>2. ASSUME NEW q \in Asks, GivenBy(q, l) PROVE l.phase \in phases
      BY <1>3, <1>6, <3>2 DEF Named, GivenBy
    <3> QED
      BY <1>1, <3>1, <3>2 DEF WireOnly
  <2> QED
    BY <1>2, <2>1, <2>2 DEF Named
<1>7. Unsent(s)'
  BY <1>1, <1>2, <1>4, <1>6 DEF Local, Unsent, CopyFits, At, Quiet
<1>8. AheadIsLater(s)'
  <2> SUFFICES ASSUME copy[s] # Vacant, NEW l \in Leases', l.token = copy[s].token,
                      Ahead(copy[s].phase, l.phase)
               PROVE  l.expires >= rec[s].sent + Ttl[l.phase]
    BY <1>1, <1>2 DEF AheadIsLater, Ahead
  <2>1. CASE l \in Leases
    BY <2>1 DEF Local, AheadIsLater
  <2>2. ASSUME NEW q \in Asks, GivenBy(q, l) PROVE l.expires >= rec[s].sent + Ttl[l.phase]
    BY <1>2, <1>3, <2>2 DEF GivenBy, Local, Clocks
  <2> QED
    BY <1>1, <2>1, <2>2 DEF WireOnly
<1>9. /\ call[M(s)] # NoCall =>
           \/ call'[M(s)] = call[M(s)]
           \/ call'[M(s)].at = "sent"
           \/ call'[M(s)].reply.kind # "granted"
           \/ call'[M(s)].reply.lease.expires = now + Ttl[call[M(s)].request.to]
      /\ call[B(s)] # NoCall =>
           \/ call'[B(s)] = call[B(s)]
           \/ call'[B(s)].at = "sent"
           \/ call'[B(s)].reply.kind # "granted"
           \/ call'[B(s)].reply.lease.expires = now + Ttl[call[B(s)].request.to]
  BY <1>1, <1>2 DEF WireOnly
<1>10. ClaimStamp(s)'
  <2>1. At(s, {"claiming"}) /\ call[M(s)] # NoCall => call[M(s)].request.to = Checking
    BY <1>3 DEF Local, CallFits, CopyFits, Fencing, StoreInv, AsksKnown, At
  <2> QED
    BY <1>1, <1>2, <1>4, <1>9, <2>1 DEF Local, ClaimStamp, Clocks, Answered, Row, At
<1>11. RenewStamp(s)'
  <2>1. call[B(s)] # NoCall =>
          call[B(s)].request.to \in Phase /\ call'[B(s)].request.to = call[B(s)].request.to
    BY <1>3, <1>4 DEF Alike
  <2> QED
    BY <1>1, <1>2, <1>4, <1>9, <2>1 DEF Local, RenewStamp, Clocks, Answered
<1>12. Clocks(s)' /\ Stamped(s)'
  BY <1>1, <1>2 DEF Local, Clocks, Stamped
<1>13. Held(s)'
  <2>1. ASSUME NEW n, Unreleased(n) PROVE \A q \in Asks' : q.op = "release" => q.token # n
    BY <1>1, <2>1 DEF WireOnly, Unreleased, Alike
  <2>2. At(s, {"checking", "arming", "armed", "ringing", "running"}) => copy[s] # Vacant
    BY DEF Local, CopyFits, At
  <2>3. At(s, {"checking", "arming", "armed", "ringing", "running"}) =>
          LastRow(copy[s].token) # Vacant /\ Unreleased(copy[s].token)
    BY DEF Local, Held, Unreleased
  <2>4. At(s, {"checking", "arming", "armed", "ringing", "running"}) =>
          LastRow(copy[s].token)' # Vacant
    BY <1>1, <1>2, <1>3, <2>2, <2>3 DEF WireOnly, LastRow
  <2> QED
    BY <1>1, <1>2, <2>1, <2>3, <2>4 DEF Held, At, LastRow
<1>14. Timely(s)'
  BY <1>1, <1>2, <1>4 DEF Local, Timely, Asked, Alike, At, Quiet
<1> QED
  BY <1>5, <1>7, <1>8, <1>10, <1>11, <1>12, <1>13, <1>14 DEF Local

LEMMA TickStep ==
  ASSUME FenceInv, HolderTick, NEW s \in Session
  PROVE  Local(s)'
<1> USE DEF FenceInv
<1>1. /\ now' = now + 1 /\ UNCHANGED <<rowVars, call, stray, copy, rec>> /\ ~Pressing(s)
      /\ rec[s] \in Record /\ now \in Nat
  BY DEF HolderTick, Tick, HolderTypeOK, TypeOK
<1>2. Asks' = Asks /\ Leases' = Leases
  BY <1>1 DEF Asks, Leases, Known, rowVars
<1>3. token' = token /\ past' = past /\ lease' = lease
  BY <1>1 DEF rowVars
<1>4. CallFits(s)' /\ BeatFits(s)' /\ CopyFits(s)'
  BY <1>1 DEF Local, CallFits, BeatFits, CopyFits, Fencing, At
<1>5. Unsent(s)' /\ AheadIsLater(s)'
  BY <1>1, <1>2 DEF Local, Unsent, Named, AheadIsLater, Ahead, At, Quiet
<1>6. ClaimStamp(s)' /\ RenewStamp(s)' /\ Clocks(s)' /\ Stamped(s)'
  BY <1>1 DEF Local, ClaimStamp, RenewStamp, Clocks, Stamped, Answered, Row, At, Record
<1>7. Held(s)'
  BY <1>1, <1>2, <1>3 DEF Local, Held, LastRow, At
<1>8. Timely(s)'
  BY <1>1, HolderConstants DEF Local, Timely, Asked, At, Quiet, Pressing, Due, Record
<1> QED
  BY <1>4, <1>5, <1>6, <1>7, <1>8 DEF Local

-----------------------------------------------------------------------------
(* A session's own steps.                                                  *)

LEMMA OwnTypes ==
  ASSUME FenceInv, NEW s \in Session
  PROVE  /\ rec \in [Session -> Record] /\ rec[s] \in Record /\ copy \in [Session -> Lease \cup {Vacant}]
         /\ now \in Nat /\ rec[s].sent \in Nat /\ rec[s].renewed \in Nat /\ rec[s].proof \in Nat
         /\ rec[s].wake \in Nat
         /\ \A p \in Phase : Ttl[p] \in Nat
         /\ {Checking, Armed, RunCommitted} \subseteq Phase
         /\ Vacant \notin Lease /\ NoCall \notin Call
         /\ Heartbeat \in Nat /\ Heartbeat > 0
         /\ TypeOK /\ Answers
BY TtlAssumption, PhasesAssumption, VacantAssumption, NoCallAssumption, HolderConstants
   DEF FenceInv, StoreInv, HolderTypeOK, TypeOK, Record

LEMMA SilentFields ==
  ASSUME NEW r \in Record
  PROVE  /\ SilentR(r).stage = r.stage /\ SilentR(r).sent = r.sent /\ SilentR(r).proof = r.proof
         /\ SilentR(r).renewed = 0 /\ SilentR(r).beat = "off"
BY DEF Record, SilentR

LEMMA BeatingFields ==
  ASSUME NEW r \in Record
  PROVE  /\ BeatingR(r).stage = r.stage /\ BeatingR(r).sent = r.sent /\ BeatingR(r).proof = r.proof
         /\ BeatingR(r).renewed = r.renewed /\ BeatingR(r).beat = "on"
         /\ BeatingR(r).wake = now + Heartbeat
BY DEF Record, BeatingR

BeatKept(s) ==
  /\ call'[B(s)] \in {call[B(s)], NoCall}
  /\ rec'[s].renewed \in {0, rec[s].renewed}

LEMMA BeatKeeps ==
  ASSUME FenceInv, NEW s \in Session, BeatKept(s), now' = now
  PROVE  BeatFits(s)' /\ RenewStamp(s)' /\ rec'[s].renewed <= now
<1>1. call[B(s)] # NoCall => call[B(s)].request.to \in Phase
  BY TwoCallers, OwnTypes DEF TypeOK, Call, Request
<1>2. BeatFits(s)' /\ rec'[s].renewed <= now
  BY OwnTypes DEF FenceInv, Local, BeatKept, BeatFits, Clocks
<1>3. Answered(B(s), "granted") => call[B(s)].reply.lease.expires \in Nat
  BY TwoCallers, OwnTypes DEF Answers, Fits2, Answered, Lease
<1>4. RenewStamp(s)'
  BY <1>1, <1>3, OwnTypes DEF FenceInv, Local, BeatKept, RenewStamp, Answered
<1> QED
  BY <1>2, <1>4

(* The session has ended, or never began.                                  *)
LEMMA OverStep ==
  ASSUME FenceInv, NEW s \in Session, Calm, BeatKept(s), copy'[s] = Vacant,
         call'[M(s)] = NoCall, rec'[s].stage = "idle", rec'[s].sent = 0 \/ rec'[s].sent = rec[s].sent
  PROVE  Local(s)'
<1>1. BeatFits(s)' /\ RenewStamp(s)' /\ rec'[s].renewed <= now /\ now' = now
  BY BeatKeeps DEF Calm
<1>2. rec'[s].sent <= now
  BY OwnTypes DEF FenceInv, Local, Clocks
<1> QED
  BY <1>1, <1>2 DEF Local, CallFits, CopyFits, Unsent, AheadIsLater, ClaimStamp, Clocks,
                    Stamped, Held, Timely, At

(* The session goes on to end its bout with the lease it has.              *)
LEMMA LeaveStep ==
  ASSUME FenceInv, NEW s \in Session, Calm, BeatKept(s), copy'[s] = copy[s], copy[s] # Vacant,
         call'[M(s)] = NoCall, rec'[s].sent = rec[s].sent, rec'[s].proof = rec[s].proof,
         \/ rec'[s].stage \in {"settling", "retrying", "probing", "reprobing"}
         \/ rec'[s].stage \in {"converging", "expiring"} /\ copy[s].phase = Armed
  PROVE  Local(s)'
<1>1. BeatFits(s)' /\ RenewStamp(s)' /\ rec'[s].renewed <= now /\ now' = now
  BY BeatKeeps DEF Calm
<1>2. AheadIsLater(s)'
  BY DEF FenceInv, Local, AheadIsLater, Ahead, Calm
<1>3. Clocks(s)' /\ Stamped(s)' /\ CallFits(s)' /\ CopyFits(s)'
  BY <1>1 DEF FenceInv, Local, Clocks, Stamped, CallFits, CopyFits, At
<1> QED
  BY <1>1, <1>2, <1>3 DEF Local, Unsent, ClaimStamp, Held, Timely, At

(* Only the heartbeat moves.                                               *)
LEMMA BeatStep ==
  ASSUME FenceInv, NEW s \in Session, Calm, BeatKept(s), copy'[s] = copy[s],
         call'[M(s)] = call[M(s)], rec'[s].stage = rec[s].stage,
         rec'[s].sent = rec[s].sent, rec'[s].proof = rec[s].proof, Timely(s)'
  PROVE  Local(s)'
<1>1. BeatFits(s)' /\ RenewStamp(s)' /\ rec'[s].renewed <= now /\ now' = now
  BY BeatKeeps DEF Calm
<1>2. AheadIsLater(s)'
  BY DEF FenceInv, Local, AheadIsLater, Ahead, Calm
<1>3. Clocks(s)' /\ Stamped(s)' /\ CallFits(s)' /\ CopyFits(s)' /\ ClaimStamp(s)'
  BY <1>1 DEF FenceInv, Local, Clocks, Stamped, CallFits, CopyFits, ClaimStamp, At, Fencing,
              Answered, Row
<1>4. ASSUME NEW phases, Named(copy[s].token, phases)
      PROVE  Named(copy[s].token, phases)'
  BY <1>4 DEF Named, Calm
<1>5. Unsent(s)'
  BY <1>4 DEF FenceInv, Local, Unsent, At, Quiet
<1>6. Held(s)'
  BY DEF FenceInv, Local, Held, At, Calm, rowVars, LastRow
<1> QED
  BY <1>1, <1>2, <1>3, <1>5, <1>6 DEF Local

(* Steps that leave the store alone.                                       *)
LEMMA QuietOwn ==
  ASSUME FenceInv, NEW s \in Session,
         \/ StartArming(s) \/ CheckFails(s) \/ AbandonArmed(s) \/ Finish(s) \/ WorkStops(s)
         \/ SettleUnknown(s) \/ BeatEnds(s) \/ BeatTooLate(s)
         \/ Lose(s) /\ UNCHANGED vars
  PROVE  Local(s)'
<1> USE OwnTypes DEF Become, Goto
<1>1. Calm /\ copy' = copy /\ call' = call /\ now' = now
  <2>1. UNCHANGED vars
    BY DEF StartArming, CheckFails, AbandonArmed, Finish, WorkStops, SettleUnknown, BeatEnds,
           BeatTooLate
  <2> QED
    BY <2>1 DEF vars, Calm, rowVars, Asks, Leases, Known
<1>2. Local(s)
  BY DEF FenceInv
<1>3. CASE CheckFails(s) \/ AbandonArmed(s) \/ Finish(s) \/ SettleUnknown(s)
  <2>1. call[M(s)] = NoCall /\ copy[s] # Vacant
    BY <1>2, <1>3 DEF CheckFails, AbandonArmed, Finish, SettleUnknown, Local, CallFits,
                      CopyFits, At, Quiet
  <2>2. /\ rec'[s].stage \in {"settling", "retrying"} /\ rec'[s].sent = rec[s].sent
        /\ rec'[s].proof = rec[s].proof /\ rec'[s].renewed \in {0, rec[s].renewed}
    <3>1. CASE CheckFails(s) \/ Finish(s)
      <4>1. rec'[s] = [rec[s] EXCEPT !.stage = "settling"]
        BY <3>1 DEF CheckFails, Finish
      <4> QED
        BY <4>1 DEF Record
    <3>2. CASE AbandonArmed(s)
      <4>1. rec'[s] = [rec[s] EXCEPT !.stage = "retrying"]
        BY <3>2 DEF AbandonArmed
      <4> QED
        BY <4>1 DEF Record
    <3>3. CASE SettleUnknown(s)
      <4>1. rec'[s] = [rec[s] EXCEPT !.stage = "retrying", !.beat = "off", !.wake = 0,
                                     !.renewed = 0]
        BY <3>3 DEF SettleUnknown, SilentR
      <4> QED
        BY <4>1 DEF Record
    <3> QED
      BY <1>3, <3>1, <3>2, <3>3
  <2> QED
    BY <1>1, <2>1, <2>2, LeaveStep DEF BeatKept
<1>4. CASE WorkStops(s) \/ BeatEnds(s) \/ BeatTooLate(s) \/ Lose(s)
  <2>1. /\ rec'[s].stage = rec[s].stage /\ rec'[s].sent = rec[s].sent
        /\ rec'[s].proof = rec[s].proof /\ rec'[s].renewed \in {0, rec[s].renewed}
    <3>1. CASE Lose(s)
      <4>1. ~At(s, {"checking", "running"})
        BY <1>1, <1>2, <3>1 DEF Lose, Forget, Local, CopyFits, At
      <4> QED
        BY <3>1, <4>1, SilentFields DEF Lose
    <3>2. CASE BeatEnds(s)
      BY <3>2, SilentFields DEF BeatEnds
    <3>3. CASE WorkStops(s)
      <4>1. rec'[s] = [rec[s] EXCEPT !.stopping = FALSE, !.late = FALSE]
        BY <3>3 DEF WorkStops
      <4> QED
        BY <4>1 DEF Record
    <3>4. CASE BeatTooLate(s)
      <4>1. rec'[s] = [rec[s] EXCEPT !.beat = "losing"]
        BY <3>4 DEF BeatTooLate
      <4> QED
        BY <4>1 DEF Record
    <3> QED
      BY <1>4, <3>1, <3>2, <3>3, <3>4
  <2>2. Timely(s)'
    <3>1. CASE WorkStops(s)
      <4>1. rec'[s].beat = rec[s].beat /\ rec'[s].wake = rec[s].wake
            /\ rec'[s].renewed = rec[s].renewed
        BY <3>1 DEF WorkStops, Record
      <4> QED
        BY <1>1, <1>2, <2>1, <4>1 DEF Local, Timely, At, Quiet, Asked
    <3>2. CASE BeatTooLate(s)
      <4>1. rec'[s].beat = "losing"
        BY <3>2 DEF BeatTooLate, Record
      <4> QED
        BY <1>1, <1>2, <2>1, <4>1 DEF Local, Timely, At
    <3>3. CASE BeatEnds(s)
      <4>1. ~At(s, {"running"})
        BY <1>2, <3>3, PhasesAssumption DEF BeatEnds, Local, CopyFits, At
      <4> QED
        BY <2>1, <4>1 DEF Timely, At
    <3>4. CASE Lose(s)
      <4>1. ~At(s, {"running"})
        BY <1>1, <1>2, <3>4 DEF Lose, Forget, Local, CopyFits, At
      <4> QED
        BY <2>1, <4>1 DEF Timely, At
    <3> QED
      BY <1>4, <3>1, <3>2, <3>3, <3>4
  <2> QED
    BY <1>1, <2>1, <2>2, BeatStep DEF BeatKept
<1>5. CASE StartArming(s)
  <2>1. /\ rec'[s].stage = "arming" /\ rec'[s].sent = rec[s].sent
        /\ rec'[s].proof = rec[s].proof /\ rec'[s].renewed \in {0, rec[s].renewed}
        /\ rec[s].stage = "checking"
    <3>1. [rec[s] EXCEPT !.stage = "arming"] \in Record
      BY DEF Record, Stage
    <3> QED
      BY <1>5, <3>1, SilentFields DEF StartArming, Record, At
  <2>2. BeatFits(s)' /\ RenewStamp(s)' /\ rec'[s].renewed <= now
    BY <1>1, <2>1, BeatKeeps DEF BeatKept
  <2>3. CallFits(s)' /\ CopyFits(s)' /\ ClaimStamp(s)' /\ Clocks(s)' /\ Stamped(s)' /\ Timely(s)'
    BY <1>1, <1>2, <2>1, <2>2 DEF Local, CallFits, CopyFits, ClaimStamp, Clocks, Stamped,
                                  Timely, At
  <2>4. AheadIsLater(s)'
    BY <1>1, <1>2, <2>1 DEF Local, AheadIsLater, Ahead, Calm
  <2>5. Unsent(s)'
    BY <1>1, <1>2, <2>1 DEF Local, Unsent, Named, Calm, At
  <2>6. Held(s)'
    BY <1>1, <1>2, <2>1 DEF Local, Held, At, Calm, rowVars, LastRow
  <2> QED
    BY <2>2, <2>3, <2>4, <2>5, <2>6 DEF Local
<1> QED
  BY <1>3, <1>4, <1>5

(* What a call asks for, and what asking changes.                          *)
LEMMA SendFrame ==
  ASSUME TypeOK, NEW c \in Caller, NEW q \in Request, Send(c, q)
  PROVE  /\ call[c] = NoCall
         /\ call'[c] # NoCall /\ call'[c].at = "sent" /\ call'[c].request = q
         /\ \A d \in Caller : d # c => call'[d] = call[d]
         /\ UNCHANGED <<now, rowVars, copy>> /\ Leases' \subseteq Leases
         /\ \A p \in Asks' : p \in Asks \/ p = q
<1> DEFINE sent == [at |-> "sent", request |-> q, reply |-> Silence]
<1>1. call[c] = NoCall /\ UNCHANGED <<now, rowVars, stray, copy>>
  BY DEF Send
<1>2. \A d \in Caller : call'[d] = IF d = c THEN sent ELSE call[d]
  BY DEF Send, TypeOK
<1>3. /\ sent # NoCall /\ sent.at = "sent" /\ sent.request = q /\ sent.reply = Silence
      /\ Silence.lease = Vacant
  BY CallRecord, SilenceType
<1> HIDE DEF sent
<1>4. \A p \in Asks' : p \in Asks \/ p = q
  BY <1>1, <1>2, <1>3 DEF Asks
<1>5. Leases' \subseteq Leases
  BY <1>1, <1>2, <1>3 DEF Leases, Known, rowVars
<1> QED
  BY <1>1, <1>2, <1>3, <1>4, <1>5

LEMMA FencedSends ==
  ASSUME TypeOK, NEW s \in Session, NEW c \in {M(s), B(s)},
         NEW op \in {"write", "release", "current"}, NEW from \in Phase, NEW to \in Phase,
         Fenced(c, op, from, to)
  PROVE  \E q \in Request :
           /\ Send(c, q) /\ copy[s] # Vacant /\ Fencing(q, copy[s])
           /\ q.op = op /\ q.phase = from /\ q.to = to
<1>1. c[1] = s /\ copy[s] \in Lease
  BY TwoCallers DEF Fenced, TypeOK
<1> QED
  BY <1>1 DEF Fenced, Fencing, Request, Op, Lease

(* Each stage sends one statement, and knows when it sent it.              *)
LEMMA MainAsks ==
  ASSUME FenceInv, NEW s \in Session,
         \/ StartClaim(s) \/ SendArm(s) \/ RingBell(s) \/ AskHolder(s) \/ WatchFence(s)
         \/ ReleaseOnce(s) \/ Probe(s)
  PROVE  \E q \in Request :
           /\ Send(M(s), q)
           /\ rec'[s].proof = rec[s].proof /\ rec'[s].renewed = rec[s].renewed
           /\ \/ /\ rec[s].stage = "idle" /\ rec'[s].stage = "claiming" /\ q.op = "claim"
                 /\ rec'[s].sent = now
              \/ /\ rec[s].stage = "arming" /\ rec'[s].stage = "arming" /\ Fencing(q, copy[s])
                 /\ q.op = "write" /\ q.phase = Checking /\ q.to = Armed
                 /\ rec'[s].sent = now
              \/ /\ rec[s].stage = "armed" /\ rec'[s].stage = "ringing" /\ Fencing(q, copy[s])
                 /\ q.op = "write" /\ q.phase = Armed /\ q.to = RunCommitted
                 /\ rec'[s].sent = now
              \/ /\ rec'[s].stage = rec[s].stage /\ rec'[s].sent = rec[s].sent
                 /\ Fencing(q, copy[s])
                 /\ \/ /\ rec[s].stage \in {"converging", "expiring", "probing", "reprobing"}
                       /\ q.op = "current"
                    \/ /\ rec[s].stage \in {"settling", "retrying"}
                       /\ q.op = "release" /\ q.phase = copy[s].phase
<1> USE OwnTypes, TwoCallers DEF Become
<1>0. \A p \in Phase : copy[s] # Vacant => copy[s].phase \in Phase
  BY DEF TypeOK, Lease
<1>1. CASE StartClaim(s)
  <2>1. \E q \in Request : Send(M(s), q) /\ q.op = "claim"
    <3>1. Checking \in Phase /\ 0 \in Nat /\ minted + 1 \in Nat
      BY DEF TypeOK
    <3> QED
      BY <1>1, <3>1 DEF StartClaim, Claim, Request, Op
  <2>2. rec'[s] = [rec[s] EXCEPT !.stage = "claiming", !.sent = now] /\ rec[s].stage = "idle"
    BY <1>1 DEF StartClaim, At
  <2> QED
    BY <2>1, <2>2 DEF Record
<1>2. CASE SendArm(s)
  <2>1. \E q \in Request : /\ Send(M(s), q) /\ Fencing(q, copy[s])
                           /\ q.op = "write" /\ q.phase = Checking /\ q.to = Armed
    BY <1>2, FencedSends DEF SendArm, Transition
  <2>2. rec'[s] = [rec[s] EXCEPT !.sent = now] /\ rec[s].stage = "arming"
    BY <1>2 DEF SendArm, At
  <2> QED
    BY <2>1, <2>2 DEF Record
<1>3. CASE RingBell(s)
  <2>1. \E q \in Request : /\ Send(M(s), q) /\ Fencing(q, copy[s])
                           /\ q.op = "write" /\ q.phase = Armed /\ q.to = RunCommitted
    BY <1>3, FencedSends DEF RingBell, Transition
  <2>2. rec'[s] = [rec[s] EXCEPT !.stage = "ringing", !.sent = now] /\ rec[s].stage = "armed"
    BY <1>3 DEF RingBell, At
  <2> QED
    BY <2>1, <2>2 DEF Record
<1>4. CASE AskHolder(s) \/ WatchFence(s) \/ Probe(s)
  <2>1. PICK p \in Phase : Fenced(M(s), "current", p, p)
    BY <1>4 DEF AskHolder, WatchFence, Probe, Current
  <2>2. \E q \in Request : Send(M(s), q) /\ Fencing(q, copy[s]) /\ q.op = "current"
    BY <2>1, FencedSends
  <2>3. rec' = rec /\ rec[s].stage \in {"converging", "expiring", "probing", "reprobing"}
    BY <1>4 DEF AskHolder, WatchFence, Probe, At
  <2> QED
    BY <2>2, <2>3
<1>5. CASE ReleaseOnce(s)
  <2>1. PICK p \in Phase : p = copy[s].phase /\ Fenced(M(s), "release", p, p)
    BY <1>5 DEF ReleaseOnce, Release
  <2>2. \E q \in Request : /\ Send(M(s), q) /\ Fencing(q, copy[s])
                           /\ q.op = "release" /\ q.phase = copy[s].phase
    BY <2>1, FencedSends
  <2>3. rec' = rec /\ rec[s].stage \in {"settling", "retrying"}
    BY <1>5 DEF ReleaseOnce, At
  <2> QED
    BY <2>2, <2>3
<1> QED
  BY <1>1, <1>2, <1>3, <1>4, <1>5

LEMMA MainSends ==
  ASSUME FenceInv, NEW s \in Session,
         \/ StartClaim(s) \/ SendArm(s) \/ RingBell(s) \/ AskHolder(s) \/ WatchFence(s)
         \/ ReleaseOnce(s) \/ Probe(s)
  PROVE  Local(s)'
<1> USE OwnTypes, TwoCallers
<1>1. PICK q \in Request :
        /\ Send(M(s), q)
        /\ rec'[s].proof = rec[s].proof /\ rec'[s].renewed = rec[s].renewed
        /\ \/ /\ rec[s].stage = "idle" /\ rec'[s].stage = "claiming" /\ q.op = "claim"
              /\ rec'[s].sent = now
           \/ /\ rec[s].stage = "arming" /\ rec'[s].stage = "arming" /\ Fencing(q, copy[s])
              /\ q.op = "write" /\ q.phase = Checking /\ q.to = Armed
              /\ rec'[s].sent = now
           \/ /\ rec[s].stage = "armed" /\ rec'[s].stage = "ringing" /\ Fencing(q, copy[s])
              /\ q.op = "write" /\ q.phase = Armed /\ q.to = RunCommitted
              /\ rec'[s].sent = now
           \/ /\ rec'[s].stage = rec[s].stage /\ rec'[s].sent = rec[s].sent
              /\ Fencing(q, copy[s])
              /\ \/ /\ rec[s].stage \in {"converging", "expiring", "probing", "reprobing"}
                    /\ q.op = "current"
                 \/ /\ rec[s].stage \in {"settling", "retrying"}
                    /\ q.op = "release" /\ q.phase = copy[s].phase
  BY MainAsks
<1>2. /\ call[M(s)] = NoCall
      /\ call'[M(s)] # NoCall /\ call'[M(s)].at = "sent" /\ call'[M(s)].request = q
      /\ call'[B(s)] = call[B(s)] /\ UNCHANGED <<now, rowVars, copy>> /\ Leases' \subseteq Leases
      /\ \A p \in Asks' : p \in Asks \/ p = q
  BY <1>1, SendFrame
<1>3. Local(s) /\ now' = now /\ copy' = copy
  BY <1>2 DEF FenceInv
<1>4. BeatFits(s)' /\ RenewStamp(s)' /\ rec'[s].renewed <= now
  BY <1>1, <1>2, BeatKeeps DEF BeatKept
<1>5. CallFits(s)'
  BY <1>1, <1>2 DEF CallFits, Fencing, At
<1>6. CopyFits(s)' /\ ClaimStamp(s)' /\ Clocks(s)' /\ Stamped(s)' /\ Timely(s)'
  BY <1>1, <1>2, <1>3, <1>4
     DEF Local, CopyFits, ClaimStamp, Clocks, Stamped, Timely, At, Answered
<1>7. Unsent(s)'
  <2>1. CASE rec'[s].stage = "arming"
    <3>1. Named(copy[s].token, {Checking}) /\ q.to = Armed
      BY <1>1, <1>2, <1>3, <2>1 DEF Local, Unsent, At, Quiet
    <3>2. Named(copy[s].token, {Checking, Armed})'
      BY <1>2, <3>1 DEF Named
    <3> QED
      BY <1>2, <2>1, <3>2 DEF Unsent, At, Quiet
  <2> QED
    BY <1>1, <2>1 DEF Unsent, At
<1>8. AheadIsLater(s)'
  <2> SUFFICES ASSUME copy[s] # Vacant, NEW l \in Leases, l.token = copy[s].token,
                      Ahead(copy[s].phase, l.phase)
               PROVE  l.expires >= rec'[s].sent + Ttl[l.phase]
    BY <1>2 DEF AheadIsLater, Ahead
  <2>1. CASE rec'[s].sent = rec[s].sent
    BY <1>3, <2>1 DEF Local, AheadIsLater
  <2>2. CASE rec[s].stage = "idle"
    BY <1>3, <2>2 DEF Local, CopyFits, At
  <2>3. CASE rec[s].stage = "arming"
    <3>1. Named(copy[s].token, {Checking}) /\ copy[s].phase = Checking
      BY <1>2, <1>3, <2>3 DEF Local, Unsent, CopyFits, At, Quiet
    <3> QED
      BY <3>1, PhasesAssumption DEF Named, Ahead
  <2>4. CASE rec[s].stage = "armed"
    <3>1. Named(copy[s].token, {Checking, Armed}) /\ copy[s].phase = Armed
      BY <1>3, <2>4 DEF Local, Unsent, CopyFits, At
    <3> QED
      BY <3>1, PhasesAssumption DEF Named, Ahead
  <2> QED
    BY <1>1, <2>1, <2>2, <2>3, <2>4
<1>9. Held(s)'
  BY <1>1, <1>2, <1>3 DEF Local, Held, At, rowVars, LastRow
<1> QED
  BY <1>4, <1>5, <1>6, <1>7, <1>8, <1>9 DEF Local

LEMMA BeatSends ==
  ASSUME FenceInv, NEW s \in Session, BeatRenews(s)
  PROVE  Local(s)'
<1> USE OwnTypes, TwoCallers
<1>1. PICK p \in Phase : copy[s] # Vacant /\ p = copy[s].phase /\ Fenced(B(s), "write", p, p)
  BY DEF BeatRenews, Renew
<1>2. PICK q \in Request :
        /\ Send(B(s), q) /\ Fencing(q, copy[s])
        /\ q.op = "write" /\ q.phase = copy[s].phase /\ q.to = copy[s].phase
  BY <1>1, FencedSends
<1>3. /\ call[B(s)] = NoCall
      /\ call'[B(s)] # NoCall /\ call'[B(s)].at = "sent" /\ call'[B(s)].request = q
      /\ call'[M(s)] = call[M(s)] /\ UNCHANGED <<now, rowVars, copy>> /\ Leases' \subseteq Leases
      /\ \A r \in Asks' : r \in Asks \/ r = q
  BY <1>2, SendFrame
<1>4. Local(s) /\ now' = now /\ copy' = copy
  BY <1>3 DEF FenceInv
<1>5. /\ rec'[s].stage = rec[s].stage /\ rec'[s].sent = rec[s].sent /\ rec'[s].renewed = now
      /\ rec'[s].proof = rec[s].proof /\ rec'[s].beat = "on"
      /\ rec[s].beat = "on" /\ rec[s].wake <= now /\ now + Heartbeat < rec[s].proof
      /\ copy[s].phase # Armed
  <2>1. rec'[s] = [rec[s] EXCEPT !.renewed = now] /\ rec[s].beat = "on" /\ rec[s].wake <= now
    BY DEF BeatRenews, Become, Awake
  <2>2. now + Heartbeat < rec[s].proof /\ copy[s].phase # Armed
    BY DEF BeatRenews, Due
  <2> QED
    BY <2>1, <2>2 DEF Record
<1>6. CallFits(s)' /\ BeatFits(s)' /\ CopyFits(s)' /\ Clocks(s)' /\ Stamped(s)'
  BY <1>2, <1>3, <1>4, <1>5
     DEF Local, CallFits, BeatFits, CopyFits, Clocks, Stamped, At, Fencing
<1>7. ClaimStamp(s)' /\ RenewStamp(s)'
  BY <1>3, <1>4, <1>5 DEF Local, ClaimStamp, RenewStamp, At, Answered, Row
<1>8. Unsent(s)'
  <2>1. ASSUME NEW phases, copy[s].phase \in phases, Named(copy[s].token, phases)
        PROVE  Named(copy[s].token, phases)'
    BY <1>2, <1>3, <2>1 DEF Named
  <2>2. At(s, {"checking", "arming"}) => copy[s].phase = Checking
    BY <1>4 DEF Local, CopyFits
  <2>3. ~At(s, {"armed"})
    BY <1>4, <1>5 DEF Local, CopyFits, At
  <2>4. At(s, {"checking", "arming"})' => copy[s].phase \in {Checking} /\ copy[s].phase \in {Checking, Armed}
    BY <1>5, <2>2 DEF At
  <2>5. At(s, {"checking"})' \/ (At(s, {"arming"})' /\ Quiet(M(s))') =>
          Named(copy[s].token, {Checking})'
    BY <1>3, <1>4, <1>5, <2>1, <2>4 DEF Local, Unsent, At, Quiet
  <2>6. At(s, {"arming", "armed"})' => Named(copy[s].token, {Checking, Armed})'
    BY <1>4, <1>5, <2>1, <2>3, <2>4 DEF Local, Unsent, At
  <2> QED
    BY <1>4, <2>5, <2>6 DEF Unsent
<1>9. AheadIsLater(s)'
  BY <1>3, <1>4, <1>5 DEF Local, AheadIsLater, Ahead
<1>10. Held(s)'
  BY <1>2, <1>3, <1>4, <1>5 DEF Local, Held, At, rowVars, LastRow
<1>11. Timely(s)'
  BY <1>2, <1>3, <1>4, <1>5 DEF Local, Timely, At, Quiet, Asked, CopyFits, Fencing
<1> QED
  BY <1>6, <1>7, <1>8, <1>9, <1>10, <1>11 DEF Local

(* A bout's call that is answered, or given up.                            *)
LEMMA MainHears ==
  ASSUME FenceInv, NEW s \in Session, Return(M(s))
  PROVE  /\ Calm /\ call'[M(s)] = NoCall /\ call'[B(s)] = call[B(s)] /\ call[M(s)] # NoCall
         /\ call[M(s)].at = "answered"
         /\ \/ copy'[s] = Keeps(s, call[M(s)].request, call[M(s)].reply)
            \/ call[M(s)].reply.kind \in {"refused", "row"} /\ copy'[s] \in {Vacant, copy[s]}
         /\ call[M(s)].request.session = s
         /\ Fits2(call[M(s)].request, call[M(s)].reply)
         /\ Row(s) # Vacant => Row(s) \in Leases /\ Row(s) \in Lease
<1> USE OwnTypes, TwoCallers
<1>1. call[M(s)] # NoCall /\ call[M(s)].at = "answered"
  BY DEF Return
<1>2. Row(s) # Vacant => Row(s) \in Leases /\ Row(s) \in Lease
  BY <1>1, StoreTypes DEF Row
<1> QED
  BY <1>1, <1>2, ReturnFrame DEF Answers

LEMMA MainGivesUp ==
  ASSUME FenceInv, NEW s \in Session, GiveUp(M(s))
  PROVE  /\ Calm /\ call'[M(s)] = NoCall /\ call'[B(s)] = call[B(s)] /\ copy' = copy
         /\ call[M(s)] # NoCall
<1>1. call[M(s)] # NoCall
  BY DEF GiveUp, Abandon
<1> QED
  BY <1>1, OwnTypes, TwoCallers, GiveUpFrame

LEMMA OverFields ==
  ASSUME NEW s \in Session, NEW b \in BOOLEAN
  PROVE  /\ Over(s, b).stage = "idle" /\ Over(s, b).sent = 0 /\ Over(s, b).renewed = 0
         /\ Over(s, b) \in Record
BY HelperTypes DEF Over, Blank

(* The bout is over, with its lease released, gone or taken.               *)
LEMMA OverOwn ==
  ASSUME FenceInv, NEW s \in Session,
         \/ ClaimRefused(s) \/ ReleaseConfirmed(s) \/ RetryEnds(s)
         \/ Lose(s) /\ Forget(s)
         \/ (Converged(s) \/ FenceSeen(s) \/ Probed(s)) /\ Drop(s)
  PROVE  Local(s)'
<1> USE OwnTypes, TwoCallers DEF Become
<1>1. Local(s) /\ rec[s].lost \in BOOLEAN
  BY DEF FenceInv, Record
<1>2. CASE ClaimRefused(s)
  <2>1. /\ Calm /\ call'[M(s)] = NoCall /\ call'[B(s)] = call[B(s)] /\ copy'[s] = copy[s]
    BY <1>2, MainHears, MainGivesUp DEF ClaimRefused, Keep
  <2>2. copy[s] = Vacant
    BY <1>1, <1>2 DEF ClaimRefused, Local, CopyFits, At
  <2>3. rec'[s] = [rec[s] EXCEPT !.stage = "idle", !.sent = 0]
    BY <1>2 DEF ClaimRefused
  <2>4. rec'[s].stage = "idle" /\ rec'[s].sent = 0 /\ rec'[s].renewed = rec[s].renewed
    BY <2>3 DEF Record
  <2> QED
    BY <2>1, <2>2, <2>4, OverStep DEF BeatKept
<1>3. CASE ReleaseConfirmed(s)
  <2>1. /\ Calm /\ call'[M(s)] = NoCall /\ call'[B(s)] = call[B(s)] /\ call[M(s)] # NoCall
        /\ copy'[s] = Keeps(s, call[M(s)].request, call[M(s)].reply)
        /\ call[M(s)].reply.kind = "released"
    BY <1>3, MainHears DEF ReleaseConfirmed, Answered
  <2>2. Asked(call[M(s)].request, copy[s])
    BY <1>1, <1>3, <2>1 DEF ReleaseConfirmed, Local, CallFits, Fencing, Asked, At
  <2>3. copy'[s] = Vacant
    BY <2>1, <2>2 DEF Keeps
  <2>4. rec'[s] = Over(s, rec[s].lost)
    BY <1>3 DEF ReleaseConfirmed
  <2> QED
    BY <1>1, <2>1, <2>3, <2>4, OverFields, OverStep DEF BeatKept
<1>4. CASE RetryEnds(s) \/ (Lose(s) /\ Forget(s))
  <2>1. UNCHANGED <<now, rowVars, call, stray>> /\ copy' = [copy EXCEPT ![s] = Vacant]
        /\ copy[s] # Vacant
    BY <1>4 DEF RetryEnds, Forget
  <2>2. Calm
    <3>1. \A o \in Session : copy'[o] # Vacant => copy'[o] = copy[o]
      BY <2>1
    <3>2. Leases' \subseteq Leases
      BY <2>1, <3>1 DEF Leases, Known, rowVars
    <3> QED
      BY <2>1, <3>2 DEF Calm, Asks
  <2>3. call[M(s)] = NoCall
    <3>1. CASE RetryEnds(s)
      BY <3>1 DEF RetryEnds, Quiet
    <3>2. CASE Lose(s)
      <4>1. ~UNCHANGED vars
        BY <2>1 DEF vars
      <4> QED
        BY <1>1, <3>2, <4>1 DEF Lose, Local, CallFits, At
    <3> QED
      BY <1>4, <3>1, <3>2
  <2>4. rec'[s].stage = "idle" /\ rec'[s].sent = 0 /\ rec'[s].renewed = 0
    <3>1. CASE RetryEnds(s)
      BY <3>1, OverFields DEF RetryEnds
    <3>2. CASE Lose(s)
      <4>1. rec'[s] = [Over(s, TRUE) EXCEPT !.stopping = TRUE, !.late = rec[s].late]
        BY <2>1, <3>2 DEF Lose, vars
      <4> QED
        BY <4>1, OverFields, ZenonT(60) DEF Record
    <3> QED
      BY <1>4, <3>1, <3>2
  <2> QED
    BY <2>1, <2>2, <2>3, <2>4, OverStep DEF BeatKept
<1>5. CASE (Converged(s) \/ FenceSeen(s) \/ Probed(s)) /\ Drop(s)
  <2>0. copy[s] # Vacant /\ copy'[s] = Vacant
    BY <1>1, <1>5 DEF Converged, FenceSeen, Probed, Local, CopyFits, At, Drop
  <2>1. ~GiveUp(M(s))
    BY <2>0, MainGivesUp
  <2>2. Return(M(s))
    BY <1>5, <2>1 DEF Converged, FenceSeen, Probed
  <2>3. /\ Calm /\ call'[M(s)] = NoCall /\ call'[B(s)] = call[B(s)]
    BY <2>2, MainHears
  <2>4. \E b \in BOOLEAN : rec'[s] = Over(s, b)
    <3>1. CASE Converged(s)
      <4>1. ~Keep(s)
        BY <2>0 DEF Keep
      <4>2. ~(Adopt(s) /\ SameAuthority(Row(s), copy[s]))
        BY <2>0 DEF Adopt, SameAuthority
      <4> QED
        BY <3>1, <4>1, <4>2 DEF Converged
    <3>2. CASE FenceSeen(s)
      <4>1. ~Keep(s)
        BY <2>0 DEF Keep
      <4> QED
        BY <1>1, <2>1, <3>2, <4>1 DEF FenceSeen
    <3>3. CASE Probed(s)
      <4>1. ~ProbeOurs(s)
        BY <2>0 DEF Keep, ProbeOurs
      <4>2. ~ProbeArmed(s)
        BY <2>0 DEF Adopt, SameAuthority, ProbeArmed
      <4>3. (rec[s].lost \/ ~ExpiredOnItsOwn(s)) \in BOOLEAN
        OBVIOUS
      <4> QED
        BY <1>1, <2>1, <3>3, <4>1, <4>2, <4>3 DEF Probed, ProbeGone, ProbeTaken
    <3> QED
      BY <1>5, <3>1, <3>2, <3>3
  <2> QED
    BY <2>0, <2>3, <2>4, OverFields, OverStep DEF BeatKept
<1> QED
  BY <1>2, <1>3, <1>4, <1>5

(* The bout keeps its lease and goes on to end.                            *)
LEMMA LeaveOwn ==
  ASSUME FenceInv, NEW s \in Session,
         \/ ArmFails(s) \/ BellUnconfirmed(s) \/ ConvergenceFails(s) \/ ReleaseUnconfirmed(s)
         \/ Converged(s) /\ Keep(s)
         \/ FenceSeen(s) /\ Keep(s)
         \/ Probed(s) /\ Keep(s)
  PROVE  Local(s)'
<1> USE OwnTypes DEF Become, Goto
<1>1. Local(s)
  BY DEF FenceInv
<1>2. Calm /\ call'[M(s)] = NoCall /\ call'[B(s)] = call[B(s)] /\ copy'[s] = copy[s]
  <2>1. (Return(M(s)) /\ Keep(s)) \/ GiveUp(M(s))
    <3>1. CASE ArmFails(s)
      BY <3>1 DEF ArmFails
    <3>2. CASE BellUnconfirmed(s)
      BY <3>2 DEF BellUnconfirmed
    <3>3. CASE ConvergenceFails(s)
      BY <3>3 DEF ConvergenceFails
    <3>4. CASE ReleaseUnconfirmed(s)
      BY <3>4 DEF ReleaseUnconfirmed
    <3>5. CASE Converged(s) /\ Keep(s)
      BY <3>5 DEF Converged
    <3>6. CASE FenceSeen(s) /\ Keep(s)
      BY <3>6 DEF FenceSeen
    <3>7. CASE Probed(s) /\ Keep(s)
      BY <3>7 DEF Probed
    <3> QED
      BY <3>1, <3>2, <3>3, <3>4, <3>5, <3>6, <3>7
  <2> QED
    BY <2>1, MainHears, MainGivesUp DEF Keep
<1>3. copy[s] # Vacant /\ (At(s, {"ringing", "converging", "expiring"}) => copy[s].phase = Armed)
  BY <1>1 DEF Local, CopyFits, At, ArmFails, BellUnconfirmed, ConvergenceFails,
              ReleaseUnconfirmed, Converged, FenceSeen, Probed
<1>4. ASSUME NEW to \in {"settling", "retrying", "probing", "reprobing", "converging", "expiring"},
             rec'[s] = [rec[s] EXCEPT !.stage = to],
             to \in {"converging", "expiring"} => copy[s].phase = Armed
      PROVE  Local(s)'
  <2>1. /\ rec'[s].stage = to /\ rec'[s].sent = rec[s].sent /\ rec'[s].proof = rec[s].proof
        /\ rec'[s].renewed = rec[s].renewed
    BY <1>4 DEF Record
  <2>2. BeatKept(s)
    BY <1>2, <2>1 DEF BeatKept
  <2> QED
    BY <1>2, <1>3, <1>4, <2>1, <2>2, LeaveStep
<1>5. CASE ArmFails(s)
  <2>1. [rec[s] EXCEPT !.stage = "settling"] \in Record
    BY DEF Record, Stage
  <2>2. rec'[s] = BeatingR([rec[s] EXCEPT !.stage = "settling"])
    BY <1>5 DEF ArmFails
  <2>3. /\ rec'[s].stage = "settling" /\ rec'[s].sent = rec[s].sent
        /\ rec'[s].proof = rec[s].proof /\ rec'[s].renewed = rec[s].renewed
    BY <2>1, <2>2, BeatingFields DEF Record
  <2> QED
    BY <1>2, <1>3, <2>3, LeaveStep DEF BeatKept
<1>6. CASE BellUnconfirmed(s)
  BY <1>3, <1>4, <1>6 DEF BellUnconfirmed, At
<1>7. CASE ConvergenceFails(s)
  BY <1>3, <1>4, <1>7 DEF ConvergenceFails, At
<1>8. CASE ReleaseUnconfirmed(s)
  BY <1>4, <1>8 DEF ReleaseUnconfirmed
<1>9. CASE Converged(s) /\ Keep(s)
  <2>1. CASE rec'[s] = [rec[s] EXCEPT !.stage = "settling"]
    BY <1>4, <2>1
  <2>2. ~Drop(s)
    BY <1>2, <1>3 DEF Drop
  <2>3. ~(Adopt(s) /\ Row(s).phase = RunCommitted)
    BY <1>2, <1>3, <1>9, PhasesAssumption DEF Adopt, Converged, At
  <2> QED
    BY <1>9, <2>1, <2>2, <2>3 DEF Converged
<1>10. CASE FenceSeen(s) /\ Keep(s)
  <2>1. rec' = rec /\ rec[s].stage = "expiring"
    BY <1>2, <1>3, <1>10 DEF FenceSeen, Drop, At
  <2> QED
    BY <1>2, <1>3, <2>1, LeaveStep DEF BeatKept, At
<1>11. CASE Probed(s) /\ Keep(s)
  <2>1. ~Drop(s)
    BY <1>2, <1>3 DEF Drop
  <2>2. ~ProbeArmed(s)
    BY <1>2, <1>3, PhasesAssumption DEF Adopt, ProbeArmed
  <2>3. rec'[s] = [rec[s] EXCEPT !.stage = Again(s)]
    BY <1>11, <2>1, <2>2 DEF Probed, ProbeGone, ProbeOurs, ProbeTaken
  <2> QED
    BY <1>4, <2>3 DEF Again
<1> QED
  BY <1>5, <1>6, <1>7, <1>8, <1>9, <1>10, <1>11

(* A lease adopted because its phase moved on, from the answer or the row. *)
LEMMA AdoptStep ==
  ASSUME FenceInv, NEW s \in Session, Calm, BeatKept(s), call'[M(s)] = NoCall,
         copy[s] # Vacant, copy'[s] \in Leases, copy'[s].token = copy[s].token,
         copy'[s].session = s, Ahead(copy[s].phase, copy'[s].phase),
         rec'[s].sent = rec[s].sent, rec'[s].proof = rec[s].sent + Ttl[copy'[s].phase],
         \/ rec[s].stage \in {"probing", "reprobing"} /\ rec'[s].stage \in {"settling", "retrying"}
         \/ rec[s].stage = "converging" /\ rec'[s].stage = "settling"
         \/ /\ rec[s].stage = "arming" /\ rec'[s].stage = "armed" /\ copy'[s].phase = Armed
         \/ /\ rec[s].stage = "ringing" /\ rec'[s].stage \in {"settling", "running"}
            /\ copy'[s].phase = RunCommitted,
         rec'[s].stage = "running" =>
           /\ rec'[s].beat = "on" /\ call[B(s)] = NoCall
           /\ rec'[s].wake = now + Heartbeat /\ now + Heartbeat < rec'[s].proof
  PROVE  Local(s)'
<1> USE OwnTypes
<1>1. BeatFits(s)' /\ RenewStamp(s)' /\ rec'[s].renewed <= now /\ now' = now /\ Local(s)
  BY BeatKeeps DEF Calm, FenceInv
<1>2. copy'[s] # Vacant /\ copy'[s] \in Lease /\ copy'[s].phase \in {Armed, RunCommitted}
  BY StoreTypes, PhasesAssumption DEF Ahead
<1>3. Clocks(s)' /\ CallFits(s)' /\ ClaimStamp(s)' /\ CopyFits(s)'
  BY <1>1, <1>2 DEF Local, Clocks, CallFits, ClaimStamp, CopyFits, At, Answered
<1>4. AheadIsLater(s)'
  BY <1>1, PhasesAssumption DEF Local, AheadIsLater, Ahead, Calm
<1>5. Stamped(s)'
  <2>1. copy'[s].expires >= rec[s].sent + Ttl[copy'[s].phase]
    BY <1>1 DEF Local, AheadIsLater
  <2>2. copy'[s].expires \in Nat /\ rec[s].sent + Ttl[copy'[s].phase] \in Nat
    BY <1>2 DEF Lease
  <2> QED
    BY <2>1, <2>2 DEF Stamped
<1>6. Unsent(s)'
  <2>1. rec'[s].stage = "armed" => Named(copy[s].token, {Checking, Armed})
    BY <1>1 DEF Local, Unsent, At
  <2>2. Named(copy[s].token, {Checking, Armed}) =>
          /\ \A l \in Leases' : l.token = copy[s].token => l.phase \in {Checking, Armed}
          /\ \A q \in Asks' : q.op = "write" /\ q.token = copy[s].token => q.to \in {Checking, Armed}
    BY DEF Named, Calm
  <2> QED
    BY <2>1, <2>2 DEF Unsent, Named, At
<1>7. Held(s)'
  BY <1>1 DEF Local, Held, At, Calm, rowVars, LastRow
<1>8. Timely(s)'
  <2>1. SUFFICES ASSUME rec'[s].stage = "running" PROVE Timely(s)'
    BY DEF Timely, At
  <2>2. copy'[s].phase = RunCommitted /\ rec'[s].proof = rec[s].sent + Ttl[RunCommitted]
    BY <2>1
  <2>3. call'[B(s)] = NoCall /\ rec[s].sent <= now
    BY <1>1, <2>1 DEF BeatKept, Local, Clocks
  <2>4. rec'[s].proof < rec'[s].wake + Ttl[RunCommitted] /\ now < rec'[s].proof
        /\ rec'[s].wake < rec'[s].proof
    BY <2>1, <2>2, <2>3
  <2> QED
    BY <1>1, <2>1, <2>3, <2>4 DEF Timely, Quiet
<1> QED
  BY <1>1, <1>3, <1>4, <1>5, <1>6, <1>7, <1>8 DEF Local

LEMMA AdoptOwn ==
  ASSUME FenceInv, NEW s \in Session,
         \/ ArmCommitted(s) \/ BellCommitted(s)
         \/ Converged(s) /\ ~Keep(s) /\ ~Drop(s)
         \/ Probed(s) /\ ~Keep(s) /\ ~Drop(s)
  PROVE  Local(s)'
<1> USE OwnTypes DEF Become
<1>1. Local(s)
  BY DEF FenceInv
<1>2. Return(M(s))
  BY MainGivesUp DEF ArmCommitted, BellCommitted, Converged, Probed, Keep
<1>3. /\ Calm /\ call'[M(s)] = NoCall /\ call'[B(s)] = call[B(s)] /\ call[M(s)] # NoCall
      /\ call[M(s)].at = "answered"
      /\ \/ copy'[s] = Keeps(s, call[M(s)].request, call[M(s)].reply)
         \/ call[M(s)].reply.kind \in {"refused", "row"} /\ copy'[s] \in {Vacant, copy[s]}
      /\ call[M(s)].request.session = s
      /\ Fits2(call[M(s)].request, call[M(s)].reply)
      /\ Row(s) # Vacant => Row(s) \in Leases /\ Row(s) \in Lease
  BY <1>2, MainHears
<1>4. copy[s] # Vacant /\ copy[s].session = s
  BY <1>1 DEF ArmCommitted, BellCommitted, Converged, Probed, Local, CopyFits, At
<1>5. CASE ArmCommitted(s) \/ BellCommitted(s)
  <2> DEFINE q == call[M(s)].request
  <2>1. call[M(s)].reply.kind = "granted" /\ rec[s].stage \in {"arming", "ringing"}
    BY <1>5 DEF ArmCommitted, BellCommitted, Answered, At
  <2>2. /\ Fencing(q, copy[s]) /\ q.op = "write" /\ q.phase = copy[s].phase
        /\ rec[s].stage = "arming" => copy[s].phase = Checking /\ q.to = Armed
        /\ rec[s].stage = "ringing" => copy[s].phase = Armed /\ q.to = RunCommitted
    BY <1>1, <1>3, <2>1 DEF Local, CallFits, CopyFits, At
  <2>3. copy'[s] = Row(s) /\ Row(s) \in Lease
    BY <1>3, <1>4, <2>1, <2>2 DEF Keeps, Asked, Fencing, Fits2, Row
  <2>4. /\ copy'[s] \in Leases /\ copy'[s].token = copy[s].token /\ copy'[s].session = s
        /\ copy'[s].phase = q.to /\ Ahead(copy[s].phase, copy'[s].phase)
    BY <1>3, <2>1, <2>2, <2>3 DEF Fits2, Fencing, Row, Ahead
  <2>5. CASE ArmCommitted(s)
    <3>1. rec'[s] = [rec[s] EXCEPT !.stage = "armed", !.proof = Proven(rec[s].sent, Armed),
                                   !.late = FALSE]
      BY <2>5 DEF ArmCommitted
    <3>2. /\ rec'[s].stage = "armed" /\ rec'[s].sent = rec[s].sent
          /\ rec'[s].proof = rec[s].sent + Ttl[Armed] /\ rec'[s].renewed = rec[s].renewed
      BY <3>1 DEF Record, Proven
    <3>3. rec[s].stage = "arming" /\ copy'[s].phase = Armed
      BY <2>2, <2>4, <2>5 DEF ArmCommitted, At
    <3>4. BeatKept(s)
      BY <1>3, <3>2 DEF BeatKept
    <3> QED
      BY <1>3, <1>4, <2>4, <3>2, <3>3, <3>4, AdoptStep
  <2>6. CASE BellCommitted(s)
    <3> DEFINE until == rec[s].sent + Ttl[RunCommitted]
               r == [rec[s] EXCEPT !.proof = until,
                       !.stage = IF BellProofLapsed(until) THEN "settling" ELSE "running"]
    <3>1. rec'[s] = BeatingR(r) /\ call[B(s)] = NoCall
      BY <2>6 DEF BellCommitted, Proven, CanBeat, Quiet
    <3>2. until \in Nat
      OBVIOUS
    <3> HIDE DEF until
    <3>3. /\ r \in Record /\ r.sent = rec[s].sent /\ r.proof = until /\ r.renewed = rec[s].renewed
          /\ r.stage = IF BellProofLapsed(until) THEN "settling" ELSE "running"
      BY <3>2 DEF Record, Stage
    <3> HIDE DEF r
    <3>4. /\ rec'[s].sent = rec[s].sent /\ rec'[s].proof = until
          /\ rec'[s].renewed = rec[s].renewed /\ rec'[s].beat = "on"
          /\ rec'[s].wake = now + Heartbeat
          /\ rec'[s].stage = IF BellProofLapsed(until) THEN "settling" ELSE "running"
      BY <3>1, <3>3, BeatingFields
    <3>5. rec'[s].stage = "running" => now + Heartbeat < rec'[s].proof
      BY <3>2, <3>4 DEF BellProofLapsed
    <3>6. rec[s].stage = "ringing" /\ copy'[s].phase = RunCommitted
          /\ rec'[s].stage \in {"settling", "running"}
      BY <2>2, <2>4, <2>6, <3>4 DEF BellCommitted, At
    <3>7. BeatKept(s) /\ rec'[s].proof = rec[s].sent + Ttl[copy'[s].phase]
      BY <1>3, <3>4, <3>6 DEF BeatKept, until
    <3> QED
      BY <1>3, <1>4, <2>4, <3>1, <3>4, <3>5, <3>6, <3>7, AdoptStep
  <2> QED
    BY <1>5, <2>5, <2>6
<1>6. CASE Converged(s) /\ ~Keep(s) /\ ~Drop(s)
  <2>1. /\ SameAuthority(Row(s), copy[s]) /\ Row(s).phase = RunCommitted /\ Adopt(s)
        /\ rec[s].stage = "converging"
        /\ rec'[s] = BeatingR([rec[s] EXCEPT !.stage = "settling",
                                             !.proof = Proven(rec[s].sent, RunCommitted)])
    BY <1>6 DEF Converged, At
  <2>2. /\ copy'[s] \in Leases /\ copy'[s].token = copy[s].token /\ copy'[s].session = s
        /\ copy'[s].phase = RunCommitted /\ copy[s].phase = Armed
    BY <1>1, <1>3, <1>4, <2>1 DEF Local, CopyFits, At, Adopt, SameAuthority
  <2>3. Proven(rec[s].sent, RunCommitted) = rec[s].sent + Ttl[RunCommitted]
        /\ rec[s].sent + Ttl[RunCommitted] \in Nat
    BY DEF Proven
  <2> DEFINE r == [rec[s] EXCEPT !.stage = "settling", !.proof = Proven(rec[s].sent, RunCommitted)]
  <2>4. /\ r \in Record /\ r.sent = rec[s].sent /\ r.proof = rec[s].sent + Ttl[RunCommitted]
        /\ r.renewed = rec[s].renewed /\ r.stage = "settling"
    BY <2>3 DEF Record, Stage
  <2>5. /\ rec'[s].stage = "settling" /\ rec'[s].sent = rec[s].sent
        /\ rec'[s].proof = rec[s].sent + Ttl[RunCommitted] /\ rec'[s].renewed = rec[s].renewed
    BY <2>1, <2>4, BeatingFields
  <2> QED
    BY <1>3, <1>4, <2>1, <2>2, <2>5, AdoptStep DEF BeatKept, Ahead
<1>7. CASE Probed(s) /\ ~Keep(s) /\ ~Drop(s)
  <2>1. ProbeArmed(s) /\ rec[s].stage \in {"probing", "reprobing"}
    <3>1. ~GiveUp(M(s))
      BY <1>7, MainGivesUp DEF Keep
    <3> QED
      BY <1>7, <3>1 DEF Probed, ProbeGone, ProbeOurs, ProbeTaken, At
  <2>2. /\ copy'[s] \in Leases /\ copy'[s].token = copy[s].token /\ copy'[s].session = s
        /\ copy'[s].phase = Armed /\ copy[s].phase = Checking
    BY <1>3, <1>4, <2>1 DEF ProbeArmed, Adopt, SameAuthority
  <2>3. rec'[s] = [rec[s] EXCEPT !.stage = Again(s), !.proof = Proven(rec[s].sent, Armed)]
    BY <2>1 DEF ProbeArmed
  <2>4. /\ rec'[s].stage = Again(s) /\ rec'[s].sent = rec[s].sent
        /\ rec'[s].proof = rec[s].sent + Ttl[Armed] /\ rec'[s].renewed = rec[s].renewed
    BY <2>3 DEF Record, Proven
  <2>5. Again(s) \in {"settling", "retrying"} /\ BeatKept(s)
    BY <1>3, <2>4 DEF Again, BeatKept
  <2> QED
    BY <1>3, <1>4, <2>1, <2>2, <2>4, <2>5, AdoptStep DEF Ahead
<1> QED
  BY <1>5, <1>6, <1>7

(* A claim answered: nobody else has heard of the tenure yet.              *)
LEMMA ClaimOwn ==
  ASSUME FenceInv, NEW s \in Session, ClaimWon(s)
  PROVE  Local(s)'
<1> USE OwnTypes, TwoCallers
<1> DEFINE q == call[M(s)].request
<1>0. PICK n : n = Row(s).token
  OBVIOUS
<1>1. Local(s) /\ rec[s].stage = "claiming"
  BY DEF FenceInv, ClaimWon, At
<1>2. /\ Calm /\ call'[M(s)] = NoCall /\ call'[B(s)] = call[B(s)] /\ call[M(s)] # NoCall
      /\ call[M(s)].reply.kind = "granted" /\ call[M(s)].at = "answered"
      /\ copy'[s] = Keeps(s, q, call[M(s)].reply)
      /\ q.session = s /\ Fits2(q, call[M(s)].reply) /\ now' = now
  BY MainHears DEF ClaimWon, Answered, Calm
<1>3. q.op = "claim" /\ q.to = Checking
  <2>1. copy[s] = Vacant
    BY <1>1 DEF Local, CopyFits, At
  <2>2. q.op = "claim"
    BY <1>1, <1>2, <2>1 DEF Local, CallFits, Fencing
  <2>3. q \in Asks
    BY <1>2, StoreTypes
  <2> QED
    BY <2>2, <2>3 DEF FenceInv, StoreInv, AsksKnown
<1>4. /\ copy'[s] = Row(s) /\ Row(s) \in Lease /\ Row(s).phase = Checking /\ Row(s).session = s
      /\ Row(s) # Vacant
  BY <1>2, <1>3 DEF Keeps, Fits2, Row
<1>5. Unheard(n)
  BY <1>0, <1>2, <1>3 DEF FenceInv, StoreInv, FreshGrant, Fresh, Row
<1>6. /\ rec'[s].stage \in {"checking", "retrying"} /\ rec'[s].sent = rec[s].sent
      /\ rec'[s].proof = rec[s].sent + Ttl[Checking] /\ rec'[s].renewed = rec[s].renewed
  <2> DEFINE won == [rec[s] EXCEPT !.proof = Proven(rec[s].sent, Checking)]
  <2>1. rec[s].sent + Ttl[Checking] \in Nat
    OBVIOUS
  <2>2. /\ won \in Record /\ won.stage = rec[s].stage /\ won.sent = rec[s].sent
        /\ won.proof = rec[s].sent + Ttl[Checking] /\ won.renewed = rec[s].renewed
    BY <2>1 DEF Record, Proven
  <2> DEFINE r(b) == [won EXCEPT !.stage = "checking", !.lost = FALSE, !.late = b]
  <2>3. ASSUME NEW b
        PROVE  /\ BeatingR(r(b)).stage = "checking" /\ BeatingR(r(b)).sent = won.sent
               /\ BeatingR(r(b)).proof = won.proof /\ BeatingR(r(b)).renewed = won.renewed
    <3> HIDE DEF won
    <3> QED
      BY <2>2 DEF Record, BeatingR
  <2>4. CASE Unstopped(s, TRUE)
    <3>1. rec'[s] = [won EXCEPT !.stage = "retrying"]
      BY <2>4 DEF ClaimWon, Become
    <3> HIDE DEF won
    <3> QED
      BY <2>2, <3>1 DEF Record
  <2>5. CASE ~Unstopped(s, TRUE)
    <3>1. rec'[s] = BeatingR(r(now >= won.proof))
      BY <2>5 DEF ClaimWon, Become
    <3> HIDE DEF won, r
    <3> QED
      BY <2>2, <2>3, <3>1
  <2> QED
    BY <2>4, <2>5
<1>7. BeatFits(s)' /\ RenewStamp(s)' /\ rec'[s].renewed <= now
  BY <1>2, <1>6, BeatKeeps DEF BeatKept
<1>8. CallFits(s)' /\ CopyFits(s)' /\ ClaimStamp(s)' /\ Clocks(s)' /\ Timely(s)'
  BY <1>1, <1>2, <1>4, <1>6, <1>7
     DEF Local, CallFits, CopyFits, ClaimStamp, Clocks, Timely, At
<1>9. Stamped(s)'
  <2>1. Row(s).expires >= rec[s].sent + Ttl[Checking]
    BY <1>1, <1>2 DEF Local, ClaimStamp, Answered, At
  <2>2. Row(s).expires \in Nat /\ rec[s].sent + Ttl[Checking] \in Nat
    BY <1>4 DEF Lease
  <2> QED
    BY <1>4, <1>6, <2>1, <2>2 DEF Stamped
<1>10. /\ \A l \in Leases' : l.token = n => l.phase = Checking
       /\ \A p \in Asks' : p.op # "claim" => p.token # n
       /\ LastRow(n)' # Vacant
  BY <1>2, <1>5 DEF Unheard, Calm, rowVars, LastRow
<1>11. Unsent(s)'
  BY <1>0, <1>4, <1>6, <1>10 DEF Unsent, Named, At
<1>12. AheadIsLater(s)'
  BY <1>0, <1>4, <1>10, PhasesAssumption DEF AheadIsLater, Ahead
<1>13. Held(s)'
  BY <1>0, <1>4, <1>10 DEF Held, LastRow
<1> QED
  BY <1>7, <1>8, <1>9, <1>11, <1>12, <1>13 DEF Local

(* A renewal answered, given up or dropped.                                *)
LEMMA BeatOwn ==
  ASSUME FenceInv, NEW s \in Session,
         BeatAnswered(s) \/ BeatUnanswered(s) \/ RenewalDropped(s)
  PROVE  Local(s)'
<1> USE OwnTypes, TwoCallers DEF Become
<1>1. Local(s)
  BY DEF FenceInv
<1>2. CASE BeatUnanswered(s) \/ RenewalDropped(s)
  <2>1. GiveUp(B(s))
    BY <1>2 DEF BeatUnanswered, RenewalDropped
  <2>2. /\ Calm /\ copy' = copy /\ call'[B(s)] = NoCall /\ call'[M(s)] = call[M(s)]
        /\ now' = now
    BY <2>1, GiveUpFrame DEF Calm
  <2>3. CASE RenewalDropped(s)
    <3>1. rec' = rec /\ rec[s].beat = "off"
      BY <2>3 DEF RenewalDropped
    <3>2. Timely(s)'
      BY <1>1, <3>1 DEF Local, Timely, At
    <3> QED
      BY <2>2, <3>1, <3>2, BeatStep DEF BeatKept
  <2>4. CASE BeatUnanswered(s) /\ Due(rec[s].proof)
    <3>1. rec'[s] = [rec[s] EXCEPT !.beat = "losing"]
      BY <2>4 DEF BeatUnanswered
    <3>2. /\ rec'[s].stage = rec[s].stage /\ rec'[s].sent = rec[s].sent
          /\ rec'[s].proof = rec[s].proof /\ rec'[s].renewed = rec[s].renewed
          /\ rec'[s].beat = "losing"
      BY <3>1 DEF Record
    <3>3. Timely(s)'
      BY <1>1, <2>2, <3>2 DEF Local, Timely, At
    <3> QED
      BY <2>2, <3>2, <3>3, BeatStep DEF BeatKept
  <2>5. CASE BeatUnanswered(s) /\ ~Due(rec[s].proof)
    <3>1. rec'[s] = [rec[s] EXCEPT !.wake = Pause(rec[s].proof)] /\ rec[s].beat = "on"
      BY <2>5 DEF BeatUnanswered
    <3>2. /\ rec'[s].stage = rec[s].stage /\ rec'[s].sent = rec[s].sent
          /\ rec'[s].proof = rec[s].proof /\ rec'[s].renewed = rec[s].renewed
          /\ rec'[s].beat = "on" /\ rec'[s].wake = Pause(rec[s].proof)
      BY <3>1 DEF Record
    <3>3. Timely(s)'
      <4> SUFFICES ASSUME At(s, {"running"})
                   PROVE  /\ now < rec[s].proof
                          /\ Pause(rec[s].proof) < rec[s].proof
                          /\ rec[s].proof < Pause(rec[s].proof) + Ttl[RunCommitted]
        BY <2>2, <3>2 DEF Timely, At, Quiet
      <4>1. /\ now < rec[s].proof /\ rec[s].proof < rec[s].renewed + Ttl[RunCommitted]
            /\ rec[s].renewed <= now
        BY <1>1, <2>1, <2>2, <3>1 DEF Local, Timely, Clocks, Quiet, GiveUp, Abandon
      <4>2. /\ Ttl[RunCommitted] >= 3 * Heartbeat /\ Ttl[RunCommitted] \in Nat
        BY CadenceAssumption
      <4>3. now + Heartbeat < rec[s].proof
        BY <2>5 DEF Due
      <4>4. \/ Pause(rec[s].proof) = rec[s].proof - Heartbeat
            \/ Pause(rec[s].proof) = now + Heartbeat
        BY <2>5 DEF Pause
      <4> QED
        BY <4>1, <4>2, <4>3, <4>4
    <3> QED
      BY <2>2, <3>2, <3>3, BeatStep DEF BeatKept
  <2> QED
    BY <1>2, <2>3, <2>4, <2>5
<1>3. CASE BeatAnswered(s)
  <2> DEFINE q == call[B(s)].request
             ours == Asked(q, copy[s])
  <2>1. /\ Calm /\ call'[B(s)] = NoCall /\ call'[M(s)] = call[M(s)] /\ now' = now
        /\ \/ copy'[s] = Keeps(s, q, call[B(s)].reply)
           \/ call[B(s)].reply.kind \in {"refused", "row"} /\ copy'[s] \in {Vacant, copy[s]}
    BY <1>3, ReturnFrame DEF BeatAnswered, Calm
  <2>2. /\ call[B(s)] # NoCall /\ call[B(s)].at = "answered" /\ rec[s].beat = "on"
        /\ q.session = s /\ Fits2(q, call[B(s)].reply)
        /\ q.op = "write" /\ q.phase = q.to
        /\ q \in Request /\ q.to \in Phase
    <3>1. call[B(s)] # NoCall /\ call[B(s)].at = "answered" /\ rec[s].beat = "on"
      BY <1>3 DEF BeatAnswered, Return
    <3>2. q \in Request /\ q.to \in Phase
      BY <3>1 DEF TypeOK, Call, Request
    <3> QED
      BY <1>1, <3>1, <3>2 DEF Local, BeatFits, Answers
  <2>3. CASE Answered(B(s), "refused") /\ Keep(s)
             /\ rec'[s] = [rec[s] EXCEPT !.beat = IF ours THEN "losing" ELSE @,
                                         !.wake = Pause(rec[s].proof)]
    <3>1. /\ rec'[s].stage = rec[s].stage /\ rec'[s].sent = rec[s].sent
          /\ rec'[s].proof = rec[s].proof /\ rec'[s].renewed = rec[s].renewed
          /\ ours => rec'[s].beat = "losing"
      BY <2>3 DEF Record
    <3>2. Timely(s)'
      BY <1>1, <2>1, <2>2, <3>1 DEF Local, Timely, At, Quiet
    <3> QED
      BY <2>1, <2>3, <3>1, <3>2, BeatStep DEF BeatKept, Keep
  <2>4. CASE Answered(B(s), "granted")
             /\ rec'[s] = [rec[s] EXCEPT
                  !.wake = now + Heartbeat,
                  !.proof = IF ours THEN Proven(rec[s].renewed, q.to) ELSE @]
    <3>0. call[B(s)].reply.kind = "granted" /\ copy'[s] = Keeps(s, q, call[B(s)].reply)
      BY <2>1, <2>4 DEF Answered
    <3>1. /\ rec'[s].stage = rec[s].stage /\ rec'[s].sent = rec[s].sent
          /\ rec'[s].renewed = rec[s].renewed /\ rec'[s].beat = "on"
          /\ rec'[s].wake = now + Heartbeat
          /\ rec'[s].proof = IF ours THEN rec[s].renewed + Ttl[q.to] ELSE rec[s].proof
      BY <2>2, <2>4 DEF Record, Proven
    <3>2. CASE ~ours
      <4>1. copy'[s] = copy[s]
        BY <2>2, <3>0, <3>2 DEF Keeps
      <4>2. Timely(s)'
        BY <1>1, <2>2, <3>1, <3>2 DEF Local, Timely, At, Quiet
      <4> QED
        BY <2>1, <3>1, <3>2, <4>1, <4>2, BeatStep DEF BeatKept
    <3>3. CASE ours
      <4>1. /\ copy'[s] = call[B(s)].reply.lease /\ copy'[s] \in Lease
            /\ copy[s] # Vacant /\ copy'[s] # Vacant
            /\ copy'[s].token = copy[s].token /\ copy'[s].id = copy[s].id
            /\ copy'[s].phase = copy[s].phase /\ copy'[s].session = s /\ q.to = copy[s].phase
        BY <2>2, <3>0, <3>3 DEF Keeps, Asked, Fits2
      <4>2. BeatFits(s)' /\ RenewStamp(s)' /\ rec'[s].renewed <= now
        BY <2>1, <3>1, BeatKeeps DEF BeatKept
      <4>3. CallFits(s)' /\ ClaimStamp(s)' /\ CopyFits(s)' /\ Clocks(s)'
        BY <1>1, <2>1, <3>1, <4>1, <4>2
           DEF Local, CallFits, ClaimStamp, CopyFits, Clocks, Fencing, At, Answered, Row
      <4>4. Stamped(s)'
        <5>1. copy'[s].expires >= rec[s].renewed + Ttl[q.to]
          BY <1>1, <2>4, <4>1 DEF Local, RenewStamp
        <5> QED
          BY <3>1, <3>3, <5>1 DEF Stamped
      <4>5. AheadIsLater(s)'
        BY <1>1, <2>1, <3>1, <4>1 DEF Local, AheadIsLater, Ahead, Calm
      <4>7. Unsent(s)'
        <5>1. ASSUME NEW phases, Named(copy[s].token, phases)
              PROVE  /\ \A l \in Leases' : l.token = copy'[s].token => l.phase \in phases
                     /\ \A p \in Asks' : p.op = "write" /\ p.token = copy'[s].token => p.to \in phases
          BY <2>1, <4>1, <5>1 DEF Named, Calm
        <5>2. /\ At(s, {"checking"})' \/ (At(s, {"arming"})' /\ Quiet(M(s))') =>
                   Named(copy[s].token, {Checking})
              /\ At(s, {"arming", "armed"})' => Named(copy[s].token, {Checking, Armed})
          BY <1>1, <2>1, <3>1 DEF Local, Unsent, At, Quiet
        <5> QED
          BY <5>1, <5>2 DEF Unsent, Named
      <4>8. Held(s)'
        BY <1>1, <2>1, <3>1, <4>1 DEF Local, Held, At, Calm, rowVars, LastRow
      <4>9. Timely(s)'
        <5> SUFFICES ASSUME At(s, {"running"})
                     PROVE  /\ now < rec'[s].proof /\ rec'[s].wake < rec'[s].proof
                            /\ rec'[s].proof < rec'[s].wake + Ttl[RunCommitted]
          BY <2>1, <3>1 DEF Timely, At, Quiet
        <5>1. /\ rec[s].proof < rec[s].renewed + Ttl[RunCommitted]
              /\ now + Heartbeat <= rec[s].proof
              /\ rec[s].renewed <= now
              /\ copy[s].phase = RunCommitted
          BY <1>1, <2>2 DEF Local, Timely, Clocks, CopyFits, Quiet
        <5>2. rec'[s].proof = rec[s].renewed + Ttl[RunCommitted]
          BY <3>1, <3>3, <4>1, <5>1
        <5> QED
          BY <3>1, <5>1, <5>2
      <4> QED
        BY <4>2, <4>3, <4>4, <4>5, <4>7, <4>8, <4>9 DEF Local
    <3> QED
      BY <3>2, <3>3
  <2> QED
    BY <1>3, <2>3, <2>4 DEF BeatAnswered
<1> QED
  BY <1>2, <1>3

-----------------------------------------------------------------------------
(* The theorems.                                                           *)

LEMMA OwnKeeps ==
  ASSUME FenceInv, NEW s \in Session, Bout(s) \/ Settle(s) \/ Heart(s)
  PROVE  Local(s)'
<1>1. CASE \/ StartClaim(s) \/ SendArm(s) \/ RingBell(s) \/ AskHolder(s) \/ WatchFence(s)
           \/ ReleaseOnce(s) \/ Probe(s)
  BY <1>1, MainSends
<1>2. CASE BeatRenews(s)
  BY <1>2, BeatSends
<1>3. CASE BeatAnswered(s) \/ BeatUnanswered(s) \/ RenewalDropped(s)
  BY <1>3, BeatOwn
<1>4. CASE ClaimWon(s)
  BY <1>4, ClaimOwn
<1>5. CASE ClaimRefused(s) \/ ReleaseConfirmed(s) \/ RetryEnds(s)
  BY <1>5, OverOwn
<1>6. CASE ArmFails(s) \/ BellUnconfirmed(s) \/ ConvergenceFails(s) \/ ReleaseUnconfirmed(s)
  BY <1>6, LeaveOwn
<1>7. CASE ArmCommitted(s) \/ BellCommitted(s)
  BY <1>7, AdoptOwn
<1>8. CASE Converged(s) \/ Probed(s)
  BY <1>8, OverOwn, LeaveOwn, AdoptOwn
<1>9. CASE FenceSeen(s)
  <2>1. Keep(s) \/ Drop(s)
    BY <1>9, MainGivesUp DEF FenceSeen, Keep
  <2> QED
    BY <1>9, <2>1, OverOwn, LeaveOwn
<1>10. CASE Lose(s)
  <2>1. Forget(s) \/ UNCHANGED vars
    BY <1>10 DEF Lose
  <2> QED
    BY <1>10, <2>1, OverOwn, QuietOwn
<1>11. CASE \/ StartArming(s) \/ CheckFails(s) \/ AbandonArmed(s) \/ Finish(s) \/ WorkStops(s)
            \/ SettleUnknown(s) \/ BeatEnds(s) \/ BeatTooLate(s)
  BY <1>11, QuietOwn
<1> QED
  BY <1>1, <1>2, <1>3, <1>4, <1>5, <1>6, <1>7, <1>8, <1>9, <1>10, <1>11 DEF Bout, Settle, Heart

LEMMA FenceInit == HolderInit => StoreInv /\ \A s \in Session : Local(s)
<1> SUFFICES ASSUME HolderInit PROVE StoreInv /\ \A s \in Session : Local(s)
  OBVIOUS
<1>1. Init /\ IInv
  BY InvInit DEF HolderInit
<1>2. /\ \A c \in Caller : call[c] = NoCall
      /\ \A s \in Session : copy[s] = Vacant
      /\ stray = {} /\ lease = Vacant /\ now = 0
  BY <1>1 DEF Init
<1>3. Asks = {} /\ Leases = {}
  BY <1>2 DEF Asks, Leases, Known
<1>4. StoreInv
  BY <1>1, <1>2, <1>3 DEF StoreInv, Answers, AsksKnown, FreshGrant, Fresh, RunStays
<1>5. ASSUME NEW s \in Session PROVE Local(s)
  <2>1. rec[s].stage = "idle" /\ rec[s].sent = 0 /\ rec[s].renewed = 0
    BY DEF HolderInit, Blank
  <2>2. call[M(s)] = NoCall /\ call[B(s)] = NoCall /\ copy[s] = Vacant
    BY <1>2, TwoCallers
  <2> QED
    BY <1>2, <2>1, <2>2
       DEF Local, CallFits, BeatFits, CopyFits, Unsent, AheadIsLater, ClaimStamp, RenewStamp,
           Clocks, Stamped, Held, Timely, At, Answered
<1> QED
  BY <1>4, <1>5

LEMMA FenceStep == FenceInv /\ HolderTypeOK' /\ [HolderNext]_holderVars => FenceInv'
<1> SUFFICES ASSUME FenceInv, HolderTypeOK', [HolderNext]_holderVars PROVE FenceInv'
  OBVIOUS
<1>1. [Next]_vars
  <2>1. CASE HolderTick \/ Wire \/ UNCHANGED holderVars
    BY <2>1 DEF HolderTick, Wire, holderVars, vars, Next
  <2>2. ASSUME NEW o \in Session, Bout(o) \/ Settle(o) \/ Heart(o) PROVE [Next]_vars
    BY <2>2, BoutSteps, SettleSteps, HeartSteps
  <2> QED
    BY <2>1, <2>2 DEF HolderNext
<1>2. StoreInv'
  BY <1>1, StoreStep DEF FenceInv
<1>3. ASSUME NEW s \in Session PROVE Local(s)'
  <2>1. CASE HolderTick
    BY <2>1, TickStep
  <2>2. CASE Wire
    BY <2>2, WireStep
  <2>3. ASSUME NEW o \in Session, Bout(o) \/ Settle(o) \/ Heart(o) PROVE Local(s)'
    BY <2>3, OwnKeeps, OthersStep
  <2>4. CASE UNCHANGED holderVars
    <3>1. UNCHANGED <<now, rowVars, call, copy, rec, stray>>
      BY <2>4 DEF holderVars, rowVars
    <3>2. Asks' \subseteq Asks /\ Leases' \subseteq Leases
      BY <3>1 DEF Asks, Leases, Known, rowVars
    <3>3. Local(s)
      BY DEF FenceInv
    <3> QED
      BY <3>1, <3>2, <3>3, Bystander
  <2> QED
    BY <2>1, <2>2, <2>3, <2>4 DEF HolderNext
<1> QED
  BY <1>2, <1>3 DEF FenceInv

LEMMA FenceInvariance == HolderSpec => []FenceInv
<1>1. HolderInit /\ HolderTypeOK => FenceInv
  BY FenceInit DEF FenceInv
<1> QED
  BY <1>1, FenceStep, HolderTypeCorrect, PTL DEF HolderSpec

(* A lease whose local proof has not run out still fences its ring, unless *)
(* its own holder released it or moved its phase on.                       *)
THEOREM ProofIsHonest == HolderSpec => []ProofHolds
<1>1. FenceInv /\ StampHolds => ProofHolds
  <2> SUFFICES ASSUME FenceInv, StampHolds, NEW s \in Session, copy[s] # Vacant,
                      now < rec[s].proof
               PROVE  \/ LastRow(copy[s].token) = Vacant
                      \/ LastRow(copy[s].token).phase # copy[s].phase
                      \/ Live /\ token = copy[s].token /\ lease.expires >= rec[s].proof
    BY DEF ProofHolds
  <2>1. copy[s] \in Known \ {Vacant} /\ copy[s] \in Lease /\ now \in Nat
        /\ lease \in Lease \cup {Vacant}
    BY OwnTypes DEF Known, TypeOK
  <2>2. rec[s].proof <= copy[s].expires /\ rec[s].proof \in Nat /\ copy[s].expires \in Nat
    BY <2>1, OwnTypes DEF FenceInv, Local, Stamped, Lease
  <2>3. copy[s].expires > now
    BY <2>1, <2>2
  <2>4. \/ LastRow(copy[s].token) = Vacant
        \/ LastRow(copy[s].token).phase # copy[s].phase
        \/ LastRow(copy[s].token).expires >= copy[s].expires /\ token = copy[s].token
    BY <2>1, <2>3 DEF StampHolds
  <2>5. ASSUME token = copy[s].token, LastRow(copy[s].token) # Vacant,
               LastRow(copy[s].token).expires >= copy[s].expires
        PROVE  Live /\ lease.expires >= rec[s].proof
    <3>1. LastRow(copy[s].token) = lease
      BY <2>1, <2>5, OwnTypes DEF LastRow, TypeOK
    <3>2. lease \in Lease /\ lease.expires \in Nat
      BY <2>1, <2>5, <3>1 DEF Lease
    <3> QED
      BY <2>1, <2>2, <2>3, <2>5, <3>1, <3>2 DEF Live
  <2> QED
    BY <2>4, <2>5
<1> QED
  BY <1>1, FenceInvariance, HolderStamps, PTL

(* A run acts only while the row is live and names its own lease, however  *)
(* many attempts were resent, given up or ran late.                        *)
THEOREM RunsAreFenced == HolderSpec => []RunIsFenced
<1>1. FenceInv /\ ProofHolds => RunIsFenced
  <2> SUFFICES ASSUME FenceInv, ProofHolds, NEW s \in Session, At(s, {"running"})
               PROVE  Live /\ SameAuthority(lease, copy[s])
    BY DEF RunIsFenced
  <2>1. /\ copy[s] # Vacant /\ copy[s].phase = RunCommitted /\ now < rec[s].proof
        /\ LastRow(copy[s].token) # Vacant
    BY DEF FenceInv, Local, CopyFits, Timely, Held, At
  <2>2. LastRow(copy[s].token).phase = RunCommitted
    <3>1. copy[s] \in Leases
      BY <2>1, OwnTypes, StoreTypes
    <3> QED
      BY <2>1, <3>1 DEF FenceInv, StoreInv, RunStays
  <2>3. Live /\ token = copy[s].token
    BY <2>1, <2>2 DEF ProofHolds
  <2>4. lease # Vacant /\ lease.token = token
    BY <2>3 DEF Live, FenceInv, StoreInv, IInv, Lineage
  <2>5. lease.id = copy[s].id /\ lease.session = copy[s].session
    BY <2>1, <2>3, <2>4 DEF FenceInv, StoreInv, IInv, FenceHasOneOwner, Known
  <2> QED
    BY <2>1, <2>3, <2>4, <2>5 DEF SameAuthority
<1> QED
  BY <1>1, FenceInvariance, ProofIsHonest, PTL
=============================================================================
