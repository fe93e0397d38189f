------------------------------ MODULE Round5Warm ------------------------------
(***************************************************************************)
(* Round 5's warm slot (server/round5_warm.py): one durable row that lends *)
(* a generation of prepared runners to a bout, led by one server process   *)
(* at a time under a lease and a fence.  In each process a supervised loop *)
(* warms, keeps READY fresh and cleans up, while the manager claims, arms, *)
(* rings and abandons bouts on the same row (server/manager.py).           *)
(*                                                                         *)
(* Every write of the row is a compare-and-swap on its revision: it makes  *)
(* the other loops' copies of the row out of date.  A read at once         *)
(* followed by its compare-and-swap is one step.  Leases, claims and rings *)
(* lapse at any moment they are not renewed at; launch margins and         *)
(* receipts may be found out of date at any probe.  A process is one run   *)
(* of the server.  What a process knows of a claim is kept for the claim   *)
(* in the row, as an id that left it never comes back, and its launch      *)
(* capsule for the generation in the row, as no other is of any use.       *)
(***************************************************************************)
EXTENDS Naturals, FiniteSets

CONSTANTS
  Process,         \* runs of the server
  Newer,           \* those of a newer warm contract
  Claim,           \* claim ids
  None,
  MaxGeneration,   \* bound on generations
  MaxFence         \* bound on changes of the leader

ASSUME WarmAssumption ==
  /\ None \notin Process /\ None \notin Claim
  /\ Newer \subseteq Process
  /\ MaxGeneration \in Nat \ {0} /\ MaxFence \in Nat

VARIABLES
  slot,            \* the row
  leaseLive,       \* its leader's lease has not expired
  claimLive,       \* nor its claim
  ring,            \* the claim that holds the main and the cleanup ring
  staged,          \* claims the runners hold a staged resident of
  used,            \* claims made so far
  seized           \* claims fenced while their manager still armed them

durable == <<slot, leaseLive, claimLive, ring, staged, used, seized>>

VARIABLES
  at,              \* at[p]: where p's supervised loop is
  capsule,         \* capsule[p]: the fence of its launch capsule, or 0
  marked,          \* marked[p]: not to be claimed until a probe is current
  inherited,       \* inherited[p]: found the claim under another process
  origin,          \* origin[p]: the fence its cleanup of the claim began under
  verified,        \* verified[p]: has seen the claim settled and absent
  task             \* task[p]: its cleanup task for the claim is in flight

loop == <<at, capsule, marked, inherited, origin, verified, task>>

VARIABLES
  mine,            \* mine[p]: the claim p's manager has in hand
  doing            \* doing[p]: what it does with it

manager == <<mine, doing>>

vars == <<slot, leaseLive, claimLive, ring, staged, used, seized,
          at, capsule, marked, inherited, origin, verified, task, mine, doing>>

Held == {"claimed", "running", "cleaning"}

WarmTypeOK ==
  /\ slot \in [state : {"warming", "ready", "blocked"} \cup Held,
               generation : 1..MaxGeneration, fence : 0..MaxFence,
               owner : Process \cup {None}, newer : BOOLEAN,
               claim : Claim \cup {None}]
  /\ leaseLive \in BOOLEAN /\ claimLive \in BOOLEAN
  /\ ring \in Claim \cup {None}
  /\ staged \in SUBSET Claim /\ used \in SUBSET Claim /\ seized \in SUBSET Claim
  /\ at \in [Process -> {"rest", "look", "led", "probing", "stale", "preparing", "gone"}]
  /\ capsule \in [Process -> 0..MaxFence] /\ origin \in [Process -> 0..MaxFence]
  /\ marked \in [Process -> BOOLEAN] /\ inherited \in [Process -> BOOLEAN]
  /\ verified \in [Process -> BOOLEAN] /\ task \in [Process -> BOOLEAN]
  /\ mine \in [Process -> Claim \cup {None}]
  /\ doing \in [Process -> {"idle", "arming", "armed", "rung", "ending"}]

(* ensure_warming makes the row for whoever looks first, with no leader.   *)
Init ==
  /\ slot = [state |-> "warming", generation |-> 1, fence |-> 0, owner |-> None,
             newer |-> FALSE, claim |-> None]
  /\ leaseLive = FALSE /\ claimLive = FALSE /\ ring = None
  /\ staged = {} /\ used = {} /\ seized = {}
  /\ at = [p \in Process |-> "rest"]
  /\ capsule = [p \in Process |-> 0] /\ origin = [p \in Process |-> 0]
  /\ marked = [p \in Process |-> FALSE] /\ inherited = [p \in Process |-> FALSE]
  /\ verified = [p \in Process |-> FALSE] /\ task = [p \in Process |-> FALSE]
  /\ mine = [p \in Process |-> None] /\ doing = [p \in Process |-> "idle"]

Alive(p) == at[p] # "gone"

(* _capsule_belongs                                                        *)
Belongs(p) == capsule[p] # 0 /\ capsule[p] = slot.fence

(* _require_current_cleanup_owner                                          *)
CurrentOwner(p) == slot.owner = p /\ leaseLive

Goes(p, s) == at' = [at EXCEPT ![p] = s]

(* A loop whose copy of the row is out of date is refused its next write,  *)
(* and starts over; a probe in flight goes on to its end.                  *)
Outdated(q) ==
  IF at[q] = "led" THEN "rest" ELSE IF at[q] = "probing" THEN "stale" ELSE at[q]

(* The row as anybody writes it...                                         *)
Writes(r) == slot' = r /\ at' = [q \in Process |-> Outdated(q)]

(* ...or p's loop, which goes on at s.                                     *)
LoopWrites(p, r, s) ==
  /\ slot' = r
  /\ at' = [q \in Process |-> IF q = p THEN s ELSE Outdated(q)]

Drops(p) == capsule' = [capsule EXCEPT ![p] = 0]

Forgets(p) ==
  /\ mine' = [mine EXCEPT ![p] = None]
  /\ doing' = [doing EXCEPT ![p] = "idle"]

(* What the processes know of a claim is of no use once it has left.       *)
ClaimLeaves ==
  /\ claimLive' = FALSE
  /\ inherited' = [q \in Process |-> FALSE]
  /\ verified' = [q \in Process |-> FALSE]
  /\ origin' = [q \in Process |-> 0]

-----------------------------------------------------------------------------
(* Runs of the server, and the clocks.                                     *)

(* The manager is closed first.  close: the loop is cancelled and nothing  *)
(* new is begun, but a reconcile in flight goes on and keeps the lease.    *)
Close(p) ==
  /\ Alive(p)
  /\ Goes(p, "gone")
  /\ Drops(p) /\ Forgets(p)
  /\ marked' = [marked EXCEPT ![p] = FALSE]
  /\ inherited' = [inherited EXCEPT ![p] = FALSE]
  /\ UNCHANGED <<durable, origin, verified, task>>

(* The process ends, and with it all it knew.                              *)
Crash(p) ==
  /\ Alive(p) \/ task[p]
  /\ Goes(p, "gone")
  /\ Drops(p) /\ Forgets(p)
  /\ marked' = [marked EXCEPT ![p] = FALSE]
  /\ inherited' = [inherited EXCEPT ![p] = FALSE]
  /\ origin' = [origin EXCEPT ![p] = 0]
  /\ verified' = [verified EXCEPT ![p] = FALSE]
  /\ task' = [task EXCEPT ![p] = FALSE]
  /\ UNCHANGED durable

LeaseLapses ==
  /\ leaseLive /\ leaseLive' = FALSE
  /\ UNCHANGED <<slot, claimLive, ring, staged, used, seized, loop, manager>>

ClaimLapses ==
  /\ claimLive /\ claimLive' = FALSE
  /\ UNCHANGED <<slot, leaseLive, ring, staged, used, seized, loop, manager>>

(* The rings expire, or the manager releases them after its cleanup.       *)
RingLapses ==
  /\ ring # None /\ ring' = None
  /\ UNCHANGED <<slot, leaseLive, claimLive, staged, used, seized, loop, manager>>

-----------------------------------------------------------------------------
(* The supervised loop, run_one_cycle.                                     *)

(* What a step that leaves the row alone keeps of the process' memory.     *)
known == <<capsule, marked, inherited, origin, verified, task>>

Rests(p) == Goes(p, "rest") /\ UNCHANGED <<durable, known, manager>>

(* ensure_warming reads the row: a claim found under another process is    *)
(* this one's to clean.                                                    *)
Look(p) ==
  /\ at[p] = "rest"
  /\ Goes(p, "look")
  /\ inherited' = [inherited EXCEPT ![p] = @ \/ (slot.state \in Held /\ slot.owner # p)]
  /\ UNCHANGED <<durable, capsule, marked, origin, verified, task, manager>>

LedByOther(p) == slot.owner \notin {None, p} /\ leaseLive

LeadRefused(p) ==
  /\ at[p] = "look" /\ LedByOther(p)
  /\ Rests(p)

(* acquire_coordinator: a new leader gets a new fence, and warms again     *)
(* what it has no capsule for; a held claim keeps its state.               *)
Lead(p) ==
  /\ at[p] = "look" /\ ~LedByOther(p)
  /\ slot.owner # p => slot.fence < MaxFence
  /\ LoopWrites(p, IF slot.owner = p THEN slot ELSE
       [slot EXCEPT !.owner = p, !.fence = @ + 1,
                    !.state = IF @ \in {"ready", "blocked"} THEN "warming" ELSE @], "led")
  /\ leaseLive' = TRUE
  /\ UNCHANGED <<claimLive, ring, staged, used, seized, known, manager>>

(* Idle runners are given up for those of the contract this process runs.  *)
AdoptContract(p) ==
  /\ at[p] = "led"
  /\ slot.state \notin Held /\ slot.newer # (p \in Newer)
  /\ slot.generation < MaxGeneration
  /\ LoopWrites(p, [slot EXCEPT !.newer = p \in Newer, !.state = "warming",
                                !.generation = @ + 1], "led")
  /\ capsule' = [q \in Process |-> 0]
  /\ UNCHANGED <<leaseLive, claimLive, ring, staged, used, seized,
                 marked, inherited, origin, verified, task, manager>>

(* The loop leads the row in state s, on the contract it runs.             *)
Finds(p, s) ==
  /\ at[p] = "led" /\ slot.state = s
  /\ slot.state \in Held \/ slot.newer = (p \in Newer)

(* _drive_cleanup_convergence and converge_cleanup: one task of the        *)
(* process reconciles the claim, whoever asks for it.                      *)
Reconciles(p, from) ==
  /\ task' = [task EXCEPT ![p] = TRUE]
  /\ origin' = [origin EXCEPT ![p] = from]

Origin(p) == IF origin[p] = 0 THEN slot.fence ELSE origin[p]

Arming(q, c) == doing[q] = "arming" /\ mine[q] = c

FencesClaim ==
  /\ Writes([slot EXCEPT !.state = "cleaning"])
  /\ seized' = seized \cup {c \in {slot.claim} : \E q \in Process : Arming(q, c)}

(* A claim of a departed process is fenced, then reconciled.               *)
FenceInherited(p) ==
  /\ Finds(p, "claimed") \/ Finds(p, "running")
  /\ inherited[p]
  /\ FencesClaim
  /\ Reconciles(p, Origin(p))
  /\ UNCHANGED <<leaseLive, claimLive, ring, staged, used, capsule, marked,
                 inherited, verified, manager>>

(* A live bout of this process is not the loop's to clean.                 *)
RunsOn(p) ==
  /\ Finds(p, "running") /\ ~inherited[p]
  /\ Rests(p)

Converges(p) ==
  /\ Finds(p, "cleaning") /\ ~verified[p]
  /\ Reconciles(p, Origin(p))
  /\ Goes(p, "rest")
  /\ UNCHANGED <<durable, capsule, marked, inherited, verified, manager>>

ToRenew(p) == mine[p] = slot.claim /\ doing[p] \in {"arming", "armed"} /\ Belongs(p)

RenewClaim(p) ==
  /\ Finds(p, "claimed") /\ ~inherited[p]
  /\ ToRenew(p)
  /\ Writes(slot)
  /\ claimLive' = TRUE
  /\ UNCHANGED <<leaseLive, ring, staged, used, seized, known, manager>>

(* release_expired_claim: an expired claim that is not, or for too long,   *)
(* kept by its operator is fenced with the claim retained.                 *)
FenceExpired(p) ==
  /\ Finds(p, "claimed") /\ ~inherited[p]
  /\ ~claimLive
  /\ FencesClaim
  /\ UNCHANGED <<leaseLive, claimLive, ring, staged, used, known, manager>>

AwaitsExpiry(p) ==
  /\ Finds(p, "claimed") /\ ~inherited[p]
  /\ ~ToRenew(p) /\ claimLive
  /\ Rests(p)

(* READY without the capsule it was published with, _reestablish_capsule:  *)
(* warmed again, or blocked after too many of those.                       *)
CapsuleMissing(p) ==
  /\ Finds(p, "ready") /\ ~Belongs(p)
  /\ Drops(p)
  /\ marked' = [marked EXCEPT ![p] = TRUE]
  /\ \E s \in {"warming", "blocked"} : Writes([slot EXCEPT !.state = s])
  /\ UNCHANGED <<leaseLive, claimLive, ring, staged, used, seized,
                 inherited, origin, verified, task, manager>>

(* validate_ready asks the runners; a claim may be made meanwhile.         *)
Probe(p) ==
  /\ Finds(p, "ready") /\ Belongs(p)
  /\ Goes(p, "probing")
  /\ UNCHANGED <<durable, known, manager>>

Probing(p) == at[p] \in {"probing", "stale"}

(* They are who they were.  Receipts and credentials are renewed, if the   *)
(* row is still the one probed.                                            *)
ProbeCurrent(p) ==
  /\ Probing(p)
  /\ marked' = [marked EXCEPT ![p] = FALSE]
  /\ IF at[p] = "probing" THEN LoopWrites(p, slot, "rest")
                          ELSE Goes(p, "rest") /\ UNCHANGED slot
  /\ UNCHANGED <<leaseLive, claimLive, ring, staged, used, seized,
                 capsule, inherited, origin, verified, task, manager>>

(* A transient fault of the probe, or of a refresh whose credential still  *)
(* has its margin: another try in place.                                   *)
ProbeStrikes(p) == Probing(p) /\ Rests(p)

(* Mutant: what is given up need not be the row that was probed.           *)
GivesUpBlindly(p, states) ==
  /\ Probing(p)
  /\ Drops(p)
  /\ \E s \in states : LoopWrites(p, [slot EXCEPT !.state = s], "rest")
  /\ UNCHANGED <<leaseLive, claimLive, ring, staged, used, seized,
                 inherited, origin, verified, task, manager>>

(* What is READY is given up, if it is still the row that was probed; the  *)
(* capsule is dropped first, whoever holds it now.                         *)
GivesUp(p, states) ==
  /\ Probing(p)
  /\ Drops(p)
  /\ IF at[p] = "probing"
       THEN \E s \in states : LoopWrites(p, [slot EXCEPT !.state = s], "rest")
       ELSE Goes(p, "rest") /\ UNCHANGED slot
  /\ UNCHANGED <<leaseLive, claimLive, ring, staged, used, seized,
                 inherited, origin, verified, task, manager>>

(* Too many strikes, a probe or a refresh that is refused: freshness_lost. *)
FreshnessLost(p) ==
  /\ GivesUp(p, {"warming"})
  /\ UNCHANGED marked

(* Another resident answers, _reestablish_identity.                        *)
IdentityChanged(p) ==
  /\ GivesUp(p, {"warming", "blocked"})
  /\ marked' = [marked EXCEPT ![p] = TRUE]

(* A self-verifiable block is tried again, a terminal one stays.           *)
Recheck(p) ==
  /\ Finds(p, "blocked")
  /\ LoopWrites(p, [slot EXCEPT !.state = "warming"], "led")
  /\ UNCHANGED <<leaseLive, claimLive, ring, staged, used, seized, known, manager>>

StaysBlocked(p) == Finds(p, "blocked") /\ Rests(p)

(* record_attempt, then reconcile and prepare, perhaps for an hour, with   *)
(* the lease renewed by a heartbeat.                                       *)
Prepare(p) ==
  /\ Finds(p, "warming")
  /\ LoopWrites(p, slot, "preparing")
  /\ UNCHANGED <<leaseLive, claimLive, ring, staged, used, seized, known, manager>>

(* The row as the heartbeat keeps it for the preparation, _rebase_held_slot. *)
StillHeld(p) == at[p] = "preparing" /\ slot.owner = p /\ slot.state = "warming"

(* Mutant: published by a preparation whose process no longer leads.       *)
PublishReadyUnled(p) ==
  /\ at[p] = "preparing" /\ slot.state = "warming"
  /\ LoopWrites(p, [slot EXCEPT !.state = "ready"], "rest")
  /\ capsule' = [capsule EXCEPT ![p] = slot.fence]
  /\ UNCHANGED <<leaseLive, claimLive, ring, staged, used, seized, marked,
                 inherited, origin, verified, task, manager>>

(* publish_ready: both lanes proved a fresh preload under this fence.      *)
PublishReady(p) ==
  /\ StillHeld(p)
  /\ LoopWrites(p, [slot EXCEPT !.state = "ready"], "rest")
  /\ capsule' = [capsule EXCEPT ![p] = slot.fence]
  /\ UNCHANGED <<leaseLive, claimLive, ring, staged, used, seized, marked,
                 inherited, origin, verified, task, manager>>

(* record_retry, also on contention, or record_blocked.                    *)
PrepareFails(p) ==
  /\ StillHeld(p)
  /\ \E s \in {"warming", "blocked"} : LoopWrites(p, [slot EXCEPT !.state = s], "rest")
  /\ UNCHANGED <<leaseLive, claimLive, ring, staged, used, seized, known, manager>>

(* Another leads: nothing is written under a lost fence.                   *)
PrepareLost(p) == at[p] = "preparing" /\ ~StillHeld(p) /\ Rests(p)

-----------------------------------------------------------------------------
(* The cleanup task, _converge_cleanup_once.                               *)

Cleans(p) == task[p] /\ CurrentOwner(p) /\ slot.state = "cleaning"

(* provider.reconcile: both jobs are cancelled, and settle; the provider's *)
(* resources are proved absent.  A job nothing was ever staged for is not  *)
(* cancelled, round5_control.py.                                           *)
Settle(p) ==
  /\ Cleans(p)
  /\ staged' = staged \ {slot.claim}
  /\ verified' = [verified EXCEPT ![p] = TRUE]
  /\ UNCHANGED <<slot, leaseLive, claimLive, ring, used, seized, at,
                 capsule, marked, inherited, origin, task, manager>>

(* It fails, record_cleanup_retry, or its lease is lost.                   *)
TaskEnds(p) ==
  /\ task[p]
  /\ task' = [task EXCEPT ![p] = FALSE]
  /\ IF slot.owner = p /\ slot.state = "cleaning" THEN Writes(slot) ELSE UNCHANGED <<slot, at>>
  /\ UNCHANGED <<leaseLive, claimLive, ring, staged, used, seized,
                 capsule, marked, inherited, origin, verified, manager>>

(* _finish_cleanup_transition, for what this process saw clean: the next   *)
(* generation, under the fence the cleanup began with.                     *)
Finish(p) ==
  /\ verified[p]
  /\ CurrentOwner(p) /\ Origin(p) = slot.fence
  /\ slot.generation < MaxGeneration
  /\ Writes([slot EXCEPT !.state = "warming", !.generation = @ + 1,
                         !.claim = None, !.newer = p \in Newer])
  /\ ClaimLeaves
  /\ task' = [q \in Process |-> FALSE]
  /\ capsule' = [q \in Process |-> 0]
  /\ UNCHANGED <<leaseLive, ring, staged, used, seized, marked, manager>>

FinishTask(p) == Cleans(p) /\ Finish(p)

(* The loop finds what it had seen clean and not finished.                 *)
FinishVerified(p) == Finds(p, "cleaning") /\ Finish(p)

(* WarmFenceLostError: that cleanup began under another fence.             *)
FinishRefused(p) ==
  /\ Finds(p, "cleaning") /\ verified[p]
  /\ ~(CurrentOwner(p) /\ Origin(p) = slot.fence)
  /\ Rests(p)

-----------------------------------------------------------------------------
(* The manager, on the same row.                                           *)

(* claim_with_leases: the row and both rings in one transaction.           *)
ClaimReady(p, c) ==
  /\ Alive(p) /\ doing[p] = "idle"
  /\ c \notin used /\ ring = None
  /\ slot.state = "ready" /\ Belongs(p) /\ ~marked[p]
  /\ Writes([slot EXCEPT !.state = "claimed", !.claim = c])
  /\ claimLive' = TRUE /\ ring' = c
  /\ used' = used \cup {c}
  /\ mine' = [mine EXCEPT ![p] = c]
  /\ doing' = [doing EXCEPT ![p] = "arming"]
  /\ UNCHANGED <<leaseLive, staged, seized, known>>

(* Mutant: a bout whose residents are staged is returned like any other.   *)
ReturnStaged(p) ==
  /\ Alive(p) /\ doing[p] \in {"arming", "armed"}
  /\ slot.state = "claimed" /\ slot.claim = mine[p]
  /\ Writes([slot EXCEPT !.state = "ready", !.claim = None])
  /\ ClaimLeaves
  /\ ring' = IF ring = mine[p] THEN None ELSE ring
  /\ Forgets(p)
  /\ UNCHANGED <<leaseLive, staged, used, seized, capsule, marked, task>>

(* return_unstarted_claim: nothing was staged, the row is READY again and  *)
(* both rings are free.  Who leads is not asked.                           *)
ReturnUnstarted(p) ==
  /\ Alive(p) /\ doing[p] = "arming" /\ mine[p] \notin staged
  /\ slot.state = "claimed" /\ slot.claim = mine[p]
  /\ Writes([slot EXCEPT !.state = "ready", !.claim = None])
  /\ ClaimLeaves
  /\ ring' = IF ring = mine[p] THEN None ELSE ring
  /\ Forgets(p)
  /\ UNCHANGED <<leaseLive, staged, used, seized, capsule, marked, task>>

(* ARM stages the residents, while the rings are this bout's.              *)
Stage(p) ==
  /\ Alive(p) /\ doing[p] = "arming" /\ ring = mine[p]
  /\ staged' = staged \cup {mine[p]}
  /\ doing' = [doing EXCEPT ![p] = "armed"]
  /\ UNCHANGED <<slot, leaseLive, claimLive, ring, used, seized, loop, mine>>

(* Mutant: the bell asks for the claim and the rings, not for the state.   *)
BellInAnyState(p) ==
  /\ Alive(p) /\ doing[p] = "armed" /\ ring = mine[p]
  /\ slot.claim = mine[p] /\ claimLive
  /\ capsule[p] # 0 /\ ~marked[p]
  /\ Writes([slot EXCEPT !.state = "running"])
  /\ doing' = [doing EXCEPT ![p] = "rung"]
  /\ UNCHANGED <<leaseLive, claimLive, ring, staged, used, seized, known, mine>>

(* accept_bell_with_leases: the row and both rings in one transaction.     *)
Bell(p) ==
  /\ Alive(p) /\ doing[p] = "armed" /\ ring = mine[p]
  /\ slot.state = "claimed" /\ slot.claim = mine[p] /\ claimLive
  /\ capsule[p] # 0 /\ ~marked[p]
  /\ Writes([slot EXCEPT !.state = "running"])
  /\ doing' = [doing EXCEPT ![p] = "rung"]
  /\ UNCHANGED <<leaseLive, claimLive, ring, staged, used, seized, known, mine>>

(* The bout is over, or never will begin: the claim is not renewed and     *)
(* nothing is staged for it any more.                                      *)
Abandon(p) ==
  /\ Alive(p) /\ doing[p] \in {"arming", "armed", "rung"}
  /\ doing' = [doing EXCEPT ![p] = "ending"]
  /\ UNCHANGED <<durable, loop, mine>>

(* begin_cleanup and converge_cleanup, again and again until it is clean.  *)
BeginCleanup(p) ==
  /\ Alive(p) /\ doing[p] = "ending"
  /\ CurrentOwner(p) /\ slot.claim = mine[p]
  /\ IF slot.state = "cleaning" THEN UNCHANGED <<slot, at>>
                                ELSE Writes([slot EXCEPT !.state = "cleaning"])
  /\ Reconciles(p, slot.fence)
  /\ UNCHANGED <<leaseLive, claimLive, ring, staged, used, seized,
                 capsule, marked, inherited, verified, manager>>

(* _retire_completed_round5_cleanup: whoever cleaned it.                   *)
Retire(p) ==
  /\ Alive(p) /\ doing[p] = "ending" /\ slot.claim # mine[p]
  /\ Forgets(p)
  /\ UNCHANGED <<durable, loop>>

(* invalidate_readiness: the control outbox does not drain.                *)
InvalidateReadiness(p) ==
  /\ Alive(p) /\ slot.state = "ready" /\ ~marked[p]
  /\ marked' = [marked EXCEPT ![p] = TRUE]
  /\ UNCHANGED <<durable, at, capsule, inherited, origin, verified, task, manager>>

-----------------------------------------------------------------------------
Loop(p) ==
  \/ Look(p) \/ LeadRefused(p) \/ Lead(p) \/ AdoptContract(p)
  \/ FenceInherited(p) \/ RunsOn(p) \/ Converges(p) \/ FinishVerified(p)
  \/ FinishRefused(p) \/ RenewClaim(p) \/ FenceExpired(p) \/ AwaitsExpiry(p)
  \/ CapsuleMissing(p) \/ Probe(p) \/ ProbeCurrent(p) \/ ProbeStrikes(p)
  \/ FreshnessLost(p) \/ IdentityChanged(p) \/ Recheck(p) \/ StaysBlocked(p)
  \/ Prepare(p) \/ PublishReady(p) \/ PrepareFails(p) \/ PrepareLost(p)

Tasks(p) == Settle(p) \/ TaskEnds(p) \/ FinishTask(p)

Manages(p) ==
  \/ \E c \in Claim : ClaimReady(p, c)
  \/ ReturnUnstarted(p) \/ Stage(p) \/ Bell(p) \/ Abandon(p)
  \/ BeginCleanup(p) \/ Retire(p) \/ InvalidateReadiness(p)

Next ==
  \/ \E p \in Process : Close(p) \/ Crash(p) \/ Loop(p) \/ Tasks(p) \/ Manages(p)
  \/ LeaseLapses \/ ClaimLapses \/ RingLapses

Spec == Init /\ [][Next]_vars

-----------------------------------------------------------------------------
(* The row owes a cleanup exactly while it holds a claim: nothing warms,   *)
(* publishes or blocks over residents that may be staged.                  *)
ClaimIsDebt == slot.claim # None <=> slot.state \in Held

(* Two processes never both hold a capsule they could launch from.         *)
OneLauncher ==
  \A p, q \in Process : Belongs(p) /\ Belongs(q) => p = q

(* A claim that leaves the row leaves nothing staged for it, unless it was *)
(* fenced under a manager that was still arming it.                        *)
NoStrandedResident ==
  \A c \in Claim : c \in staged /\ slot.claim # c => c \in seized

(* READY and WARMING never stand over a staged resident ("never READY or   *)
(* WARMING over possibly-staged residents", round5_warm.py).               *)
NoWarmOverStaged ==
  slot.state \notin Held => staged = {}

(* The leader that has seen a claim clean can finish it, at once or when   *)
(* its manager begins the cleanup anew ("a self-fenced slot is never       *)
(* wedged").                                                               *)
NeverWedged ==
  \A p \in Process :
    slot.state = "cleaning" /\ CurrentOwner(p) /\ verified[p] /\ Alive(p) =>
      Origin(p) = slot.fence \/ mine[p] = slot.claim

(* What the slot promises.                                                 *)
Promise == INSTANCE WarmSlot WITH
  generation <- slot.generation,
  use <- IF slot.state \in Held THEN slot.state ELSE "idle",
  claim <- slot.claim,
  spent <- used

KeepsPromise == Promise!SlotSpec
=============================================================================
