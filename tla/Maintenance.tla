----------------------------- MODULE Maintenance -----------------------------
(***************************************************************************)
(* The operator's commands that change a live installation beside the      *)
(* serving app: renew, reset, runner refresh and setup on an installation  *)
(* that exists (server/lifecycle.py).  The command claims the rings its    *)
(* work must not meet a bout on, keeps them with a heartbeat, and does its *)
(* work on a worker thread.  The work moves the copies of the sealed       *)
(* expiry: the AWS policies and tags Terraform applies, the manifest, and  *)
(* the Round 5 seal, whose tag every resource of a bout carries; a journal *)
(* file remembers where an interrupted renew was going.                    *)
(*                                                                         *)
(* The generation lock admits one command at a time (GenerationLock); a    *)
(* ring is its row's holder only (BoutLease has the row).                  *)
(***************************************************************************)
EXTENDS Naturals

CONSTANTS
  RoundRing,       \* rings of the rounds that bouts claim, Round 5's among them
  Round5, Cleanup, \* Round 5's ring and its cleanup sibling
  Main,            \* the ring of installations without round isolation
  Deployed,        \* the app serves a snapshot of the manifest, not the file
  None,
  MaxExpiry        \* bound on sealed expiries; the first is 0

ASSUME RingAssumption ==
  /\ Round5 \in RoundRing
  /\ Cleanup \notin RoundRing /\ Main \notin RoundRing \cup {Cleanup}
  /\ Cleanup # Main
ASSUME ExpiryAssumption == MaxExpiry \in Nat /\ None \notin Nat
ASSUME DeployedAssumption == Deployed \in BOOLEAN

Ring == RoundRing \cup {Cleanup, Main}
Expiry == 0..MaxExpiry
Kind == {"renew", "reset", "refresh", "setup"}

VARIABLES
  ring,     \* who holds each ring's row
  cmd,      \* the running command: its kind, what its coroutine is at, the rings it has
            \* still to claim or to give back, whether its heartbeat failed
  work,     \* what its work is at, and the expiry a renew is moving to
  iam,      \* the expiry Terraform last applied to the policies and tags
  file,     \* the manifest on disk: expires_at, the Round 5 seal's, status
  journal,  \* renew.json
  app,      \* the Round 5 seal the serving process started with
  residue,  \* expiry tags of the per-bout resources that exist
  slipped   \* history: a heartbeat failed under work that went on

sealed == <<iam, file, journal>>
vars == <<ring, cmd, work, sealed, app, residue, slipped>>

Idle == [kind |-> None, at |-> "off", want |-> {}, lost |-> FALSE]
NoWork == [at |-> "none", target |-> None]

(* The rings a command holds while it works: renew_fence_ring_keys, the     *)
(* default of build_lease_store, _round5_refresh_ring_keys.                 *)
Sweep(kind) ==
  CASE kind = "renew" -> RoundRing \cup {Cleanup}
    [] kind = "refresh" -> {Round5, Cleanup}
    [] kind = "reset" -> {Main}
    [] OTHER -> {}

Moving == {"apply", "expiry", "reseal", "topology", "round6", "lease", "unlink"}
Stage == Moving \cup {"none", "check", "journal", "precheck", "reconcile", "resume",
                     "recover", "teardown", "reseed", "install", "commit"}

MaintTypeOK ==
  /\ ring \in [Ring -> {"free", "bout", "command"}]
  /\ cmd \in [kind : Kind \cup {None}, want : SUBSET Ring, lost : BOOLEAN,
              at : {"off", "preparing", "claiming", "working", "tearing"}]
  /\ work \in [at : Stage, target : Expiry \cup {None}]
  /\ iam \in Expiry
  /\ file \in [expires : Expiry, seal : Expiry, status : {"ready", "seeding"}]
  /\ journal \in Expiry \cup {None}
  /\ app \in Expiry /\ residue \subseteq Expiry /\ slipped \in BOOLEAN

Init ==
  /\ ring = [r \in Ring |-> "free"] /\ cmd = Idle /\ work = NoWork
  /\ iam = 0 /\ file = [expires |-> 0, seal |-> 0, status |-> "ready"]
  /\ journal = None /\ app = 0 /\ residue = {} /\ slipped = FALSE
-----------------------------------------------------------------------------
(* Bouts, as the commands meet them: they claim their round's ring if the   *)
(* manifest the app reads says ready, and Round 5's make resources tagged   *)
(* with the seal, which AWS refuses unless the policies name the same       *)
(* expiry, and remove those whose tags equal the seal's.                    *)

BoutClaims(r) ==
  /\ r \in RoundRing /\ ring[r] = "free"
  /\ Deployed \/ file.status = "ready"
  /\ ring' = [ring EXCEPT ![r] = "bout"]
  /\ UNCHANGED <<cmd, work, sealed, app, residue, slipped>>

BoutCreates ==
  /\ ring[Round5] = "bout" /\ app = iam
  /\ residue' = residue \cup {app}
  /\ UNCHANGED <<ring, cmd, work, sealed, app, slipped>>

CleanupClaims ==
  /\ ring[Cleanup] = "free" /\ residue # {}
  /\ ring' = [ring EXCEPT ![Cleanup] = "bout"]
  /\ UNCHANGED <<cmd, work, sealed, app, residue, slipped>>

BoutCleans ==
  /\ "bout" \in {ring[Round5], ring[Cleanup]}
  /\ residue' = residue \ {app}
  /\ UNCHANGED <<ring, cmd, work, sealed, app, slipped>>

BoutEnds(r) ==   \* released, or its process died and the row lapsed
  /\ ring[r] = "bout"
  /\ ring' = [ring EXCEPT ![r] = "free"]
  /\ UNCHANGED <<cmd, work, sealed, app, residue, slipped>>

AppRestarts ==
  /\ \A r \in Ring : ring[r] # "bout"
  /\ app' = file.seal /\ app # file.seal
  /\ UNCHANGED <<ring, cmd, work, sealed, residue, slipped>>
-----------------------------------------------------------------------------
(* The command's coroutine.  Renew and refresh claim their rings before they *)
(* do anything; setup, and reset's removal of what a failed bout left, run   *)
(* before a ring is claimed.                                                *)

Starts(kind, at, first, target) ==
  /\ cmd.at = "off"
  /\ cmd' = [kind |-> kind, at |-> at, want |-> Sweep(kind), lost |-> FALSE]
  /\ work' = [at |-> first, target |-> target]
  /\ UNCHANGED <<ring, sealed, app, residue, slipped>>

(* Mutant: an interrupted renew is not looked for. *)
StartRenewAnew ==
  /\ file.status = "ready"
  /\ \E t \in {e \in Expiry : e > file.expires} : Starts("renew", "claiming", "check", t)

(* Mutant: the journaled expiry is moved on from, not to. *)
StartRenewOnwards ==
  /\ file.status = "ready"
  /\ \E t \in IF journal # None THEN {journal + 1} ELSE {e \in Expiry : e > file.expires} :
       Starts("renew", "claiming", "check", t)

StartRenew ==   \* to the journaled expiry, or to one after the manifest's
  /\ file.status = "ready"
  /\ \E t \in IF journal # None THEN {journal} ELSE {e \in Expiry : e > file.expires} :
       Starts("renew", "claiming", "check", t)

StartRefresh == file.status = "ready" /\ Starts("refresh", "claiming", "install", None)

StartReset == Starts("reset", "preparing", "recover", None)

StartSetup ==
  Starts("setup", "preparing", IF file.status = "ready" THEN "precheck" ELSE "resume", None)

(* In the order of the sweep, which no property tells from another; a ring  *)
(* that is held refuses the command, which gives back those it claimed.     *)
ClaimRing(r) ==
  /\ cmd.at = "claiming" /\ r \in cmd.want
  /\ \/ /\ ring[r] = "free"
        /\ ring' = [ring EXCEPT ![r] = "command"]
        /\ cmd' = [cmd EXCEPT !.want = @ \ {r},
                              !.at = IF cmd.want = {r} THEN "working" ELSE @]
        /\ UNCHANGED work
     \/ /\ ring[r] # "free"
        /\ cmd' = [cmd EXCEPT !.at = "tearing", !.want = Sweep(cmd.kind) \ cmd.want]
        /\ work' = NoWork /\ UNCHANGED ring
  /\ UNCHANGED <<sealed, app, residue, slipped>>

(* The heartbeat finds a ring gone, or cannot reach the store.  The wait    *)
(* for renew's thread is cancelled, not the thread; reset is cancelled      *)
(* between its calls, but a call on a thread goes on; refresh waits for its *)
(* thread, which then will not commit.                                      *)
HeartbeatFails ==
  /\ cmd.at = "working" /\ ~cmd.lost
  /\ cmd' = IF cmd.kind = "refresh" THEN [cmd EXCEPT !.lost = TRUE]
            ELSE [cmd EXCEPT !.lost = TRUE, !.at = "tearing", !.want = Sweep(cmd.kind)]
  /\ work' = IF work.at \in {"teardown", "reseed"} THEN NoWork ELSE work
  /\ slipped' = (slipped \/ work'.at # "none")
  /\ UNCHANGED <<ring, sealed, app, residue>>

GiveBack(r) ==
  /\ cmd.at = "tearing" /\ r \in cmd.want
  /\ ring' = [ring EXCEPT ![r] = IF @ = "command" THEN "free" ELSE @]
  /\ cmd' = [cmd EXCEPT !.want = @ \ {r}]
  /\ UNCHANGED <<work, sealed, app, residue, slipped>>

Exits ==   \* the process, and the generation lock with it, waits for its threads
  /\ cmd.at = "tearing" /\ cmd.want = {} /\ work.at = "none"
  /\ cmd' = Idle
  /\ UNCHANGED <<ring, work, sealed, app, residue, slipped>>

Killed ==
  /\ cmd.at # "off"
  /\ cmd' = Idle /\ work' = NoWork
  /\ UNCHANGED <<ring, sealed, app, residue, slipped>>

(* Mutant: rows without a time to live. *)
KeptUntilLost == IF cmd.lost THEN {} ELSE Ring

Kept ==   \* the rings whose rows the command keeps alive
  CASE cmd.at = "claiming" -> Sweep(cmd.kind) \ cmd.want
    [] cmd.at = "working" /\ ~cmd.lost -> Sweep(cmd.kind)
    [] OTHER -> {}

Lapses(r) ==   \* ninety seconds after the last renewal
  /\ ring[r] = "command" /\ r \notin Kept
  /\ ring' = [ring EXCEPT ![r] = "free"]
  /\ UNCHANGED <<cmd, work, sealed, app, residue, slipped>>
-----------------------------------------------------------------------------
(* The work.  Each step is one stage of it, and may fail, which ends it; it *)
(* goes on while the coroutine tears the fence down.                        *)

At(stage) == work.at = stage /\ cmd.at \in {"working", "tearing"}
Preparing(stage) == work.at = stage /\ cmd.at = "preparing"

GoOn(stage) == work' = [work EXCEPT !.at = stage] /\ UNCHANGED cmd

Ends ==
  /\ work' = NoWork
  /\ cmd' = CASE cmd.at = "working" -> [cmd EXCEPT !.at = "tearing", !.want = Sweep(cmd.kind)]
              [] cmd.at = "preparing" -> [cmd EXCEPT !.at = "tearing", !.want = {}]
              [] OTHER -> cmd

world == <<ring, app, residue, slipped>>

Fails ==
  /\ work.at # "none" /\ cmd.at # "claiming"
  /\ Ends /\ UNCHANGED <<world, sealed>>

(* Mutant: nothing asks what earlier bouts left. *)
AnyBaseline ==
  /\ At("check")
  /\ GoOn("journal") /\ UNCHANGED <<world, sealed>>

CleanBaseline ==
  /\ At("check") /\ residue = {}
  /\ GoOn("journal") /\ UNCHANGED <<world, sealed>>

WriteJournal ==
  /\ At("journal")
  /\ journal' = work.target
  /\ GoOn("apply") /\ UNCHANGED <<world, iam, file>>

(* An apply that fails may have made part of its plan. *)
Apply ==
  /\ At("apply")
  /\ iam' = work.target
  /\ GoOn("expiry") \/ Ends
  /\ UNCHANGED <<world, file, journal>>

(* Mutant: the journal is removed once the manifest names its target. *)
SaveExpiryAndUnlink ==
  /\ At("expiry")
  /\ file' = [file EXCEPT !.expires = work.target]
  /\ journal' = None
  /\ GoOn("reseal") /\ UNCHANGED <<world, iam>>

SaveExpiry ==
  /\ At("expiry")
  /\ file' = [file EXCEPT !.expires = work.target]
  /\ GoOn("reseal") /\ UNCHANGED <<world, iam, journal>>

(* _prepare_and_reseal_round5: the tags are rebuilt from the manifest and   *)
(* must be those Terraform reports; what is saved is not ready again until  *)
(* Round 6's seal has been revalidated.  Setup calls it before its reset,   *)
(* without a ring.                                                          *)
Reseal ==
  /\ At("reseal") \/ Preparing("reseal")
  /\ iam = file.expires
  /\ file' = [file EXCEPT !.seal = file.expires, !.status = "seeding"]
  /\ GoOn("topology") /\ UNCHANGED <<world, iam, journal>>

Topology ==
  /\ \/ At("topology") /\ (cmd.kind = "reset" /\ cmd.lost) /\ Ends
     \/ At("topology") /\ ~(cmd.kind = "reset" /\ cmd.lost) /\ GoOn("round6")
     \/ /\ Preparing("topology")
        /\ work' = [work EXCEPT !.at = "recover"]
        /\ cmd' = [cmd EXCEPT !.kind = "reset", !.want = Sweep("reset")]
  /\ UNCHANGED <<world, sealed>>

RevalidateRound6 ==
  /\ At("round6")
  /\ file' = [file EXCEPT !.status = "ready"]
  /\ IF cmd.kind = "renew" THEN GoOn("lease") ELSE Ends
  /\ UNCHANGED <<world, iam, journal>>

MoveLease == At("lease") /\ GoOn("unlink") /\ UNCHANGED <<world, sealed>>

UnlinkJournal ==
  /\ At("unlink")
  /\ journal' = None
  /\ Ends /\ UNCHANGED <<world, iam, file>>

Precheck ==
  /\ Preparing("precheck") /\ residue = {}
  /\ GoOn("reconcile") /\ UNCHANGED <<world, sealed>>

Reconcile ==   \* applies the manifest's expiry, whatever a renew was moving to
  /\ Preparing("reconcile")
  /\ iam' = file.expires
  /\ (residue = {} /\ GoOn("reseal")) \/ Ends
  /\ UNCHANGED <<world, file, journal>>

Resume ==   \* resume_provision with both seals in place seeds again, and reseals neither
  /\ Preparing("resume")
  /\ file' = [file EXCEPT !.status = "ready"]
  /\ Ends /\ UNCHANGED <<world, iam, journal>>

(* _reconcile_round5_failed_cleanups, on the cleanup ring, then the clean   *)
(* baseline it requires.                                                    *)
Recover ==
  /\ Preparing("recover")
  /\ residue = {} \/ (residue = {file.seal} /\ ring[Cleanup] = "free")
  /\ residue' = {}
  /\ work' = [work EXCEPT !.at = "teardown"] /\ cmd' = [cmd EXCEPT !.at = "claiming"]
  /\ UNCHANGED <<ring, sealed, app, slipped>>

Teardown ==   \* the environments of Rounds 2 and 3, whoever is using them
  /\ At("teardown")
  /\ file' = [file EXCEPT !.status = "seeding"]
  /\ GoOn("reseed") /\ UNCHANGED <<world, iam, journal>>

Reseed == At("reseed") /\ GoOn("reseal") /\ UNCHANGED <<world, sealed>>

Install == At("install") /\ GoOn("commit") /\ UNCHANGED <<world, sealed>>

Commit ==   \* the runners' digest, only while the fence was not seen lost
  /\ At("commit") /\ ~cmd.lost
  /\ Ends /\ UNCHANGED <<world, sealed>>

Work ==
  \/ CleanBaseline \/ WriteJournal \/ Apply \/ SaveExpiry \/ Reseal \/ Topology
  \/ RevalidateRound6 \/ MoveLease \/ UnlinkJournal
  \/ Precheck \/ Reconcile \/ Resume \/ Recover \/ Teardown \/ Reseed
  \/ Install \/ Commit \/ Fails

Command ==
  \/ StartRenew \/ StartRefresh \/ StartReset \/ StartSetup
  \/ HeartbeatFails \/ Exits \/ Killed
  \/ \E r \in Ring : ClaimRing(r) \/ GiveBack(r) \/ Lapses(r)

Bouts ==
  \/ BoutCreates \/ CleanupClaims \/ BoutCleans \/ AppRestarts
  \/ \E r \in Ring : BoutClaims(r) \/ BoutEnds(r)

Next == Bouts \/ Command \/ Work

Spec == Init /\ [][Next]_vars
-----------------------------------------------------------------------------
(* Properties. *)

(* A renew that was stopped anywhere can be finished: unless the journal    *)
(* names a target, the policies, the manifest and the seal agree, so the    *)
(* next renew knows whether there is one to finish, and which (renew,       *)
(* _resume_renew_target).                                                   *)
HalfMovedIsJournaled ==
  journal = None => iam = file.expires /\ file.expires = file.seal

(* Neither the manifest nor the seal is ever ahead of what AWS was told:    *)
(* cleanup compares the manifest with live tags, and a seal ahead of the    *)
(* policies would have every bout of Round 5 refused ("the manifest must    *)
(* never be written ahead of the retag").                                   *)
NeverAhead == file.seal <= file.expires /\ file.expires <= iam

(* The journaled target stands until every copy names it, whatever is run   *)
(* and killed in between: a later renew cannot choose another ("a re-run    *)
(* converges rather than drifts").                                          *)
TargetStands ==
  [][journal # None /\ journal' # journal =>
       journal' = None /\ iam = journal /\ file.expires = journal /\ file.seal = journal]_vars

(* What a bout made can always be removed by the seal's tag: the seal is    *)
(* not moved away under a resource that exists, unless a fence was lost     *)
(* under the work (_require_round5_clean_baseline, "rotating the tag        *)
(* underneath them is what would make them un-cleanable").                  *)
NothingStranded == ~slipped => residue \subseteq {file.seal}

(* A ring a command took comes free again, whatever the command's end       *)
(* ("rings that free themselves rather than a fence nobody can clear").     *)
FenceFrees == \A r \in Ring : ring[r] = "command" ~> ring[r] # "command"

(* The threads and the coroutine go on, and a row nobody renews runs out.   *)
FairSpec ==
  /\ Spec
  /\ WF_vars(Work) /\ WF_vars(Exits)
  /\ \A r \in Ring : WF_vars(ClaimRing(r)) /\ WF_vars(GiveBack(r)) /\ WF_vars(Lapses(r))
-----------------------------------------------------------------------------
(* What the code says of itself and does not do; each is the property of a  *)
(* run that finds the disagreement.                                         *)

(* "Reset the environment while atomically owning the shared demo ring":    *)
(* no bout is live while reset removes the environments.                    *)
ResetIsAlone ==
  work.at = "teardown" /\ cmd.at = "working" => \A r \in RoundRing : ring[r] # "bout"

(* "It cannot move while a bout is live": the expiry does not move under a  *)
(* bout, heartbeat or not (_renew_fence_refusal).                           *)
ExpiryStandsUnderBout ==
  work.at \in {"apply", "expiry", "reseal"} /\ cmd.kind = "renew" =>
    \A r \in RoundRing \cup {Cleanup} : ring[r] # "bout"

(* "TO FINISH: re-run 'antidemo renew'": a renew that stopped can be run    *)
(* again (_renew_inconsistency_report).                                     *)
StoppedRenewCanRun == journal # None /\ cmd.at = "off" => file.status = "ready"
=============================================================================
