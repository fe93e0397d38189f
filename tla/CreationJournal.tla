---------------------------- MODULE CreationJournal ----------------------------
(***************************************************************************)
(* The billable resources of one Round 5 bout and the journal of them      *)
(* (server/connection_spike_journal.py and the setup orchestrator of       *)
(* server/connection_spike_live.py).  Resource 1 is the RDS Proxy, made    *)
(* when the bell rings; the others belong to it.  Each is journaled before *)
(* it is made; what a stopped launch left is inspected and deleted in      *)
(* reverse order, by the bout's own cleanup or, after a crash or a failed  *)
(* cleanup, by whoever owns the warm slot's cleanup.  Every row is written *)
(* only under the current fence of the Round 5 ring.                       *)
(*                                                                         *)
(* A statement whose connection was lost is sent once more                 *)
(* (coordination.py, _run), whether or not it was committed.  A request to *)
(* the provider may be carried out after its caller has gone.              *)
(***************************************************************************)
EXTENDS Naturals

CONSTANTS
  Last,            \* the last resource
  Own,             \* the cleanup of the bout's own process
  Recovery,        \* runs of the warm slot's cleanup, in any process
  MaxToken,        \* bound on the ring's fencing token
  MaxFaults        \* bound on failures of the provider, connections, processes

ASSUME JournalAssumption ==
  /\ Last \in Nat \ {0} /\ MaxToken \in Nat \ {0} /\ MaxFaults \in Nat
  /\ Own \notin Recovery

Resource == 1..Last
Cleaner == Recovery \cup {Own}

VARIABLES
  ring,            \* the Round 5 ring's fencing token, who holds it, and whether still
  intents,         \* intents[i]: create_intent rows of i
  newest,          \* newest[i]: the newest of i's rows
  there,           \* resources that exist
  wire,            \* the resource the provider is asked to make, or 0
  launch,          \* how far the launch is, and with which resource
  cleaning,           \* cleaning[c]: how far c is
  settled,         \* the bout's claim has left the warm slot
  late,            \* resources made after they were last found absent
  faults

journalVars == <<ring, intents, newest, there, wire, launch, cleaning, settled, late, faults>>

JournalTypeOK ==
  /\ ring \in [token : 1..MaxToken, owner : {"bout", "recovery"}, live : BOOLEAN]
  /\ intents \in [Resource -> 0..2]
  /\ newest \in [Resource -> {"none", "create_intent", "created", "failed",
                              "delete_intent", "deleted"}]
  /\ there \in SUBSET Resource /\ wire \in 0..Last /\ late \in SUBSET Resource
  /\ launch \in [at : {"next", "intended", "calling", "made", "refused", "over"},
                 i : Resource]
  /\ cleaning \in [Cleaner ->
       [at : {"idle", "look", "absent", "intend", "delete", "confirm", "refuse", "parent",
              "discover"},
        i : 0..Last, token : 0..MaxToken, pass : {1, 2}, was : SUBSET Resource]]
  /\ settled \in BOOLEAN /\ faults \in 0..MaxFaults

IdleCleaner == [at |-> "idle", i |-> 0, token |-> 0, pass |-> 1, was |-> {}]

JournalInit ==
  /\ ring = [token |-> 1, owner |-> "bout", live |-> TRUE]
  /\ intents = [i \in Resource |-> 0] /\ newest = [i \in Resource |-> "none"]
  /\ there = {} /\ wire = 0 /\ late = {}
  /\ launch = [at |-> "next", i |-> 1]
  /\ cleaning = [c \in Cleaner |-> IdleCleaner]
  /\ settled = FALSE /\ faults = 0

(* FenceGuard.assert_current, of the bout and this token                   *)
Current(t) == ring.live /\ ring.token = t

(* unresolved_bout_ids names the bout.                                     *)
Debt == \E i \in Resource : newest[i] \notin {"none", "deleted"}

Faulty == faults < MaxFaults /\ faults' = faults + 1
Sound == UNCHANGED faults

-----------------------------------------------------------------------------
(* Rows.                                                                   *)

Rows(i, s, n) ==
  /\ newest' = IF n = 0 THEN newest ELSE [newest EXCEPT ![i] = s]
  /\ intents' = IF s = "create_intent"
                THEN [intents EXCEPT ![i] = IF @ + n > 2 THEN 2 ELSE @ + n]
                ELSE intents

(* LakebaseCreationJournalStore.commit: one row, or two when the first     *)
(* went unacknowledged                                                     *)
Commits(i, s, t) ==
  /\ Current(t)
  /\ \/ Rows(i, s, 1) /\ Sound
     \/ Rows(i, s, 2) /\ Faulty

(* It fails: the fence is lost, or the connection twice.                   *)
CommitFails(i, s, t) ==
  \/ ~Current(t) /\ Rows(i, s, 0) /\ Sound
  \/ \E n \in 0..2 : (n > 0 => Current(t)) /\ Rows(i, s, n) /\ Faulty

-----------------------------------------------------------------------------
(* The launch.                                                             *)

Launch(at, i) == launch' = [at |-> at, i |-> i]

(* Mutant: the intent is not awaited.                                      *)
IntendBlindly ==
  /\ launch.at = "next" /\ intents[launch.i] = 0
  /\ Commits(launch.i, "create_intent", 1) \/ CommitFails(launch.i, "create_intent", 1)
  /\ Launch("intended", launch.i)
  /\ UNCHANGED <<ring, there, wire, cleaning, settled, late>>

(* precommit_intent.  The Proxy's is written on the bell's path, and a     *)
(* bell that cannot write it is refused.                                   *)
Intend ==
  /\ launch.at = "next" /\ intents[launch.i] = 0
  /\ \/ Commits(launch.i, "create_intent", 1) /\ Launch("intended", launch.i)
     \/ CommitFails(launch.i, "create_intent", 1) /\ Launch("over", launch.i)
  /\ UNCHANGED <<ring, there, wire, cleaning, settled, late>>

(* adapter.create: at once for the Proxy, the others fenced again          *)
Create ==
  /\ launch.at = "intended"
  /\ IF launch.i = 1 \/ Current(1)
     THEN wire' = launch.i /\ Launch("calling", launch.i)
     ELSE Launch("over", launch.i) /\ UNCHANGED wire
  /\ UNCHANGED <<ring, intents, newest, there, cleaning, settled, late, faults>>

Answer(at) ==
  IF launch.at = "calling" THEN Launch(at, launch.i) ELSE UNCHANGED launch

(* The provider carries the request out.  The answer may be lost.          *)
Lands ==
  /\ wire # 0 /\ (wire = 1 \/ 1 \in there)
  /\ there' = there \cup {wire}
  /\ late' = IF \/ newest[wire] = "deleted"
                \/ \E c \in Cleaner : cleaning[c].at = "absent" /\ cleaning[c].i = wire
             THEN late \cup {wire} ELSE late
  /\ wire' = 0
  /\ \/ Answer("made") /\ Sound
     \/ Answer("refused") /\ Faulty
  /\ UNCHANGED <<ring, intents, newest, cleaning, settled>>

(* Or not, as when the Proxy of it is gone.                                *)
Refuses ==
  /\ wire # 0
  /\ wire' = 0
  /\ Answer("refused")
  /\ IF wire = 1 \/ 1 \in there THEN Faulty ELSE Sound
  /\ UNCHANGED <<ring, intents, newest, there, cleaning, settled, late>>

(* complete_prestaged, once the provider has answered                      *)
Record ==
  /\ launch.at \in {"made", "refused"}
  /\ LET s == IF launch.at = "made" THEN "created" ELSE "failed" IN
     \/ /\ Commits(launch.i, s, 1)
        /\ IF launch.at = "made" /\ launch.i < Last THEN Launch("next", launch.i + 1)
           ELSE Launch("over", launch.i)
     \/ CommitFails(launch.i, s, 1) /\ Launch("over", launch.i)
  /\ UNCHANGED <<ring, there, wire, cleaning, settled, late>>

(* The launch is cancelled, or dies, whatever the provider is doing.       *)
Stop ==
  /\ launch.at # "over"
  /\ Launch("over", launch.i)
  /\ Faulty
  /\ UNCHANGED <<ring, intents, newest, there, wire, cleaning, settled, late>>

(* The ring's lease is no longer renewed...                                *)
Lapses ==
  /\ ring.live /\ ring.token < MaxToken
  /\ ring' = [ring EXCEPT !.live = FALSE]
  /\ Faulty
  /\ UNCHANGED <<intents, newest, there, wire, launch, cleaning, settled, late>>

(* ...or released, by the manager of a bout that is settled.               *)
Release ==
  /\ settled /\ ring.live /\ ring.owner = "bout"
  /\ ring' = [ring EXCEPT !.live = FALSE]
  /\ UNCHANGED <<intents, newest, there, wire, launch, cleaning, settled, late, faults>>

-----------------------------------------------------------------------------
(* The cleanup.                                                            *)

Goes(c, at, i) == cleaning' = [cleaning EXCEPT ![c].at = at, ![c].i = i]

(* The bout's own cleanup is begun once.                                   *)
Ends(c) ==
  cleaning' = [cleaning EXCEPT ![c] = [IdleCleaner EXCEPT !.token = IF c = Own THEN 1 ELSE 0]]

At(c, at) == cleaning[c].at = at

(* The last of the first i resources that has an intent, or 0              *)
Journaled(i) == {j \in 1..i : intents[j] > 0}
Highest(i) ==
  IF Journaled(i) = {} THEN 0
  ELSE CHOOSE j \in Journaled(i) : \A k \in Journaled(i) : k <= j

(* reconcile_incomplete: the rows are read, and may contradict themselves. *)
Reads(c, t, pass) ==
  IF \E i \in Resource : intents[i] > 1 THEN Ends(c)
  ELSE cleaning' = [cleaning EXCEPT ![c] =
         [at |-> "look", i |-> Highest(Last), token |-> t, pass |-> pass,
          was |-> {i \in Resource : newest[i] = "deleted"}]]

(* _begin_cleanup_once, after the launch                                   *)
BeginOwn ==
  /\ cleaning[Own] = IdleCleaner /\ launch.at = "over" /\ Current(1) /\ ~settled
  /\ Reads(Own, 1, 1)
  /\ UNCHANGED <<ring, intents, newest, there, wire, launch, settled, late, faults>>

(* Mutant: a slot that its claim has left is not looked behind.            *)
BeginForTheSlotOnly(c) ==
  /\ c # Own /\ At(c, "idle")
  /\ launch.at = "over" \/ ~ring.live
  /\ ~settled
  /\ \/ Current(1) /\ Reads(c, 1, 1) /\ UNCHANGED ring
     \/ /\ ring.live /\ ring.owner = "recovery"
        /\ Reads(c, ring.token, 1) /\ UNCHANGED ring
     \/ /\ ~ring.live /\ ring.token < MaxToken
        /\ ring' = [token |-> ring.token + 1, owner |-> "recovery", live |-> TRUE]
        /\ Reads(c, ring.token + 1, 1)
  /\ UNCHANGED <<intents, newest, there, wire, launch, settled, late, faults>>

(* reconcile_failed_cleanup, for the claim in the slot, or for the rows it *)
(* has left behind (seal_absent_cleanup_journals).  It shares the bout's   *)
(* ring while that is current, as it does another recovery's, and          *)
(* otherwise reclaims it.                                                  *)
Begin(c) ==
  /\ c # Own /\ At(c, "idle")
  /\ launch.at = "over" \/ ~ring.live
  /\ settled => Debt /\ ~Current(1)
  /\ \/ Current(1) /\ Reads(c, 1, 1) /\ UNCHANGED ring
     \/ /\ ring.live /\ ring.owner = "recovery"
        /\ Reads(c, ring.token, 1) /\ UNCHANGED ring
     \/ /\ ~ring.live /\ ring.token < MaxToken
        /\ ring' = [token |-> ring.token + 1, owner |-> "recovery", live |-> TRUE]
        /\ Reads(c, ring.token + 1, 1)
  /\ UNCHANGED <<intents, newest, there, wire, launch, settled, late, faults>>

(* Mutant: the resources are counted down past the first.                  *)
LookPastTheFirst(c) ==
  LET i == cleaning[c].i IN
  /\ At(c, "look")
  /\ \/ i \in there /\ Goes(c, "intend", i) /\ Sound
     \/ i \notin there /\ i \in cleaning[c].was /\ Goes(c, "look", i - 1) /\ Sound
     \/ i \notin there /\ i = 0 /\ Goes(c, "look", i - 1) /\ Sound
     \/ i \notin there /\ i # 0 /\ i \notin cleaning[c].was /\ Goes(c, "absent", i) /\ Sound
     \/ i # 0 /\ Goes(c, "refuse", i) /\ Faulty
  /\ UNCHANGED <<ring, intents, newest, there, wire, launch, settled, late>>

(* The adapter inspects the resource, or cannot.                           *)
Look(c) ==
  LET i == cleaning[c].i IN
  /\ At(c, "look") /\ i # 0
  /\ \/ i \in there /\ Goes(c, "intend", i) /\ Sound
     \/ i \notin there /\ i \in cleaning[c].was /\ Goes(c, "look", Highest(i - 1)) /\ Sound
     \/ i \notin there /\ i \notin cleaning[c].was /\ Goes(c, "absent", i) /\ Sound
     \/ Goes(c, "refuse", i) /\ Faulty
  /\ UNCHANGED <<ring, intents, newest, there, wire, launch, settled, late>>

(* Found absent, and journaled so                                          *)
RecordAbsent(c) ==
  LET i == cleaning[c].i IN
  /\ At(c, "absent")
  /\ \/ Commits(i, "deleted", cleaning[c].token) /\ Goes(c, "look", Highest(i - 1))
     \/ CommitFails(i, "deleted", cleaning[c].token) /\ Ends(c)
  /\ UNCHANGED <<ring, there, wire, launch, settled, late>>

IntendDelete(c) ==
  LET i == cleaning[c].i IN
  /\ At(c, "intend")
  /\ \/ Commits(i, "delete_intent", cleaning[c].token) /\ Goes(c, "delete", i)
     \/ CommitFails(i, "delete_intent", cleaning[c].token) /\ Goes(c, "refuse", i)
  /\ UNCHANGED <<ring, there, wire, launch, settled, late>>

(* A Proxy that is deleted takes what belongs to it along.                 *)
Gone(i) ==
  LET g == IF i = 1 THEN Resource ELSE {i} IN
  there' = there \ g /\ late' = late \ g

(* Mutant: the provider's answer is taken for the fact.                    *)
DeleteUnconfirmed(c) ==
  LET i == cleaning[c].i IN
  /\ At(c, "delete")
  /\ \/ Current(cleaning[c].token) /\ Gone(i) /\ Goes(c, "absent", i) /\ Sound
     \/ Current(cleaning[c].token) /\ UNCHANGED <<there, late>> /\ Goes(c, "absent", i) /\ Faulty
     \/ ~Current(cleaning[c].token) /\ UNCHANGED <<there, late>> /\ Goes(c, "refuse", i) /\ Sound
  /\ UNCHANGED <<ring, intents, newest, wire, launch, settled>>

(* adapter.delete, fenced again; the provider may accept and not do it.    *)
Delete(c) ==
  LET i == cleaning[c].i IN
  /\ At(c, "delete")
  /\ \/ Current(cleaning[c].token) /\ Gone(i) /\ Goes(c, "confirm", i) /\ Sound
     \/ Current(cleaning[c].token) /\ UNCHANGED <<there, late>> /\ Goes(c, "confirm", i) /\ Faulty
     \/ ~Current(cleaning[c].token) /\ UNCHANGED <<there, late>> /\ Goes(c, "refuse", i) /\ Sound
  /\ UNCHANGED <<ring, intents, newest, wire, launch, settled>>

Confirm(c) ==
  LET i == cleaning[c].i IN
  /\ At(c, "confirm")
  /\ Goes(c, IF i \in there THEN "refuse" ELSE "absent", i)
  /\ UNCHANGED <<ring, intents, newest, there, wire, launch, settled, late, faults>>

(* An incomplete first pass goes on to the Proxy, a second one fails.      *)
Incomplete(c) ==
  IF cleaning[c].pass = 1 THEN Goes(c, "parent", 0) ELSE Ends(c)

(* refused or delete_failed is journaled, and the pass ends incomplete.    *)
Refuse(c) ==
  LET i == cleaning[c].i IN
  /\ At(c, "refuse")
  /\ \/ Commits(i, "failed", cleaning[c].token) /\ Incomplete(c)
     \/ CommitFails(i, "failed", cleaning[c].token) /\ Ends(c)
  /\ UNCHANGED <<ring, there, wire, launch, settled, late>>

(* The pass is complete.                                                   *)
PassEnds(c) ==
  /\ At(c, "look") /\ cleaning[c].i = 0
  /\ IF c = Own THEN Ends(c)
     ELSE Goes(c, IF cleaning[c].pass = 1 THEN "parent" ELSE "discover", 0)
  /\ UNCHANGED <<ring, intents, newest, there, wire, launch, settled, late, faults>>

(* The Proxy is deleted by its name, journaled or not, and the rows are    *)
(* gone through once more.                                                 *)
DeleteParent(c) ==
  /\ At(c, "parent")
  /\ \/ /\ Gone(1) /\ Sound
        /\ IF c = Own THEN Ends(c) ELSE Reads(c, cleaning[c].token, 2)
     \/ 1 \in there /\ UNCHANGED <<there, late>> /\ Faulty /\ Ends(c)
  /\ UNCHANGED <<ring, intents, newest, wire, launch, settled>>

(* _discover_orphaned_addons finds nothing, and a reclaimed ring is let go:*)
(* the claim may leave the slot.                                           *)
SettleClaim(c) ==
  /\ At(c, "discover")
  /\ IF there # {} \/ ~Current(cleaning[c].token) THEN Ends(c) /\ UNCHANGED <<ring, settled>>
     ELSE /\ settled' = TRUE
          /\ ring' = IF ring.owner = "recovery" THEN [ring EXCEPT !.live = FALSE] ELSE ring
          /\ Ends(c)
  /\ UNCHANGED <<intents, newest, there, wire, launch, late, faults>>

(* Its process ends.                                                       *)
Dies(c) ==
  /\ cleaning[c].at # "idle" /\ Faulty /\ Ends(c)
  /\ UNCHANGED <<ring, intents, newest, there, wire, launch, settled, late>>

-----------------------------------------------------------------------------
Launches == Intend \/ Create \/ Record

Provider == Lands \/ Refuses

Cleans(c) ==
  \/ Begin(c) \/ Look(c) \/ RecordAbsent(c) \/ IntendDelete(c) \/ Delete(c) \/ Confirm(c)
  \/ Refuse(c) \/ PassEnds(c) \/ DeleteParent(c) \/ SettleClaim(c)

JournalNext ==
  \/ Launches \/ Provider \/ Stop \/ Lapses \/ Release \/ BeginOwn
  \/ \E c \in Cleaner : Cleans(c) \/ Dies(c)

JournalSpec == JournalInit /\ [][JournalNext]_journalVars

(* The launch and the provider get on, and the warm loop tries the cleanup *)
(* again every cycle.                                                      *)
JournalFairSpec ==
  /\ JournalSpec
  /\ WF_journalVars(Launches) /\ WF_journalVars(Provider) /\ WF_journalVars(Release)
  /\ \A c \in Recovery : WF_journalVars(Cleans(c))

-----------------------------------------------------------------------------
(* Whatever exists, or is about to, is owed: the journal knows of it and   *)
(* does not call it deleted, but for a creation that was still on its way  *)
(* when it was last found absent.                                          *)
ExistingIsOwed ==
  /\ \A i \in there : newest[i] \in {"none", "deleted"} => i \in late
  /\ \A i \in there \cup ({wire} \ {0}) : intents[i] > 0

(* A launch that has ended is cleaned up in the end and owes nothing, so   *)
(* that the next may begin, unless its rows contradict themselves.         *)
CleanedInTheEnd ==
  launch.at = "over" ~> (settled /\ ~Debt) \/ \E i \in Resource : intents[i] > 1

(* An orphan can always be reclaimed: its rows do not contradict           *)
(* themselves.                                                             *)
OrphanIsReclaimable ==
  launch.at = "over" => \A i \in there : intents[i] = 1
=============================================================================
