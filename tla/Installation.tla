---------------------------- MODULE Installation ----------------------------
(***************************************************************************)
(* One installation from its first apply to its removal                    *)
(* (server/lifecycle.py): antidemo setup, resume and cleanup over the      *)
(* manifest, Terraform's state, and what exists in the two accounts.  Each *)
(* command is a list of steps, any of which may raise; the manifest's own  *)
(* word decides where the next command goes on.  The generation lock       *)
(* admits one command at a time (GenerationLock).                          *)
(*                                                                         *)
(* An AWS installation with per-round projects (manifest_version 7 in the  *)
(* end) and a sealed runtime role; an address or thing below stands for a  *)
(* group of them.                                                          *)
(***************************************************************************)
EXTENDS Naturals, Sequences

CONSTANTS
  None,
  Seal4,      \* the identities Round 4's resources may be sealed at
  MaxStops,   \* bound on the steps that raise, or are killed, by accident
  KillsAt,    \* the steps a cleanup may be killed at, which no except clause sees
  Meanwhile,  \* whether a bout may begin beside a command or before a cleanup
  Advised     \* what the operator runs when cleanup says to resume first

ASSUME SealAssumption == None \notin Seal4 /\ Seal4 # {}
ASSUME StopsAssumption == MaxStops \in Nat
ASSUME ChoiceAssumption == Meanwhile \in BOOLEAN /\ Advised \in {"setup", "resume"}

Lane == {"lane4", "lane6"}           \* the AWS lanes of Rounds 4 and 6
Base == {"fleet", "guard", "role"}
Address == Base \cup Lane            \* what Terraform's state may list
Billed == {"fleet", "role", "app", "round4", "projects", "clone", "proxy"} \cup Lane
Thing == Billed \cup {"job4", "schema6", "cdf6", "catalog6"}
(* "none": no creation is on record, and an app that is there was adopted or *)
(* made by hand; "asking": bootstrap.sh waits for the answer; "pending": it  *)
(* ended without one, and whose the app is must be settled by hand.          *)
AppRecord == {"none", "asking", "pending", "created"}
Status == {"provisioning", "seeding", "waiting_for_zero", "ready", "cleanup_failed"}

Tells == {"nothing", "first", "force", "spend"}

VARIABLES
  file,     \* the manifest on disk, or None
  state,    \* the addresses in Terraform's state
  cloud,    \* what exists
  receipt,  \* round6-clean-receipt.json names this run
  app,      \* what bootstrap.json says of making the app
  run,      \* the steps the running command has left
  intent,   \* whether the operator is installing or removing
  told,     \* what the command that last failed told the operator to do
  proved,   \* history: what was checked, and over which Round 4 seal, since Round 5's
            \* credentials were last replaced
  stops     \* accidents so far

operator == <<intent, told>>
beside == <<receipt, app>>
vars == <<file, state, cloud, beside, run, operator, proved, stops>>

Manifest ==
  [status : Status, version : {1, 2, 5, 7}, round4 : Seal4 \cup {None},
   round5 : BOOLEAN, round6 : BOOLEAN, role : BOOLEAN,
   enabled : SUBSET Lane, lane : [Lane -> {"none", "sealed", "unsupported"}]]

ASSUME NoFileAssumption == None \notin Manifest

Fresh ==
  [status |-> "provisioning", version |-> 1, round4 |-> None, round5 |-> FALSE,
   round6 |-> FALSE, role |-> FALSE, enabled |-> {}, lane |-> [l \in Lane |-> "none"]]

Unproved == [topology |-> FALSE, canary |-> FALSE, over5 |-> None, over6 |-> None]

Init ==
  /\ file = None /\ state = {} /\ cloud = {} /\ run = <<>>
  /\ receipt = FALSE /\ app = "none"
  /\ intent = "install" /\ told = "nothing" /\ proved = Unproved /\ stops = 0

-----------------------------------------------------------------------------
(* What the manifest says of the installation.                             *)

Ready5(m) == m.version \in {5, 7} /\ m.round5
Ready6(m) == m.version = 7 /\ Ready5(m) /\ m.round6

Pending(m) ==
  {l \in Lane : m.lane[l] = "none" /\ IF l = "lane4" THEN m.round4 # None ELSE m.round6}
LaneStopped(m) == m.status = "ready" /\ Ready6(m) /\ Pending(m) # {}

Expected(m) == Base \cup m.enabled
Unfinished(m) == {l \in m.enabled : m.lane[l] # "sealed"}

CompleteForCleanup(m, s) ==   \* _aws_state_is_complete, unfinished lanes allowed
  \/ s = Expected(m)
  \/ Unfinished(m) # {} /\ Expected(m) \ Unfinished(m) \subseteq s /\ s \subseteq Expected(m)

Installed == file # None /\ file.status = "ready" /\ Ready6(file) /\ Pending(file) = {}

-----------------------------------------------------------------------------
(* The commands, as the steps they go through.                             *)

Steps(verb, subjects) == [i \in 1..Len(subjects) |-> <<verb, subjects[i]>>]

Provision(status) ==   \* _complete_provision
  LET whole == << <<"apply", "all">>, <<"make", "projects">>, <<"seed", "schema">>,
                  <<"zero", "setup">> >>
  IN  CASE status = "provisioning" -> whole
        [] status = "seeding" -> Tail(Tail(whole))
        [] status = "waiting_for_zero" -> << <<"zero", "setup">> >>
        [] OTHER -> <<>>

Ensure4 == << <<"make", "round4">>, <<"seal", "round4">> >>
Reseal4 == Append(Ensure4, <<"zero", "round4">>)
Reseal5 == << <<"begin", "round5">>, <<"seal", "round5">>, <<"check", "round5">> >>
Reseal6 == << <<"begin", "round6">>, <<"make", "round6">>, <<"seal", "round6">> >>
LaneSteps(l) == << <<"record", l>>, <<"apply", l>>, <<"prove", l>> >>
Lanes == LaneSteps("lane4") \o LaneSteps("lane6")

ResumeSteps(m) ==   \* resume_provision
  IF m.status = "seeding" /\ m.version = 5 /\ ~ m.round6 THEN Reseal6
  ELSE (IF m.version = 2 /\ m.status \in {"waiting_for_zero", "seeding"}
        THEN <<>> ELSE Provision(m.status))
       \o Reseal4 \o Steps("unless ready", <<"round5", "round6">>)

Reset ==   \* _reset_under_ring_lease
  << <<"wipe", "clones">> >> \o Ensure4 \o
  << <<"if ready", "round5">> >> \o Reseal6 \o << <<"finish", "reset">> >>

SetupSteps(m) ==   \* _setup_once, on a manifest that exists
  (CASE LaneStopped(m) -> << <<"apply", "all">> >>
     [] m.status = "ready" /\ Ready6(m) /\ ~ LaneStopped(m) ->
          << <<"baseline", "round5">>, <<"apply", "all">> >> \o Reseal5 \o Reset
     [] OTHER -> ResumeSteps(m))
  \o Lanes

CleanupSteps(m, complete, forced) ==   \* the body of cleanup's try
  (IF ~ m.round6 \/ receipt THEN <<>>
   ELSE (IF forced THEN <<>> ELSE << <<"verify", "round6">> >>)
        \o Steps("delete", <<"cdf6", "schema6">>) \o << <<"receipt", "round6">> >>)
  \o (IF complete THEN << <<"baseline", "round5">> >> ELSE <<>>)
  \o << <<"forget", "guard">> >>
  \o (IF m.role THEN << <<"forget", "role">> >> ELSE <<>>)
  \o Steps("delete", <<"app", "round4", "catalog6">>)
  \o (IF complete THEN << <<"delete", "clone">> >> ELSE <<>>)
  \o << <<"destroy", "state">>, <<"delete", "projects">> >>
  \o (IF m.role THEN << <<"delete", "role">> >> ELSE <<>>)
  \o << <<"unlink", "file">> >>

Idle == run = <<>>
Unlocked == Idle /\ app # "asking"   \* nobody holds the generation lock
Cleaning == run # <<>> /\ run[Len(run)] = <<"unlink", "file">>
At(verb, subject) == run # <<>> /\ Head(run) = <<verb, subject>>
GoOn == run' = Tail(run)

-----------------------------------------------------------------------------
(* What every command's steps may meet.                                    *)

(* Mutant: a creation on record that nobody finished is not looked at.       *)
NeverUnresolved == FALSE

Unresolved == app = "pending"   \* _owned_app asks nobody then

(* The step in hand refuses: its own check, not an accident.               *)
Refused ==
  \/ At("delete", "app") /\ Unresolved                 \* _delete_databricks_app
  \/ At("baseline", "round5") /\ "proxy" \in cloud
  \/ At("make", "round6") /\ ~ Ready5(file)           \* prepare_round6
  \/ At("verify", "round6") /\ ~ {"cdf6", "schema6"} \subseteq cloud
  \/ /\ At("apply", "all")                            \* the name is taken
     /\ "role" \in cloud \ state /\ state \cup {"role"} = Expected(file)
  \/ \E l \in Lane :                                  \* refuse_more_than_the_lane
       At("apply", l) /\ state \ {l} # Expected(file) \ {l}

(* The command raises.  A cleanup records that it ran partway: it saves     *)
(* cleanup_failed; what setup and resume saved stands.                      *)
Raises ==
  /\ run' = <<>>
  /\ file' = IF Cleaning THEN [file EXCEPT !.status = "cleanup_failed"] ELSE file
  /\ told' = IF At("verify", "round6") /\ Refused THEN "force" ELSE told

Refuses == Refused /\ Raises /\ UNCHANGED <<state, cloud, beside, intent, proved, stops>>

(* An accident at any step; an apply may have taken an address down to      *)
(* build it anew.                                                           *)
Fails ==
  /\ ~ Idle /\ stops < MaxStops
  /\ stops' = stops + 1
  /\ Raises
  /\ \E down \in {{}} \cup (IF At("apply", "all") THEN {{"fleet"} \cap state} ELSE {}) :
       state' = state \ down /\ cloud' = cloud \ down
  /\ UNCHANGED <<beside, intent, proved>>

Killed ==   \* SIGKILL, or the terminal closed: nothing is saved
  /\ Cleaning /\ Head(run)[1] \in KillsAt /\ stops < MaxStops
  /\ stops' = stops + 1
  /\ run' = <<>>
  /\ UNCHANGED <<file, state, cloud, beside, operator, proved>>

-----------------------------------------------------------------------------
(* Terraform.                                                              *)

Changes ==   \* what a plan would still do, the refusals aside
  LET wanted == Expected(file)
  IN  {a \in Address : (a \in wanted) # (a \in state)}
      \ (IF "role" \in cloud \ state THEN {"role"} ELSE {})

Flip(set, elements) == (set \ elements) \cup (elements \ set)

ApplyOne(scope) ==   \* applies the whole plan, an address at a time
  /\ At("apply", scope) /\ ~ Refused
  /\ \E a \in Changes :
       state' = Flip(state, {a}) /\ cloud' = Flip(cloud, {a} \ {"guard"})
  /\ UNCHANGED <<file, beside, run, operator, proved, stops>>

Applied(scope) ==   \* _aws_state_is_complete; the whole apply seals the role
  /\ At("apply", scope) /\ state = Expected(file)
  /\ GoOn
  /\ file' = IF scope = "all" THEN [file EXCEPT !.role = TRUE] ELSE file
  /\ UNCHANGED <<state, cloud, beside, operator, proved, stops>>

-----------------------------------------------------------------------------
(* Setup's steps.                                                          *)

Saves(m) == file' = m /\ GoOn /\ UNCHANGED <<state, beside, operator, stops>>

MakeProjects ==
  /\ At("make", "projects")
  /\ cloud' = cloud \cup {"projects"}
  /\ Saves([file EXCEPT !.status = "seeding"])
  /\ UNCHANGED proved

Seed ==
  /\ At("seed", "schema")
  /\ Saves([file EXCEPT !.status = "waiting_for_zero"])
  /\ UNCHANGED <<cloud, proved>>

WaitForZero ==
  /\ At("zero", "setup") \/ At("zero", "round4") \/ At("finish", "reset")
  /\ Saves([file EXCEPT !.status = "ready"])
  /\ UNCHANGED <<cloud, proved>>

Make4 ==   \* the tables, the pipeline and the repair job, none of them sealed yet
  /\ At("make", "round4")
  /\ cloud' = cloud \cup {"round4", "job4"}
  /\ Saves(file)
  /\ UNCHANGED proved

(* Mutant: the later rounds' seals are kept whatever Round 4 was sealed at. *)
KeepSeals(m, seal) == [m EXCEPT !.round4 = seal, !.version = IF @ = 1 THEN 2 ELSE @]

(* The seals of Rounds 5 and 6 stand on Round 4's, and are kept only with    *)
(* the same one.                                                             *)
CommitReseal4(m, seal) ==
  IF m.round4 = seal /\ Ready6(m) THEN m
  ELSE IF m.round4 = seal /\ Ready5(m) THEN [m EXCEPT !.round6 = FALSE, !.version = 5]
  ELSE [m EXCEPT !.round4 = seal, !.round5 = FALSE, !.round6 = FALSE, !.version = 2]

Seal4At ==
  /\ At("seal", "round4")
  /\ \E seal \in Seal4 :
       Saves([CommitReseal4(file, seal) EXCEPT !.status = "waiting_for_zero"])
  /\ UNCHANGED <<cloud, proved>>

Expands(take, steps) ==
  /\ run' = (IF take THEN steps ELSE <<>>) \o Tail(run)
  /\ UNCHANGED <<file, state, cloud, beside, operator, proved, stops>>

UnlessReady ==
  \/ At("unless ready", "round5") /\ Expands(~ Ready5(file), Reseal5)
  \/ At("unless ready", "round6") /\ Expands(~ Ready6(file), Reseal6)
  \/ At("if ready", "round5") /\ Expands(Ready5(file), Reseal5)

Begin5 ==   \* not ready until Rounds 5 and 6 are sealed
  /\ At("begin", "round5")
  /\ Saves(IF Ready5(file) THEN file ELSE [file EXCEPT !.status = "seeding"])
  /\ UNCHANGED <<cloud, proved>>

Rotate5 ==   \* new credentials on the runners, and their digests in the manifest
  /\ At("seal", "round5")
  /\ Saves([file EXCEPT !.round5 = TRUE, !.status = "seeding"])
  /\ proved' = [Unproved EXCEPT !.over5 = file.round4, !.over6 = proved.over6]
  /\ UNCHANGED cloud

Check5 ==   \* the topology; a Round 6 seal is kept, but not its readiness
  /\ At("check", "round5")
  /\ Saves(IF file.round6 THEN [file EXCEPT !.version = 7, !.status = "seeding"]
           ELSE [file EXCEPT !.version = 5, !.status = "ready"])
  /\ proved' = [proved EXCEPT !.topology = TRUE]
  /\ UNCHANGED cloud

Begin6 ==
  /\ At("begin", "round6")
  /\ Saves([file EXCEPT !.status = "seeding"])
  /\ UNCHANGED <<cloud, proved>>

Make6 ==   \* the destination schema and the feed, none of them sealed yet
  /\ At("make", "round6") /\ ~ Refused
  /\ cloud' = cloud \cup {"schema6", "cdf6"}
  /\ Saves(file)
  /\ UNCHANGED proved

(* Mutant: Round 6 is sealed, but the manifest's version is not raised.      *)
SealUnversioned ==
  /\ At("seal", "round6")
  /\ Saves([file EXCEPT !.round6 = TRUE, !.status = "ready"])
  /\ proved' = [proved EXCEPT !.canary = TRUE, !.over6 = file.round4]
  /\ UNCHANGED cloud

Seal6 ==   \* the canary arrived, and scale zero was seen after it
  /\ At("seal", "round6")
  /\ Saves([file EXCEPT !.round6 = TRUE, !.version = 7, !.status = "ready"])
  /\ proved' = [proved EXCEPT !.canary = TRUE, !.over6 = file.round4]
  /\ UNCHANGED cloud

Enable(m, l) == [m EXCEPT !.enabled = @ \cup {l}, !.lane[l] = "none"]

RecordLane(l) ==   \* its source or its credential may be another than was recorded
  /\ At("record", l)
  /\ \E other \in BOOLEAN :
       /\ (l \notin file.enabled \/ file.lane[l] = "unsupported") => other
       /\ Saves(IF other THEN Enable(file, l) ELSE file)
  /\ cloud' = cloud \cup (IF l = "lane6" THEN {"catalog6"} ELSE {})
  /\ UNCHANGED proved

SealLane(l) ==
  /\ At("prove", l)
  /\ Saves([file EXCEPT !.lane[l] = "sealed"])
  /\ UNCHANGED <<cloud, proved>>

Unsupported ==   \* this identity may not make the credential, or the location
  /\ At("record", "lane6") \/ At("prove", "lane6")
  /\ file' = [file EXCEPT !.lane["lane6"] = "unsupported"]
  /\ run' = <<>>   \* the lane's steps are the last
  /\ UNCHANGED <<state, cloud, beside, operator, proved, stops>>

-----------------------------------------------------------------------------
(* Steps of cleanup, the reset's included.                                 *)

CleanBaseline ==
  /\ At("baseline", "round5") /\ ~ Refused
  /\ GoOn
  /\ UNCHANGED <<file, state, cloud, beside, operator, proved, stops>>

Wipe ==   \* reset removes the environments of Rounds 2 and 3, and seeds anew
  /\ At("wipe", "clones")
  /\ cloud' = cloud \ {"clone"}
  /\ Saves([file EXCEPT !.status = "seeding"])
  /\ UNCHANGED proved

Verify6 ==
  /\ At("verify", "round6") /\ ~ Refused
  /\ GoOn
  /\ UNCHANGED <<file, state, cloud, beside, operator, proved, stops>>

Forgets(thing) == {thing}

Forget(thing) ==   \* terraform state rm, of what the state lists
  /\ At("forget", thing)
  /\ state' = state \ Forgets(thing)
  /\ GoOn
  /\ UNCHANGED <<file, cloud, beside, operator, proved, stops>>

(* Mutant: the pipeline and schemas of Round 4 are deleted only by a seal.   *)
DeletesSealed(thing, m) ==
  IF (thing = "round4" /\ m.round4 = None) \/ (thing = "app" /\ app # "created")
  THEN {} ELSE {thing}

(* The repair job is known by its seal alone, the app by the record of its   *)
(* creation: one that cannot be shown to be ours is left, and the cleanup    *)
(* goes on.                                                                  *)
Deletes(thing, m) ==
  CASE thing = "projects" -> {"projects", "cdf6"}
    [] thing = "app" /\ app # "created" -> {}
    [] thing = "round4" /\ m.round4 # None -> {"round4", "job4"}
    [] OTHER -> {thing}

Delete(thing) ==
  /\ At("delete", thing) /\ ~ Refused
  /\ cloud' = cloud \ Deletes(thing, file)
  /\ GoOn
  /\ UNCHANGED <<file, state, beside, operator, proved, stops>>

WriteReceipt ==
  /\ At("receipt", "round6")
  /\ receipt' = TRUE
  /\ GoOn
  /\ UNCHANGED <<file, state, cloud, app, operator, proved, stops>>

DestroyOne ==
  /\ At("destroy", "state")
  /\ \E a \in state : state' = state \ {a} /\ cloud' = cloud \ {a}
  /\ UNCHANGED <<file, beside, run, operator, proved, stops>>

Destroyed ==
  /\ At("destroy", "state") /\ state = {}
  /\ GoOn
  /\ UNCHANGED <<file, state, cloud, beside, operator, proved, stops>>

Unlink ==
  /\ At("unlink", "file")
  /\ file' = None
  /\ GoOn
  /\ UNCHANGED <<state, cloud, beside, operator, proved, stops>>

-----------------------------------------------------------------------------
(* The operator, and the app.                                              *)

Starts(steps) == Unlocked /\ run' = steps
Advice == intent = "remove" /\ told = "first"

StartProvision ==   \* the manifest is saved before the first apply
  /\ file = None /\ intent = "install"
  /\ file' = Fresh
  /\ Starts(ResumeSteps(Fresh) \o Lanes)
  /\ told' = "nothing"
  /\ UNCHANGED <<state, cloud, beside, intent, proved, stops>>

ProvisionFails ==   \* before it saved one; bootstrap.sh names cleanup for the spend
  /\ Unlocked /\ file = None /\ intent = "install" /\ app = "created"
  /\ told' = "spend"
  /\ UNCHANGED <<file, state, cloud, beside, run, intent, proved, stops>>

MayGoOn(command) ==
  /\ Unlocked /\ file # None /\ file.status # "cleanup_failed"
  /\ intent = "install" \/ (Advice /\ Advised = command)

StartSetup ==
  /\ MayGoOn("setup")
  /\ Starts(SetupSteps(file))
  /\ told' = "nothing"
  /\ UNCHANGED <<file, state, cloud, beside, intent, proved, stops>>

StartResume ==
  /\ MayGoOn("resume")
  /\ Starts((IF LaneStopped(file) THEN << <<"apply", "all">> >> ELSE ResumeSteps(file)) \o Lanes)
  /\ told' = "nothing"
  /\ UNCHANGED <<file, state, cloud, beside, intent, proved, stops>>

Decide ==
  /\ Unlocked /\ file # None /\ intent = "install"
  /\ intent' = "remove"
  /\ UNCHANGED <<file, state, cloud, beside, run, told, proved, stops>>

(* Mutant: what an earlier teardown left is refused like an apply that       *)
(* stopped.                                                                  *)
OnlyUnsealed(m) == ~ m.round5 /\ m.version \in {1, 2}

PartialIsOurs(m) ==   \* _validate_partial_aws_destroy_retry
  m.status = "cleanup_failed" \/ (~ m.round5 /\ m.version \in {1, 2})

(* Before its try a cleanup only reads: an apply that stopped halfway and a *)
(* clone of a bout make it refuse, and nothing is recorded.                 *)
StartCleanup ==
  LET complete == CompleteForCleanup(file, state)
      known == [file EXCEPT !.role = @ \/ complete]
  IN  /\ Unlocked /\ file # None /\ intent = "remove" /\ told # "first" /\ "clone" \notin cloud
      /\ IF state = {} \/ complete \/ PartialIsOurs(file)
         THEN /\ file' = known
              /\ run' = CleanupSteps(known, complete, told = "force")
              /\ told' = "nothing"
         ELSE told' = "first" /\ UNCHANGED <<file, run>>
      /\ UNCHANGED <<state, cloud, beside, intent, proved, stops>>

(* bootstrap.sh creates the app before the setup that writes the manifest,   *)
(* and puts on record that it is about to.                                  *)
CreateApp ==
  /\ Unlocked /\ intent = "install" /\ app = "none" /\ "app" \notin cloud
  /\ app' = "asking"
  /\ UNCHANGED <<file, state, cloud, receipt, run, operator, proved, stops>>

(* The app that was asked for, late or not; with no creation on record,      *)
(* somebody else's of that name, or one made by hand.                       *)
AppAppears ==
  /\ app # "created" /\ "app" \notin cloud
  /\ cloud' = cloud \cup {"app"}
  /\ UNCHANGED <<file, state, beside, run, operator, proved, stops>>

AppAnswered ==
  /\ app = "asking" /\ "app" \in cloud
  /\ app' = "created"
  /\ UNCHANGED <<file, state, cloud, receipt, run, operator, proved, stops>>

(* bootstrap.sh gets an error or is killed: what it put on record stands,    *)
(* unless it sees that there is no such app.                                *)
AppUnanswered ==
  /\ app = "asking" /\ stops < MaxStops
  /\ stops' = stops + 1
  /\ \/ app' = "pending"
     \/ app' = "none" /\ "app" \notin cloud
  /\ UNCHANGED <<file, state, cloud, receipt, run, operator, proved>>

(* The operator edits bootstrap.json, as bootstrap.sh says, and deletes the  *)
(* app or keeps it as one that is not the installation's to delete.          *)
Adjudicate ==
  /\ Unresolved
  /\ app' = "none" /\ cloud' \in {cloud, cloud \ {"app"}}
  /\ UNCHANGED <<file, state, receipt, run, operator, proved, stops>>

BoutMakes(thing) ==   \* nothing is deployed to an app whose creation is not settled
  /\ {"app", "fleet"} \subseteq cloud /\ app \in {"none", "created"} /\ proved.canary
  /\ Meanwhile \/ (Idle /\ intent = "install")
  /\ cloud' = cloud \cup {thing}
  /\ UNCHANGED <<file, state, beside, run, operator, proved, stops>>

(* The bout's own cleanup, or, for a clone, the delete calls the refusal     *)
(* names.                                                                    *)
BoutCleans(thing) ==
  /\ thing = "clone" \/ "app" \in cloud
  /\ cloud' = cloud \ {thing}
  /\ UNCHANGED <<file, state, beside, run, operator, proved, stops>>

Scope == {"all"} \cup Lane

Setup ==
  \/ \E scope \in Scope : ApplyOne(scope) \/ Applied(scope)
  \/ MakeProjects \/ Seed \/ WaitForZero \/ Make4 \/ Seal4At \/ UnlessReady
  \/ Begin5 \/ Rotate5 \/ Check5 \/ Begin6 \/ Make6 \/ Seal6
  \/ \E l \in Lane : RecordLane(l) \/ SealLane(l)
  \/ Unsupported \/ Wipe

Cleanup ==
  \/ CleanBaseline \/ Verify6 \/ WriteReceipt
  \/ \E thing \in {"guard", "role"} : Forget(thing)
  \/ \E thing \in Thing : Delete(thing)
  \/ DestroyOne \/ Destroyed \/ Unlink

Operator == StartProvision \/ ProvisionFails \/ StartSetup \/ StartResume \/ Decide \/ StartCleanup
Creation == CreateApp \/ AppAppears \/ AppAnswered \/ AppUnanswered \/ Adjudicate
App == Creation \/ \E thing \in {"clone", "proxy"} : BoutMakes(thing) \/ BoutCleans(thing)

Next == Setup \/ Cleanup \/ Operator \/ App \/ Refuses \/ Fails \/ Killed

Spec == Init /\ [][Next]_vars

-----------------------------------------------------------------------------
(* The type of every variable.                                             *)
InstallTypeOK ==
  /\ file \in Manifest \cup {None}
  /\ state \subseteq Address /\ cloud \subseteq Thing
  /\ receipt \in BOOLEAN /\ app \in AppRecord
  /\ intent \in {"install", "remove"} /\ told \in Tells
  /\ stops \in 0..MaxStops

(* A lane Terraform holds any of is one the manifest enables: wherever its  *)
(* stage stopped, no later plan takes the lane down.                        *)
LaneIsRecorded == file # None => state \cap Lane \subseteq file.enabled

(* The seals of Rounds 5 and 6 that a manifest counts as ready were made    *)
(* over the Round 4 it seals, whichever command resumed them.               *)
SealsAgree ==
  file # None =>
    /\ Ready5(file) => proved.over5 = file.round4
    /\ Ready6(file) => proved.over6 = file.round4

(* When a cleanup has taken the manifest away nothing is left that bills,    *)
(* but for an app no record calls this installation's, wherever the install *)
(* or the app's creation stopped and however often cleanup was retried.      *)
Removed == file = None /\ intent = "remove"
NotOurs == IF app = "none" THEN {"app"} ELSE {}
NothingBillsAfter == Removed => cloud \cap Billed \subseteq NotOurs

(* The runtime role, whose credentials the app and Terraform's own provider *)
(* use, is there as long as anything Terraform holds is.                    *)
RoleOutlives ==
  file # None /\ file.role /\ state \ {"guard"} # {} => "role" \in cloud

(* An installation is finished by running setup again, whatever stopped.    *)
SetupFinishes == intent = "install" ~> Installed \/ intent = "remove"

(* An installation is removed by running cleanup again, wherever setup, the  *)
(* app's creation or an earlier cleanup stopped, if the operator follows     *)
(* what it says, and what bootstrap.sh says of an app whose creation was cut *)
(* short: until that is settled by hand no cleanup finishes.                 *)
CleanupFinishes == intent = "remove" ~> file = None

(* A step takes its time and ends; accidents are bounded.  The operator     *)
(* runs setup again until the installation is finished or not wanted any    *)
(* more, then cleanup, and what cleanup says to run; the app's creation is  *)
(* answered or given up, and settled by hand; a bout's resources are cleaned *)
(* up.                                                                      *)
Fairness ==
  /\ WF_vars(Setup \/ Cleanup \/ Refuses)
  /\ WF_vars(StartProvision)
  /\ WF_vars(StartSetup /\ ~ Installed)
  /\ WF_vars(Advice /\ (StartSetup \/ StartResume))
  /\ WF_vars(StartCleanup)
  /\ WF_vars(AppAnswered \/ (app = "asking" /\ AppAppears))
  /\ WF_vars(Adjudicate)
  /\ WF_vars(\E thing \in {"clone", "proxy"} : thing \in cloud /\ BoutCleans(thing))

FairSpec == Spec /\ Fairness

(* "`status` is deliberately left short of `ready` so a failed topology can *)
(* never advertise itself", "revoke READY until its live canary and the     *)
(* final scale-zero observation have both run again".                       *)
ReadyIsProved == Idle /\ Installed => proved.topology /\ proved.canary

(* "`./antidemo cleanup --yes` removes it": nothing that was made is left.   *)
NothingOwnedAfter == Removed => cloud \subseteq NotOurs

(* "Stop the spend:             ./antidemo cleanup --yes": where bootstrap.sh  *)
(* says so and the app it made bills, there is a manifest to clean up.       *)
SpendCanBeStopped == told = "spend" /\ app = "created" /\ "app" \in cloud => file # None
=============================================================================
