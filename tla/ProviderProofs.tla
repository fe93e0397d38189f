---------------------------- MODULE ProviderProofs ----------------------------
(***************************************************************************)
(* Theorems of what a Round 5 bout keeps at its providers.                 *)
(*                                                                         *)
(* CreationJournal, for every number of resources, of cleanups and of      *)
(* fences: its types, and that whatever exists is owed.                    *)
(*                                                                         *)
(* ResidentControl, for any number of servers, of attempts, of bouts among *)
(* them and of runs of the agent: its types, and that a settled job is     *)
(* quiet, an open one is of the attempt the slot names, and a message of   *)
(* an older attempt takes nothing down.                                    *)
(***************************************************************************)
EXTENDS CreationJournal, ResidentControl, Integers, WellFoundedInduction, SequenceTheorems,
        TLAPS

-----------------------------------------------------------------------------
(* Type correctness.                                                       *)

(* A bounded set of numbers that is not empty has a greatest one.          *)
LEMMA Greatest ==
  ASSUME NEW n \in Nat, NEW S, S \subseteq 1..n, S # {}
  PROVE  \E j \in S : \A k \in S : k <= j
<1> DEFINE T == {m \in Nat : n - m \in S}
           R == OpToRel(<, Nat)
<1>1. \A j \in S : j \in Nat /\ n - j \in Nat /\ n - (n - j) = j
  OBVIOUS
<1>2. T \subseteq Nat /\ T # {}
  BY <1>1
<1>3. \A x, y \in Nat : y < x => <<y, x>> \in R
  BY DEF OpToRel
<1>4. PICK x \in T : \A y \in T : <<y, x>> \notin R
  <2> HIDE DEF T, R
  <2>1. IsWellFoundedOn(R, Nat)
    BY NatLessThanWellFounded DEF R
  <2> QED  BY <1>2, <2>1, WFMin
<1>5. \A k \in S : ~(n - k < x)
  BY <1>1, <1>2, <1>3, <1>4
<1> QED  BY <1>1, <1>2, <1>5

CleanAt == {"idle", "look", "absent", "intend", "delete", "confirm", "refuse", "parent",
            "discover"}

Run == [at : CleanAt, i : 0..Last, token : 0..MaxToken, pass : {1, 2}, was : SUBSET Resource]

Status == {"create_intent", "created", "failed", "delete_intent", "deleted"}

LEMMA Numbers ==
  /\ Last \in Nat /\ Last # 0 /\ MaxToken \in Nat /\ MaxToken # 0 /\ MaxFaults \in Nat
  /\ 1 \in Resource /\ Resource \subseteq 0..Last
BY JournalAssumption DEF Resource

LEMMA HighestType == ASSUME NEW n \in 0..Last PROVE Highest(n) \in 0..Last
<1>1. CASE Journaled(n) = {}
  BY <1>1, Numbers DEF Highest
<1>2. CASE Journaled(n) # {}
  <2>1. n \in Nat /\ Journaled(n) \subseteq 1..n
    BY Numbers DEF Journaled
  <2>2. Highest(n) \in Journaled(n)
    <3>1. \E j \in Journaled(n) : \A k \in Journaled(n) : k <= j
      BY <1>2, <2>1, Greatest
    <3> QED  BY <1>2, <3>1 DEF Highest
  <2> QED  BY <2>1, <2>2, Numbers
<1> QED  BY <1>1, <1>2

(* What a row that is appended, or not, leaves behind.                     *)
LEMMA RowsMove ==
  ASSUME JournalTypeOK, NEW i, NEW s \in Status, NEW n \in 0..2, Rows(i, s, n)
  PROVE  /\ newest' = newest \/ newest' = [newest EXCEPT ![i] = s]
         /\ n > 0 => newest' = [newest EXCEPT ![i] = s]
         /\ newest' \in [Resource -> Status \cup {"none"}]
         /\ intents' \in [Resource -> 0..2]
         /\ \A j \in Resource : intents'[j] >= intents[j]
         /\ \A j \in Resource : newest'[j] = "none" =>
              newest[j] = "none" /\ intents'[j] = intents[j]
         /\ s = "create_intent" /\ n > 0 /\ i \in Resource => intents'[i] > 0
<1>a. newest \in [Resource -> Status \cup {"none"}] /\ intents \in [Resource -> 0..2]
  BY DEF JournalTypeOK, Status
<1>1. /\ newest' = newest \/ newest' = [newest EXCEPT ![i] = s]
      /\ n > 0 => newest' = [newest EXCEPT ![i] = s]
      /\ newest' \in [Resource -> Status \cup {"none"}]
  <2>1. [newest EXCEPT ![i] = s] \in [Resource -> Status \cup {"none"}]
    BY <1>a
  <2> QED  BY <1>a, <2>1 DEF Rows
<1>2. CASE s # "create_intent"
  BY <1>a, <1>1, <1>2 DEF Rows, Status
<1>3. CASE s = "create_intent"
  <2> DEFINE m == IF intents[i] + n > 2 THEN 2 ELSE intents[i] + n
  <2>1. intents' = [intents EXCEPT ![i] = m]
    BY <1>3 DEF Rows
  <2>2. CASE i \in Resource
    <3>1. intents[i] \in 0..2 /\ m \in 0..2 /\ m >= intents[i] /\ (n > 0 => m > 0)
      BY <1>a, <2>2
    <3>2. n = 0 => m = intents[i]
      BY <1>a, <2>2
    <3> HIDE DEF m
    <3>3. /\ intents' \in [Resource -> 0..2] /\ intents'[i] = m
          /\ \A j \in Resource : j # i => intents'[j] = intents[j]
      BY <1>a, <2>1, <2>2, <3>1
    <3>4. \A j \in Resource : newest'[j] = "none" =>
            newest[j] = "none" /\ intents'[j] = intents[j]
      BY <1>a, <1>1, <1>3, <2>2, <3>2, <3>3
    <3>5. \A j \in Resource : intents'[j] >= intents[j]
      BY <1>a, <3>1, <3>3
    <3> QED  BY <1>1, <3>1, <3>3, <3>4, <3>5
  <2>3. CASE i \notin Resource
    <3>1. intents' = intents
      BY <1>a, <2>1, <2>3
    <3>2. newest' = newest
      BY <1>a, <1>1, <2>3
    <3> QED  BY <1>a, <1>1, <2>3, <3>1, <3>2
  <2> QED  BY <2>2, <2>3
<1> QED  BY <1>2, <1>3

(* A commit that is answered, or fails: the row may be there either way.   *)
LEMMA CommitMoves ==
  ASSUME JournalTypeOK, NEW i, NEW s \in Status, NEW t,
         Commits(i, s, t) \/ CommitFails(i, s, t)
  PROVE  /\ newest' = newest \/ newest' = [newest EXCEPT ![i] = s]
         /\ newest' \in [Resource -> Status \cup {"none"}]
         /\ intents' \in [Resource -> 0..2]
         /\ \A j \in Resource : intents'[j] >= intents[j]
         /\ \A j \in Resource : newest'[j] = "none" =>
              newest[j] = "none" /\ intents'[j] = intents[j]
         /\ Commits(i, s, t) /\ s = "create_intent" /\ i \in Resource => intents'[i] > 0
         /\ faults' \in 0..MaxFaults
<1>1. \E n \in 0..2 : Rows(i, s, n) /\ (Sound \/ Faulty) /\ (Commits(i, s, t) => n > 0)
  <2>1. CASE Commits(i, s, t)
    BY <2>1 DEF Commits
  <2>2. CASE ~Commits(i, s, t)
    BY <2>2 DEF CommitFails
  <2> QED  BY <2>1, <2>2
<1>2. PICK n \in 0..2 : Rows(i, s, n) /\ (Sound \/ Faulty) /\ (Commits(i, s, t) => n > 0)
  BY <1>1
<1>3. faults' \in 0..MaxFaults
  BY <1>2, Numbers DEF Sound, Faulty, JournalTypeOK
<1> QED  BY <1>2, <1>3, RowsMove

LEMMA IdleType == IdleCleaner \in Run
BY Numbers DEF IdleCleaner, Run, CleanAt

LEMMA CleanersType == JournalTypeOK => cleaning \in [Cleaner -> Run]
BY DEF JournalTypeOK, Run, CleanAt

(* How a cleanup moves on, by itself.                                      *)
LEMMA GoesType ==
  ASSUME JournalTypeOK, NEW c \in Cleaner, NEW place \in CleanAt, NEW i \in 0..Last, Goes(c, place, i)
  PROVE  cleaning' \in [Cleaner -> Run]
<1>1. cleaning[c] \in Run
  BY CleanersType
<1>2. [cleaning[c] EXCEPT !.at = place, !.i = i] \in Run
  BY <1>1 DEF Run
<1>3. cleaning' = [cleaning EXCEPT ![c] = [cleaning[c] EXCEPT !.at = place, !.i = i]]
  BY DEF Goes
<1> QED  BY <1>2, <1>3, CleanersType

LEMMA EndsType ==
  ASSUME JournalTypeOK, NEW c \in Cleaner, Ends(c)
  PROVE  cleaning' \in [Cleaner -> Run]
<1> DEFINE t == IF c = Own THEN 1 ELSE 0
           x == [IdleCleaner EXCEPT !.token = t]
<1>1. t \in 0..MaxToken
  BY Numbers
<1>2. x \in Run
  <2> HIDE DEF t
  <2> QED  BY <1>1, IdleType DEF Run
<1>3. cleaning' = [cleaning EXCEPT ![c] = x]
  BY DEF Ends
<1> HIDE DEF x
<1> QED  BY <1>2, <1>3, CleanersType

LEMMA ReadsType ==
  ASSUME JournalTypeOK, NEW c \in Cleaner, NEW t \in 0..MaxToken, NEW p \in {1, 2}, Reads(c, t, p)
  PROVE  cleaning' \in [Cleaner -> Run]
<1>1. CASE Ends(c)
  BY <1>1, EndsType
<1>2. CASE ~Ends(c)
  <2> DEFINE was == {i \in Resource : newest[i] = "deleted"}
             x == [at |-> "look", i |-> Highest(Last), token |-> t, pass |-> p, was |-> was]
  <2>1. Highest(Last) \in 0..Last
    BY HighestType, Numbers
  <2>2. x \in Run
    BY <2>1 DEF Run, CleanAt
  <2>3. cleaning' = [cleaning EXCEPT ![c] = x]
    BY <1>2 DEF Reads
  <2> HIDE DEF x
  <2> QED  BY <2>2, <2>3, CleanersType
<1> QED  BY <1>1, <1>2

LEMMA LaunchType ==
  ASSUME NEW i \in Resource,
         NEW place \in {"next", "intended", "calling", "made", "refused", "over"}, Launch(place, i)
  PROVE  launch' \in [at : {"next", "intended", "calling", "made", "refused", "over"},
                     i : Resource]
BY DEF Launch

LEMMA HighestBelow ==
  ASSUME NEW n \in 0..Last PROVE Highest(n - 1) \in 0..Last
<1>1. CASE n = 0
  <2>1. 1..(n - 1) = {}
    BY <1>1
  <2> QED  BY <2>1, Numbers DEF Highest, Journaled
<1> QED  BY <1>1, HighestType, Numbers

LEMMA JournalTypesHold ==
  JournalTypeOK /\ [JournalNext]_journalVars => JournalTypeOK'
<1> SUFFICES ASSUME JournalTypeOK, [JournalNext]_journalVars
             PROVE  JournalTypeOK'
  OBVIOUS
<1>1. CASE Intend
  <2>1. /\ newest' \in [Resource -> Status \cup {"none"}] /\ intents' \in [Resource -> 0..2]
        /\ faults' \in 0..MaxFaults
    BY <1>1, CommitMoves DEF Intend, Status
  <2>2. launch' \in [at : {"next", "intended", "calling", "made", "refused", "over"}, i : Resource]
    BY <1>1, Numbers DEF Intend, Launch, Answer, Resource, JournalTypeOK
  <2> QED  BY <1>1, <2>1, <2>2 DEF Intend, JournalTypeOK, Status
<1>2. CASE Create
  <2>1. launch' \in [at : {"next", "intended", "calling", "made", "refused", "over"}, i : Resource]
    BY <1>2, Numbers DEF Create, Launch, Answer, Resource, JournalTypeOK
  <2> QED  BY <1>2, <2>1 DEF Create, JournalTypeOK, Status, Resource
<1>3. CASE Record
  <2>1. /\ newest' \in [Resource -> Status \cup {"none"}] /\ intents' \in [Resource -> 0..2]
        /\ faults' \in 0..MaxFaults
    BY <1>3, CommitMoves DEF Record, Status
  <2>2. launch' \in [at : {"next", "intended", "calling", "made", "refused", "over"}, i : Resource]
    BY <1>3, Numbers DEF Record, Launch, Answer, Resource, JournalTypeOK
  <2> QED  BY <1>3, <2>1, <2>2 DEF Record, JournalTypeOK, Status
<1>4. CASE Lands
  <2>1. faults' \in 0..MaxFaults
    BY <1>4, Numbers DEF Lands, Sound, Faulty, JournalTypeOK
  <2>2. launch' \in [at : {"next", "intended", "calling", "made", "refused", "over"}, i : Resource]
    BY <1>4, Numbers DEF Lands, Launch, Answer, Resource, JournalTypeOK
  <2>3. wire' \in 0..Last /\ there' \in SUBSET Resource /\ late' \in SUBSET Resource
    BY <1>4, Numbers DEF Lands, Resource, JournalTypeOK
  <2> QED  BY <1>4, <2>1, <2>2, <2>3 DEF Lands, JournalTypeOK, Status, Resource
<1>5. CASE Refuses
  <2>1. faults' \in 0..MaxFaults
    BY <1>5, Numbers DEF Refuses, Sound, Faulty, JournalTypeOK
  <2>2. launch' \in [at : {"next", "intended", "calling", "made", "refused", "over"}, i : Resource]
    BY <1>5, Numbers DEF Refuses, Launch, Answer, Resource, JournalTypeOK
  <2>3. wire' \in 0..Last /\ there' \in SUBSET Resource /\ late' \in SUBSET Resource
    BY <1>5, Numbers DEF Refuses, Resource, JournalTypeOK
  <2> QED  BY <1>5, <2>1, <2>2, <2>3 DEF Refuses, JournalTypeOK, Status
<1>6. CASE Stop
  <2>1. faults' \in 0..MaxFaults
    BY <1>6, Numbers DEF Stop, Sound, Faulty, JournalTypeOK
  <2>2. launch' \in [at : {"next", "intended", "calling", "made", "refused", "over"}, i : Resource]
    BY <1>6, Numbers DEF Stop, Launch, Answer, Resource, JournalTypeOK
  <2> QED  BY <1>6, <2>1, <2>2 DEF Stop, JournalTypeOK, Status
<1>7. CASE Lapses
  <2>1. faults' \in 0..MaxFaults
    BY <1>7, Numbers DEF Lapses, Sound, Faulty, JournalTypeOK
  <2>2. ring' \in [token : 1..MaxToken, owner : {"bout", "recovery"}, live : BOOLEAN]
    BY <1>7, Numbers DEF Lapses, JournalTypeOK
  <2> QED  BY <1>7, <2>1, <2>2 DEF Lapses, JournalTypeOK, Status
<1>8. CASE Release
  <2>1. ring' \in [token : 1..MaxToken, owner : {"bout", "recovery"}, live : BOOLEAN]
    BY <1>8, Numbers DEF Release, JournalTypeOK
  <2> QED  BY <1>8, <2>1 DEF Release, JournalTypeOK, Status
<1>9. CASE BeginOwn
  <2>1. /\ 1 \in 0..MaxToken /\ ring.token \in 0..MaxToken
        /\ ring.token < MaxToken => ring.token + 1 \in 0..MaxToken
    BY Numbers DEF JournalTypeOK
  <2>2. cleaning' \in [Cleaner -> Run]
    BY <1>9, <2>1, ReadsType DEF BeginOwn, CleanAt, Cleaner
  <2> QED  BY <1>9, <2>1, <2>2 DEF BeginOwn, JournalTypeOK, Status, Run, CleanAt
<1>10. ASSUME NEW c \in Cleaner, Begin(c) PROVE JournalTypeOK'
  <2>1. /\ 1 \in 0..MaxToken /\ ring.token \in 0..MaxToken
        /\ ring.token < MaxToken => ring.token + 1 \in 0..MaxToken
        /\ cleaning[c].token \in 0..MaxToken
    BY Numbers DEF JournalTypeOK
  <2>2. cleaning' \in [Cleaner -> Run]
    BY <1>10, <2>1, ReadsType DEF Begin, CleanAt
  <2>3. \/ ring' = ring
        \/ /\ ring.token < MaxToken
           /\ ring' = [token |-> ring.token + 1, owner |-> "recovery", live |-> TRUE]
    BY <1>10 DEF Begin
  <2>4. ring' \in [token : 1..MaxToken, owner : {"bout", "recovery"}, live : BOOLEAN]
    <3>a. ring \in [token : 1..MaxToken, owner : {"bout", "recovery"}, live : BOOLEAN]
      BY DEF JournalTypeOK
    <3>1. ring.token < MaxToken => ring.token + 1 \in 1..MaxToken
      BY Numbers DEF JournalTypeOK
    <3>2. CASE ring' = ring
      BY <3>a, <3>2
    <3>3. CASE /\ ring.token < MaxToken
              /\ ring' = [token |-> ring.token + 1, owner |-> "recovery", live |-> TRUE]
      BY <3>1, <3>3
    <3> QED  BY <2>3, <3>2, <3>3
  <2> QED  BY <1>10, <2>1, <2>2, <2>3, <2>4 DEF Begin, JournalTypeOK, Status, Run, CleanAt
<1>11. ASSUME NEW c \in Cleaner, Look(c) PROVE JournalTypeOK'
  <2>1. faults' \in 0..MaxFaults
    BY <1>11, Numbers DEF Look, Sound, Faulty, JournalTypeOK
  <2>2. cleaning[c].i \in 0..Last
    BY CleanersType DEF Run
  <2>3. cleaning' \in [Cleaner -> Run]
    BY <1>11, <2>1, <2>2, GoesType, HighestBelow DEF Look, CleanAt
  <2> QED  BY <1>11, <2>1, <2>2, <2>3 DEF Look, JournalTypeOK, Status, Run, CleanAt
<1>12. ASSUME NEW c \in Cleaner, RecordAbsent(c) PROVE JournalTypeOK'
  <2>1. /\ newest' \in [Resource -> Status \cup {"none"}] /\ intents' \in [Resource -> 0..2]
        /\ faults' \in 0..MaxFaults
    BY <1>12, CommitMoves DEF RecordAbsent, Status
  <2>2. cleaning[c].i \in 0..Last
    BY CleanersType DEF Run
  <2>3. cleaning' \in [Cleaner -> Run]
    BY <1>12, <2>1, <2>2, GoesType, EndsType, HighestBelow DEF RecordAbsent, CleanAt
  <2> QED  BY <1>12, <2>1, <2>2, <2>3 DEF RecordAbsent, JournalTypeOK, Status, Run, CleanAt
<1>13. ASSUME NEW c \in Cleaner, IntendDelete(c) PROVE JournalTypeOK'
  <2>1. /\ newest' \in [Resource -> Status \cup {"none"}] /\ intents' \in [Resource -> 0..2]
        /\ faults' \in 0..MaxFaults
    BY <1>13, CommitMoves DEF IntendDelete, Status
  <2>2. cleaning[c].i \in 0..Last
    BY CleanersType DEF Run
  <2>3. cleaning' \in [Cleaner -> Run]
    BY <1>13, <2>1, <2>2, GoesType DEF IntendDelete, CleanAt
  <2> QED  BY <1>13, <2>1, <2>2, <2>3 DEF IntendDelete, JournalTypeOK, Status, Run, CleanAt
<1>14. ASSUME NEW c \in Cleaner, Delete(c) PROVE JournalTypeOK'
  <2>1. faults' \in 0..MaxFaults
    BY <1>14, Numbers DEF Delete, Sound, Faulty, JournalTypeOK
  <2>2. cleaning[c].i \in 0..Last
    BY CleanersType DEF Run
  <2>3. cleaning' \in [Cleaner -> Run]
    BY <1>14, <2>1, <2>2, GoesType DEF Delete, CleanAt
  <2> QED  BY <1>14, <2>1, <2>2, <2>3 DEF Delete, JournalTypeOK, Status, Run, CleanAt, Gone
<1>15. ASSUME NEW c \in Cleaner, Confirm(c) PROVE JournalTypeOK'
  <2>1. cleaning[c].i \in 0..Last
    BY CleanersType DEF Run
  <2>2. cleaning' \in [Cleaner -> Run]
    BY <1>15, <2>1, GoesType DEF Confirm, CleanAt
  <2> QED  BY <1>15, <2>1, <2>2 DEF Confirm, JournalTypeOK, Status, Run, CleanAt
<1>16. ASSUME NEW c \in Cleaner, Refuse(c) PROVE JournalTypeOK'
  <2>1. /\ newest' \in [Resource -> Status \cup {"none"}] /\ intents' \in [Resource -> 0..2]
        /\ faults' \in 0..MaxFaults
    BY <1>16, CommitMoves DEF Refuse, Status
  <2>2. cleaning[c].i \in 0..Last
    BY CleanersType DEF Run
  <2>3. cleaning' \in [Cleaner -> Run]
    BY <1>16, <2>1, <2>2, GoesType, EndsType, Numbers DEF Refuse, CleanAt, Incomplete
  <2> QED  BY <1>16, <2>1, <2>2, <2>3 DEF Refuse, JournalTypeOK, Status, Run, CleanAt
<1>17. ASSUME NEW c \in Cleaner, PassEnds(c) PROVE JournalTypeOK'
  <2>1. cleaning' \in [Cleaner -> Run]
    BY <1>17, GoesType, EndsType, Numbers DEF PassEnds, CleanAt
  <2> QED  BY <1>17, <2>1 DEF PassEnds, JournalTypeOK, Status, Run, CleanAt
<1>18. ASSUME NEW c \in Cleaner, DeleteParent(c) PROVE JournalTypeOK'
  <2>1. faults' \in 0..MaxFaults
    BY <1>18, Numbers DEF DeleteParent, Sound, Faulty, JournalTypeOK
  <2>2. /\ 1 \in 0..MaxToken /\ ring.token \in 0..MaxToken
        /\ ring.token < MaxToken => ring.token + 1 \in 0..MaxToken
        /\ cleaning[c].token \in 0..MaxToken
    BY Numbers DEF JournalTypeOK
  <2>3. cleaning' \in [Cleaner -> Run]
    BY <1>18, <2>1, <2>2, EndsType, ReadsType DEF DeleteParent, CleanAt
  <2> QED  BY <1>18, <2>1, <2>2, <2>3 DEF DeleteParent, JournalTypeOK, Status, Run, CleanAt, Gone
<1>19. ASSUME NEW c \in Cleaner, SettleClaim(c) PROVE JournalTypeOK'
  <2>1. cleaning' \in [Cleaner -> Run]
    BY <1>19, EndsType DEF SettleClaim, CleanAt
  <2>2. ring' \in [token : 1..MaxToken, owner : {"bout", "recovery"}, live : BOOLEAN]
    BY <1>19, Numbers DEF SettleClaim, JournalTypeOK
  <2> QED  BY <1>19, <2>1, <2>2 DEF SettleClaim, JournalTypeOK, Status, Run, CleanAt
<1>20. ASSUME NEW c \in Cleaner, Dies(c) PROVE JournalTypeOK'
  <2>1. faults' \in 0..MaxFaults
    BY <1>20, Numbers DEF Dies, Sound, Faulty, JournalTypeOK
  <2>2. cleaning' \in [Cleaner -> Run]
    BY <1>20, <2>1, EndsType DEF Dies, CleanAt
  <2> QED  BY <1>20, <2>1, <2>2 DEF Dies, JournalTypeOK, Status, Run, CleanAt
<1>21. CASE UNCHANGED journalVars
  BY <1>21 DEF journalVars, JournalTypeOK
<1> QED
  BY <1>1, <1>2, <1>3, <1>4, <1>5, <1>6, <1>7, <1>8, <1>9, <1>10, <1>11, <1>12, <1>13, <1>14,
     <1>15, <1>16, <1>17, <1>18, <1>19, <1>20, <1>21
  DEF JournalNext, Launches, Provider, Cleans

(* Every variable keeps its type.                                          *)
THEOREM JournalTypeCorrect == JournalSpec => []JournalTypeOK
<1>1. JournalInit => JournalTypeOK
  <2> SUFFICES ASSUME JournalInit PROVE JournalTypeOK
    OBVIOUS
  <2>1. cleaning \in [Cleaner -> Run]
    BY IdleType DEF JournalInit
  <2>2. /\ intents \in [Resource -> 0..2]
        /\ newest \in [Resource -> {"none", "create_intent", "created", "failed",
                                   "delete_intent", "deleted"}]
        /\ ring \in [token : 1..MaxToken, owner : {"bout", "recovery"}, live : BOOLEAN]
    BY Numbers DEF JournalInit
  <2>3. /\ launch \in [at : {"next", "intended", "calling", "made", "refused", "over"},
                      i : Resource]
        /\ wire \in 0..Last /\ faults \in 0..MaxFaults
    BY Numbers DEF JournalInit
  <2> QED  BY <2>1, <2>2, <2>3 DEF JournalInit, JournalTypeOK, Run, CleanAt
<1> QED  BY <1>1, JournalTypesHold, PTL DEF JournalSpec

-----------------------------------------------------------------------------
(* Whatever exists is owed.  A creation is asked for only once its intent  *)
(* is on record, and only what was found absent is journaled as deleted.   *)

Intended == launch.at \in {"intended", "calling", "made", "refused"} => intents[launch.i] > 0

RowsAgree == \A i \in Resource : newest[i] = "none" => intents[i] = 0

AbsentIsAbsent ==
  \A c \in Cleaner : cleaning[c].at = "absent" => cleaning[c].i \notin there \ late

Owed == Intended /\ RowsAgree /\ AbsentIsAbsent /\ ExistingIsOwed

(* A row that is appended leaves owed what was, unless it calls deleted    *)
(* what is there.                                                          *)
LEMMA RowsOwed ==
  ASSUME JournalTypeOK, Owed, UNCHANGED <<there, wire, late>>,
         NEW i, NEW s \in Status,
         newest' = newest \/ newest' = [newest EXCEPT ![i] = s],
         s = "deleted" => i \notin there \ late,
         \A j \in Resource : intents'[j] >= intents[j] /\ intents'[j] \in 0..2
  PROVE  ExistingIsOwed'
<1>a. /\ newest \in [Resource -> Status \cup {"none"}] /\ intents \in [Resource -> 0..2]
      /\ there \subseteq Resource /\ wire \in 0..Last
  BY DEF JournalTypeOK, Status
<1>1. ASSUME NEW j \in there \cup ({wire} \ {0}) PROVE intents'[j] > 0
  <2>1. j \in Resource /\ intents[j] > 0
    BY <1>a, Numbers DEF Owed, ExistingIsOwed, Resource
  <2>2. intents[j] \in 0..2 /\ intents'[j] \in 0..2 /\ intents'[j] >= intents[j]
    BY <1>a, <2>1
  <2> QED  BY <2>1, <2>2
<1>2. ASSUME NEW j \in there, newest'[j] \in {"none", "deleted"} PROVE j \in late
  <2>1. j \in Resource /\ newest[j] # "none"
    BY <1>a DEF Owed, ExistingIsOwed, RowsAgree
  <2>2. newest'[j] = newest[j] \/ (newest'[j] = s /\ i = j)
    BY <1>a, <2>1
  <2>3. CASE newest'[j] = newest[j]
    BY <1>2, <2>1, <2>3 DEF Owed, ExistingIsOwed
  <2>4. CASE newest'[j] = s /\ i = j
    BY <1>2, <2>4 DEF Status
  <2> QED  BY <2>2, <2>3, <2>4
<1> QED  BY <1>1, <1>2 DEF ExistingIsOwed

LEMMA OthersAbsent ==
  ASSUME JournalTypeOK, AbsentIsAbsent, NEW c \in Cleaner, NEW x,
         cleaning' = [cleaning EXCEPT ![c] = x], there' \ late' \subseteq there \ late,
         x.at = "absent" => x.i \notin there \ late
  PROVE  AbsentIsAbsent'
BY CleanersType DEF AbsentIsAbsent

LEMMA GoesAbsent ==
  ASSUME JournalTypeOK, AbsentIsAbsent, NEW c \in Cleaner, NEW place \in CleanAt, NEW i \in 0..Last,
         Goes(c, place, i), there' \ late' \subseteq there \ late,
         place = "absent" => i \notin there \ late
  PROVE  AbsentIsAbsent'
<1> DEFINE x == [cleaning[c] EXCEPT !.at = place, !.i = i]
<1>1. cleaning[c] \in Run
  BY CleanersType
<1>2. x.at = place /\ x.i = i
  BY <1>1 DEF Run
<1>3. cleaning' = [cleaning EXCEPT ![c] = x]
  BY DEF Goes
<1> HIDE DEF x
<1> QED  BY <1>2, <1>3, OthersAbsent

LEMMA EndsAbsent ==
  ASSUME JournalTypeOK, AbsentIsAbsent, NEW c \in Cleaner, Ends(c),
         there' \ late' \subseteq there \ late
  PROVE  AbsentIsAbsent'
<1> DEFINE x == [IdleCleaner EXCEPT !.token = IF c = Own THEN 1 ELSE 0]
<1>1. x.at = "idle"
  BY DEF IdleCleaner
<1>2. cleaning' = [cleaning EXCEPT ![c] = x]
  BY DEF Ends
<1> HIDE DEF x
<1> QED  BY <1>1, <1>2, OthersAbsent

LEMMA ReadsAbsent ==
  ASSUME JournalTypeOK, AbsentIsAbsent, NEW c \in Cleaner, NEW t, NEW p, Reads(c, t, p),
         there' \ late' \subseteq there \ late
  PROVE  AbsentIsAbsent'
<1>1. CASE Ends(c)
  BY <1>1, EndsAbsent
<1>2. CASE ~Ends(c)
  <2> DEFINE x == [at |-> "look", i |-> Highest(Last), token |-> t, pass |-> p,
                   was |-> {i \in Resource : newest[i] = "deleted"}]
  <2>1. cleaning' = [cleaning EXCEPT ![c] = x]
    BY <1>2 DEF Reads
  <2>2. x.at = "look"
    OBVIOUS
  <2> HIDE DEF x
  <2> QED  BY <2>1, <2>2, OthersAbsent
<1> QED  BY <1>1, <1>2

LEMMA OwedHolds ==
  JournalTypeOK /\ Owed /\ [JournalNext]_journalVars => Owed'
<1> SUFFICES ASSUME JournalTypeOK /\ Owed, [JournalNext]_journalVars
             PROVE  Owed'
  OBVIOUS
<1>a. /\ cleaning \in [Cleaner -> Run] /\ there \subseteq Resource
      /\ intents \in [Resource -> 0..2] /\ newest \in [Resource -> Status \cup {"none"}]
      /\ launch.i \in Resource /\ wire \in 0..Last
  BY CleanersType DEF JournalTypeOK, Status
<1>1. CASE Intend
  <2>1. /\ \A j \in Resource : intents'[j] >= intents[j] /\ intents'[j] \in 0..2
        /\ \A j \in Resource : newest'[j] = "none" =>
             newest[j] = "none" /\ intents'[j] = intents[j]
    BY <1>1, CommitMoves DEF Intend, Status
  <2>2. /\ launch'.i = launch.i /\ (launch'.at = "over" \/ intents'[launch.i] > 0)
        /\ newest' = newest \/ newest' = [newest EXCEPT ![launch.i] = "create_intent"]
    BY <1>1, <1>a, CommitMoves DEF Intend, Status, Launch
  <2>3. AbsentIsAbsent'
    BY <1>1 DEF Intend, Owed, AbsentIsAbsent
  <2>4. UNCHANGED <<there, wire, late>>
    BY <1>1 DEF Intend
  <2>5. Intended'
    BY <1>a, <2>1, <2>2, <2>3, <2>4 DEF Owed, Intended
  <2>6. RowsAgree'
    BY <1>a, <2>1, <2>2, <2>3, <2>4 DEF Owed, RowsAgree
  <2>7. ExistingIsOwed'
    BY <1>a, <2>1, <2>2, <2>3, <2>4, RowsOwed DEF Status
  <2> QED  BY <2>3, <2>5, <2>6, <2>7 DEF Owed
<1>2. CASE Create
  <2>1. AbsentIsAbsent'
    BY <1>2 DEF Create, Owed, AbsentIsAbsent
  <2> QED  BY <1>2, <1>a, <2>1 DEF Create, Launch, Answer, Owed, Intended, RowsAgree, ExistingIsOwed
<1>3. CASE Record
  <2>1. /\ \A j \in Resource : intents'[j] >= intents[j] /\ intents'[j] \in 0..2
        /\ \A j \in Resource : newest'[j] = "none" =>
             newest[j] = "none" /\ intents'[j] = intents[j]
    BY <1>3, CommitMoves DEF Record, Status
  <2>2. /\ launch'.at \in {"next", "over"}
        /\ \/ newest' = newest \/ newest' = [newest EXCEPT ![launch.i] = "created"]
           \/ newest' = [newest EXCEPT ![launch.i] = "failed"]
    BY <1>3, <1>a, CommitMoves DEF Record, Status, Launch
  <2>3. AbsentIsAbsent'
    BY <1>3 DEF Record, Owed, AbsentIsAbsent
  <2>4. UNCHANGED <<there, wire, late>>
    BY <1>3 DEF Record
  <2>5. Intended'
    BY <1>a, <2>1, <2>2, <2>3, <2>4 DEF Owed, Intended
  <2>6. RowsAgree'
    BY <1>a, <2>1, <2>2, <2>3, <2>4 DEF Owed, RowsAgree
  <2>7. ExistingIsOwed'
    BY <1>a, <2>1, <2>2, <2>3, <2>4, RowsOwed DEF Status
  <2> QED  BY <2>3, <2>5, <2>6, <2>7 DEF Owed
<1>4. CASE Lands
  <2>1. /\ there' = there \cup {wire} /\ wire \in Resource /\ wire' = 0
        /\ UNCHANGED <<intents, newest, cleaning>> /\ launch'.i = launch.i
        /\ launch'.at = launch.at \/ launch.at = "calling"
        /\ IF \/ newest[wire] = "deleted"
              \/ \E c \in Cleaner : cleaning[c].at = "absent" /\ cleaning[c].i = wire
           THEN late' = late \cup {wire} ELSE late' = late
    BY <1>4, <1>a, Numbers DEF Lands, Answer, Launch, Resource
  <2>2. AbsentIsAbsent'
    BY <1>4, <1>a, <2>1 DEF Owed, AbsentIsAbsent
  <2>3. Intended'
    BY <1>a, <2>1, <2>2 DEF Owed, Intended
  <2>4. RowsAgree'
    BY <1>a, <2>1, <2>2 DEF Owed, RowsAgree
  <2>5. ExistingIsOwed'
    <3>1. intents[wire] > 0 /\ newest[wire] # "none"
      BY <1>a, <2>1, Numbers DEF Owed, ExistingIsOwed, RowsAgree, Resource
    <3> QED  BY <1>a, <2>1, <3>1 DEF Owed, ExistingIsOwed, RowsAgree
  <2> QED  BY <2>2, <2>3, <2>4, <2>5 DEF Owed
<1>5. CASE Refuses
  <2>1. AbsentIsAbsent'
    BY <1>5 DEF Refuses, Owed, AbsentIsAbsent
  <2> QED  BY <1>5, <1>a, <2>1 DEF Refuses, Launch, Answer, Owed, Intended, RowsAgree, ExistingIsOwed
<1>6. CASE Stop
  <2>1. AbsentIsAbsent'
    BY <1>6 DEF Stop, Owed, AbsentIsAbsent
  <2> QED  BY <1>6, <1>a, <2>1 DEF Stop, Launch, Answer, Owed, Intended, RowsAgree, ExistingIsOwed
<1>7. CASE Lapses
  <2>1. AbsentIsAbsent'
    BY <1>7 DEF Lapses, Owed, AbsentIsAbsent
  <2> QED  BY <1>7, <1>a, <2>1 DEF Lapses, Owed, Intended, RowsAgree, ExistingIsOwed
<1>8. CASE Release
  <2>1. AbsentIsAbsent'
    BY <1>8 DEF Release, Owed, AbsentIsAbsent
  <2> QED  BY <1>8, <1>a, <2>1 DEF Release, Owed, Intended, RowsAgree, ExistingIsOwed
<1>9. CASE BeginOwn
  <2>1. AbsentIsAbsent'
    BY <1>9, <1>a, ReadsAbsent DEF BeginOwn, Owed, CleanAt, Cleaner
  <2> QED  BY <1>9, <1>a, <2>1 DEF BeginOwn, Owed, Intended, RowsAgree, ExistingIsOwed
<1>10. ASSUME NEW c \in Cleaner, Begin(c) PROVE Owed'
  <2>1. AbsentIsAbsent'
    BY <1>10, <1>a, ReadsAbsent DEF Begin, Owed, CleanAt
  <2> QED  BY <1>10, <1>a, <2>1 DEF Begin, Owed, Intended, RowsAgree, ExistingIsOwed
<1>11. ASSUME NEW c \in Cleaner, Look(c) PROVE Owed'
  <2>1. cleaning[c].i \in 0..Last
    BY <1>a DEF Run
  <2>2. AbsentIsAbsent'
    BY <1>11, <1>a, <2>1, GoesAbsent, HighestBelow DEF Look, Owed, CleanAt
  <2> QED  BY <1>11, <1>a, <2>1, <2>2 DEF Look, Owed, Intended, RowsAgree, ExistingIsOwed
<1>12. ASSUME NEW c \in Cleaner, RecordAbsent(c) PROVE Owed'
  <2>1. /\ \A j \in Resource : intents'[j] >= intents[j] /\ intents'[j] \in 0..2
        /\ \A j \in Resource : newest'[j] = "none" =>
             newest[j] = "none" /\ intents'[j] = intents[j]
    BY <1>12, CommitMoves DEF RecordAbsent, Status
  <2>2. newest' = newest \/ newest' = [newest EXCEPT ![cleaning[c].i] = "deleted"]
    BY <1>12, CommitMoves DEF RecordAbsent, Status
  <2>3. cleaning[c].i \in 0..Last
    BY <1>a DEF Run
  <2>4. AbsentIsAbsent'
    BY <1>12, <1>a, <2>1, <2>2, <2>3, GoesAbsent, EndsAbsent, HighestBelow DEF RecordAbsent,
      Owed, CleanAt
  <2>5. UNCHANGED <<there, wire, late>> /\ launch' = launch
    BY <1>12 DEF RecordAbsent
  <2>6. cleaning[c].i \notin there \ late
    BY <1>12 DEF RecordAbsent, At, Owed, AbsentIsAbsent
  <2>7. Intended'
    BY <1>a, <2>1, <2>2, <2>3, <2>4, <2>5, <2>6 DEF Owed, Intended
  <2>8. RowsAgree'
    BY <1>a, <2>1, <2>2, <2>3, <2>4, <2>5, <2>6 DEF Owed, RowsAgree
  <2>9. ExistingIsOwed'
    BY <1>a, <2>1, <2>2, <2>3, <2>4, <2>5, <2>6, RowsOwed DEF Status
  <2> QED  BY <2>4, <2>7, <2>8, <2>9 DEF Owed
<1>13. ASSUME NEW c \in Cleaner, IntendDelete(c) PROVE Owed'
  <2>1. /\ \A j \in Resource : intents'[j] >= intents[j] /\ intents'[j] \in 0..2
        /\ \A j \in Resource : newest'[j] = "none" =>
             newest[j] = "none" /\ intents'[j] = intents[j]
    BY <1>13, CommitMoves DEF IntendDelete, Status
  <2>2. newest' = newest \/ newest' = [newest EXCEPT ![cleaning[c].i] = "delete_intent"]
    BY <1>13, CommitMoves DEF IntendDelete, Status
  <2>3. cleaning[c].i \in 0..Last
    BY <1>a DEF Run
  <2>4. AbsentIsAbsent'
    BY <1>13, <1>a, <2>1, <2>2, <2>3, GoesAbsent DEF IntendDelete, Owed, CleanAt
  <2>5. UNCHANGED <<there, wire, late>> /\ launch' = launch
    BY <1>13 DEF IntendDelete
  <2>6. Intended'
    BY <1>a, <2>1, <2>2, <2>3, <2>4, <2>5 DEF Owed, Intended
  <2>7. RowsAgree'
    BY <1>a, <2>1, <2>2, <2>3, <2>4, <2>5 DEF Owed, RowsAgree
  <2>8. ExistingIsOwed'
    BY <1>a, <2>1, <2>2, <2>3, <2>4, <2>5, RowsOwed DEF Status
  <2> QED  BY <2>4, <2>6, <2>7, <2>8 DEF Owed
<1>14. ASSUME NEW c \in Cleaner, Delete(c) PROVE Owed'
  <2>1. cleaning[c].i \in 0..Last
    BY <1>a DEF Run
  <2>2. there' \ late' \subseteq there \ late
    BY <1>14 DEF Delete, Gone
  <2>3. /\ there' \subseteq there /\ late' \subseteq late
        /\ \A j \in there' : j \in late => j \in late'
    BY <1>14 DEF Delete, Gone
  <2>4. AbsentIsAbsent'
    BY <1>14, <1>a, <2>1, <2>2, <2>3, GoesAbsent DEF Delete, Owed, CleanAt
  <2> QED  BY <1>14, <1>a, <2>1, <2>2, <2>3, <2>4 DEF Delete, Owed, Intended, RowsAgree, ExistingIsOwed
<1>15. ASSUME NEW c \in Cleaner, Confirm(c) PROVE Owed'
  <2>1. cleaning[c].i \in 0..Last
    BY <1>a DEF Run
  <2>2. AbsentIsAbsent'
    BY <1>15, <1>a, <2>1, GoesAbsent DEF Confirm, Owed, CleanAt
  <2> QED  BY <1>15, <1>a, <2>1, <2>2 DEF Confirm, Owed, Intended, RowsAgree, ExistingIsOwed
<1>16. ASSUME NEW c \in Cleaner, Refuse(c) PROVE Owed'
  <2>1. /\ \A j \in Resource : intents'[j] >= intents[j] /\ intents'[j] \in 0..2
        /\ \A j \in Resource : newest'[j] = "none" =>
             newest[j] = "none" /\ intents'[j] = intents[j]
    BY <1>16, CommitMoves DEF Refuse, Status
  <2>2. newest' = newest \/ newest' = [newest EXCEPT ![cleaning[c].i] = "failed"]
    BY <1>16, CommitMoves DEF Refuse, Status
  <2>3. cleaning[c].i \in 0..Last
    BY <1>a DEF Run
  <2>4. AbsentIsAbsent'
    BY <1>16, <1>a, <2>1, <2>2, <2>3, GoesAbsent, EndsAbsent, Numbers DEF Refuse, Owed, CleanAt,
      Incomplete
  <2>5. UNCHANGED <<there, wire, late>> /\ launch' = launch
    BY <1>16 DEF Refuse
  <2>6. Intended'
    BY <1>a, <2>1, <2>2, <2>3, <2>4, <2>5 DEF Owed, Intended
  <2>7. RowsAgree'
    BY <1>a, <2>1, <2>2, <2>3, <2>4, <2>5 DEF Owed, RowsAgree
  <2>8. ExistingIsOwed'
    BY <1>a, <2>1, <2>2, <2>3, <2>4, <2>5, RowsOwed DEF Status
  <2> QED  BY <2>4, <2>6, <2>7, <2>8 DEF Owed
<1>17. ASSUME NEW c \in Cleaner, PassEnds(c) PROVE Owed'
  <2>1. AbsentIsAbsent'
    BY <1>17, <1>a, GoesAbsent, EndsAbsent, Numbers DEF PassEnds, Owed, CleanAt
  <2> QED  BY <1>17, <1>a, <2>1 DEF PassEnds, Owed, Intended, RowsAgree, ExistingIsOwed
<1>18. ASSUME NEW c \in Cleaner, DeleteParent(c) PROVE Owed'
  <2>1. there' \ late' \subseteq there \ late
    BY <1>18 DEF DeleteParent, Gone
  <2>2. /\ there' \subseteq there /\ late' \subseteq late
        /\ \A j \in there' : j \in late => j \in late'
    BY <1>18 DEF DeleteParent, Gone
  <2>3. AbsentIsAbsent'
    BY <1>18, <1>a, <2>1, <2>2, EndsAbsent, ReadsAbsent DEF DeleteParent, Owed, CleanAt
  <2> QED  BY <1>18, <1>a, <2>1, <2>2, <2>3 DEF DeleteParent, Owed, Intended, RowsAgree, ExistingIsOwed
<1>19. ASSUME NEW c \in Cleaner, SettleClaim(c) PROVE Owed'
  <2>1. AbsentIsAbsent'
    BY <1>19, <1>a, EndsAbsent DEF SettleClaim, Owed, CleanAt
  <2> QED  BY <1>19, <1>a, <2>1 DEF SettleClaim, Owed, Intended, RowsAgree, ExistingIsOwed
<1>20. ASSUME NEW c \in Cleaner, Dies(c) PROVE Owed'
  <2>1. AbsentIsAbsent'
    BY <1>20, <1>a, EndsAbsent DEF Dies, Owed, CleanAt
  <2> QED  BY <1>20, <1>a, <2>1 DEF Dies, Owed, Intended, RowsAgree, ExistingIsOwed
<1>21. CASE UNCHANGED journalVars
  BY <1>21 DEF journalVars, AbsentIsAbsent, Owed, Intended, RowsAgree, ExistingIsOwed
<1> QED
  BY <1>1, <1>2, <1>3, <1>4, <1>5, <1>6, <1>7, <1>8, <1>9, <1>10, <1>11, <1>12, <1>13, <1>14,
     <1>15, <1>16, <1>17, <1>18, <1>19, <1>20, <1>21
  DEF JournalNext, Launches, Provider, Cleans

(* Whatever exists, or is asked for, is on record and not taken for        *)
(* deleted, but for what was made after it was last found absent           *)
(* (precommit_intent, reconcile_incomplete).                               *)
THEOREM WhateverExistsIsOwed == JournalSpec => []ExistingIsOwed
<1>1. JournalInit => Owed
  BY Numbers DEF JournalInit, IdleCleaner, Intended, RowsAgree, AbsentIsAbsent, ExistingIsOwed, Owed
<1>2. Owed => ExistingIsOwed
  BY DEF Owed
<1> QED  BY <1>1, <1>2, OwedHolds, JournalTypeCorrect, PTL DEF JournalSpec
-----------------------------------------------------------------------------
(* The inductive invariant.                                                *)
Settled(a) == "settled" \in log[<<"bout", a>>]

(* A job is at work exactly while the active file names it, unless the run *)
(* has just begun; a message in hand is handled before anything is stopped.*)
RunFits ==
  /\ at \in {"down", "clear"} => phase = "none"
  /\ at = "up" => (phase = "none" <=> activeFile = None)
  /\ phase # "none" => activeFile # None
  /\ activeFile # None => activeFile[1] \in {"stage", "release"}
  /\ hand # None => at = "up" /\ phase # "quiet"

(* The message in hand is still in its queue.                              *)
HandQueued == hand # None => queue[JobOf(hand.event)] # <<>>

Within(k, q) == \E i \in 1..Len(q) : q[i] = k

(* A job's queue holds the kinds that are the job's.                       *)
QueueFits ==
  \A j \in Job : \A k \in Kind : Within(k, queue[j]) => (k = "preload" <=> j[1] = "warm")

(* What is obeyed was current when it was received: its job has not been   *)
(* settled since, and no attempt after its has been staged.                *)
HandIsUnsettled ==
  hand # None /\ hand.as = "current" =>
    /\ "settled" \notin log[JobOf(hand.event)] /\ hand.event[2] <= slot.attempt
    /\ stageFile # None => stageFile[2] <= hand.event[2]

(* A RELEASE on its way, or obeyed, was committed by a bell.               *)
Written ==
  /\ \A a \in Attempt :
       Within("release", queue[<<"bout", a>>]) => row[<<"release", a>>] # "none"
  /\ hand # None /\ hand.event[1] = "release" => row[hand.event] # "none"
  /\ \A s \in Server : sending[s] # 0 => row[<<"release", sending[s]>>] # "none"
  /\ phase = "open" => activeFile # None /\ row[<<"release", activeFile[2]>>] # "none"

(* A claim is one manager's, and an attempt that is free is no manager's.  *)
Managed ==
  /\ slot.claim # "free" => slot.attempt \in Attempt
  /\ \A s \in Server : mine[s] = 0 <=> doing[s] = "idle"
  /\ \A s \in Server : mine[s] <= slot.attempt /\ (slot.claim = "free" => mine[s] # slot.attempt)
  /\ \A s, t \in Server : mine[s] # 0 /\ mine[t] = mine[s] => s = t

(* An attempt whose bell has rung is never free again.                     *)
Passed ==
  \A a \in Attempt : row[<<"release", a>>] # "none" =>
    /\ a <= slot.attempt
    /\ a = slot.attempt => slot.claim # "free"
    /\ \A s \in Server : mine[s] = a => doing[s] \in {"rung", "racing"}

(* Who has seen nothing left of the bout was told that its job settled, if *)
(* its bell had rung.                                                      *)
CleanIsOver ==
  clean # {} =>
    /\ slot.claim = "cleaning"
    /\ row[<<"release", slot.attempt>>] # "none" => Settled(slot.attempt)

StageKnown == stageFile # None => stageFile[2] <= slot.attempt

ControlInv ==
  /\ ControlTypeOK /\ RunFits /\ HandQueued /\ QueueFits /\ HandIsUnsettled /\ Written
  /\ Managed /\ Passed /\ CleanIsOver /\ StageKnown /\ SettledIsQuiet /\ OpenIsOwned

-----------------------------------------------------------------------------
(* What is obeyed, kind by kind.                                           *)
Obeying(k) ==
  /\ hand # None /\ hand.as = "current" /\ hand.event[1] = k
  /\ UNCHANGED <<slot, row, bound, sqs, server, boot, at>>

ObeysPreload == Obeying("preload") /\ ObeyPreload(hand.event[2])
ObeysStage == Obeying("stage") /\ ObeyStage(hand.event[2])
ObeysRelease == Obeying("release") /\ ObeyRelease(hand.event[2])
ObeysCancel == Obeying("cancel") /\ ObeyCancel(hand.event[2])

LEMMA ObeysOne ==
  ASSUME Obey PROVE ObeysPreload \/ ObeysStage \/ ObeysRelease \/ ObeysCancel
BY DEF Obey, Obeying, ObeysPreload, ObeysStage, ObeysRelease, ObeysCancel

LEMMA Bounds == MaxAttempt \in Nat /\ MaxBout \in 0..MaxAttempt /\ MaxBoot \in Nat \ {0}
BY ControlAssumption

(* Events and jobs.                                                        *)
LEMMA EventFields ==
  ASSUME NEW e \in Event
  PROVE  /\ e[1] \in Kind /\ e[2] \in Attempt /\ e = <<e[1], e[2]>>
         /\ JobOf(e) \in Job /\ JobOf(e)[2] = e[2] /\ e[2] \in Nat /\ e[2] # 0
         /\ e[1] # "preload" => JobOf(e) = <<"bout", e[2]>>
         /\ e[1] = "preload" => JobOf(e) = <<"warm", e[2]>>
BY Bounds DEF Event, Kind, JobOf, Job, Attempt

LEMMA JobFields ==
  ASSUME NEW j \in Job
  PROVE  j[1] \in {"warm", "bout"} /\ j[2] \in Attempt /\ j = <<j[1], j[2]>> /\ j[2] \in Nat /\ j[2] # 0
BY Bounds DEF Job, Attempt

LEMMA AttemptEvents ==
  ASSUME NEW a \in Attempt, NEW k \in Kind
  PROVE  <<k, a>> \in Event /\ <<"bout", a>> \in Job /\ <<"warm", a>> \in Job
BY DEF Event, Job

LEMMA HandFields ==
  ASSUME ControlTypeOK, hand # None
  PROVE  /\ hand \in Message /\ hand.event \in Event /\ hand.event[2] \in Attempt
         /\ hand.as \in {"foreign", "cancelled", "terminal", "superseded", "current", "done", "left"}
         /\ JobOf(hand.event) \in Job
<1>1. hand \in Message
  BY DEF ControlTypeOK
<1>2. hand.event \in Event
  BY <1>1 DEF Message
<1> QED  BY <1>1, <1>2, EventFields DEF Message

(* The queues, as messages are added and taken.                            *)
LEMMA Queues ==
  ASSUME NEW q \in Seq(Kind), NEW k \in Kind, NEW m
  PROVE  /\ Append(q, k) \in Seq(Kind) /\ Append(q, k) # <<>>
         /\ Within(m, Append(q, k)) => Within(m, q) \/ m = k
         /\ q # <<>> => Tail(q) \in Seq(Kind) /\ Head(q) \in Kind /\ Within(Head(q), q)
         /\ q # <<>> /\ Within(m, Tail(q)) => Within(m, q)
<1>1. /\ Append(q, k) \in Seq(Kind) /\ Append(q, k) # <<>>
      /\ Within(m, Append(q, k)) => Within(m, q) \/ m = k
  BY AppendProperties DEF Within
<1>2. ASSUME q # <<>>
      PROVE  /\ Tail(q) \in Seq(Kind) /\ Head(q) \in Kind /\ Within(Head(q), q)
             /\ Within(m, Tail(q)) => Within(m, q)
  <2>1. Len(q) \in Nat /\ Len(q) >= 1 /\ Head(q) = q[1]
    BY <1>2, EmptySeq
  <2>2. Tail(q) \in Seq(Kind) /\ Len(Tail(q)) = Len(q) - 1
    BY <1>2, HeadTailProperties
  <2>3. \A i \in 1..Len(Tail(q)) : Tail(q)[i] = q[i + 1] /\ i + 1 \in 1..Len(q)
    BY <1>2, <2>1, <2>2, HeadTailProperties
  <2> QED  BY <2>1, <2>2, <2>3, ElementOfSeq DEF Within
<1> QED  BY <1>1, <1>2

LEMMA QueuePosts ==
  ASSUME ControlTypeOK, NEW e \in Event, Posts(e)
  PROVE  /\ queue' \in [Job -> Seq(Kind)] /\ posted' \subseteq Event
         /\ \A j \in Job : queue[j] # <<>> => queue'[j] # <<>>
         /\ \A j \in Job : \A m : Within(m, queue'[j]) =>
              Within(m, queue[j]) \/ (j = JobOf(e) /\ m = e[1])
<1>1. JobOf(e) \in Job /\ e[1] \in Kind /\ queue[JobOf(e)] \in Seq(Kind)
  BY EventFields DEF ControlTypeOK
<1>2. CASE queue' = queue
  BY <1>2 DEF Posts, ControlTypeOK
<1>3. CASE queue' = [queue EXCEPT ![JobOf(e)] = Append(@, e[1])]
  <2>1. \A m : /\ Append(queue[JobOf(e)], e[1]) \in Seq(Kind) \ {<<>>}
               /\ Within(m, Append(queue[JobOf(e)], e[1])) =>
                    Within(m, queue[JobOf(e)]) \/ m = e[1]
    BY <1>1, Queues
  <2> DEFINE w == Append(queue[JobOf(e)], e[1])
  <2>2. queue' = [queue EXCEPT ![JobOf(e)] = w]
    BY <1>3
  <2> HIDE DEF w
  <2>3. w \in Seq(Kind) \ {<<>>} /\ queue \in [Job -> Seq(Kind)]
    BY <2>1 DEF w, ControlTypeOK
  <2>4. \A j \in Job : queue'[j] = IF j = JobOf(e) THEN w ELSE queue[j]
    BY <2>2, <2>3
  <2>5. \A m : Within(m, w) => Within(m, queue[JobOf(e)]) \/ m = e[1]
    BY <2>1 DEF w
  <2>6. queue' \in [Job -> Seq(Kind)]
    BY <2>2, <2>3
  <2>7. posted' \subseteq Event
    BY DEF Posts, ControlTypeOK
  <2> QED  BY <2>3, <2>4, <2>5, <2>6, <2>7
<1>4. CASE e \in posted
  BY <1>2, <1>4 DEF Posts
<1>5. CASE e \notin posted
  BY <1>3, <1>5 DEF Posts
<1> QED  BY <1>4, <1>5

Takes == queue' = [queue EXCEPT ![JobOf(hand.event)] = Tail(@)]

LEMMA QueueTakes ==
  ASSUME ControlTypeOK, HandQueued, hand # None, Takes
  PROVE  /\ queue' \in [Job -> Seq(Kind)]
         /\ \A j \in Job : \A m : Within(m, queue'[j]) => Within(m, queue[j])
<1> DEFINE i == JobOf(hand.event)
           w == Tail(queue[i])
<1>1. i \in Job /\ queue[i] \in Seq(Kind) /\ queue[i] # <<>>
  BY HandFields DEF ControlTypeOK, HandQueued
<1>2. queue' = [queue EXCEPT ![i] = w]
  BY DEF Takes
<1>3. w \in Seq(Kind) /\ (\A m : Within(m, w) => Within(m, queue[i]))
  <2>1. "stage" \in Kind
    BY DEF Kind
  <2> QED  BY <1>1, <2>1, Queues
<1> HIDE DEF w, i
<1>4. \A j \in Job : queue'[j] = IF j = i THEN w ELSE queue[j]
  BY <1>1, <1>2 DEF ControlTypeOK
<1> QED  BY <1>1, <1>2, <1>3, <1>4 DEF ControlTypeOK

(* A manager goes on, with an attempt or without.                          *)
Managers == {"idle", "arming", "waiting", "rung", "racing"}

LEMMA ManagerType ==
  ASSUME doing \in [Server -> Managers], mine \in [Server -> 0..MaxAttempt],
         NEW s \in Server, NEW d \in Managers, NEW a \in 0..MaxAttempt,
         Manager(s, d, a) \/ UNCHANGED <<doing, mine>>
  PROVE  doing' \in [Server -> Managers] /\ mine' \in [Server -> 0..MaxAttempt]
BY DEF Manager

(* What the agent says keeps the log's type, also when it quarantines.     *)
Logs == [Job -> SUBSET {"prepared", "settled", "quarantined"}]

LEMMA SaysType ==
  ASSUME log \in Logs, NEW j \in Job, NEW w \in {"prepared", "settled", "quarantined"}, Says(j, w)
  PROVE  /\ log' \in Logs
         /\ \A i \in Job : log'[i] = IF i = j THEN log[i] \cup {w} ELSE log[i]
<1>1. log' = [log EXCEPT ![j] = log[j] \cup {w}] /\ log[j] \cup {w} \in SUBSET {"prepared", "settled", "quarantined"}
  BY DEF Says, Logs
<1> QED  BY <1>1 DEF Logs

LEMMA HandledType ==
  ASSUME hand \in Message \cup {None}, hand # None, NEW w \in {"done", "left"},
         hand' = [hand EXCEPT !.as = w]
  PROVE  hand' \in Message \cup {None} /\ hand' # None /\ hand'.event = hand.event /\ hand'.as = w
<1>1. PICK e \in Event, a \in {"foreign", "cancelled", "terminal", "superseded", "current",
                             "done", "left"} : hand = [event |-> e, as |-> a]
  BY DEF Message
<1>2. hand' = [event |-> e, as |-> w]
  BY <1>1
<1>3. hand' \in Message
  BY <1>2 DEF Message
<1> QED  BY <1>1, <1>2, <1>3, ControlAssumption

LEMMA QuarantineType ==
  ASSUME ControlTypeOK, hand # None, NEW j \in Job, Quarantines(j)
  PROVE  /\ log' \in Logs /\ hand' \in Message \cup {None} /\ hand' # None
         /\ hand'.event = hand.event /\ hand'.as \in {"done", "left"}
         /\ \A i \in Job : log'[i] \subseteq log[i] \cup {"quarantined"}
         /\ \A i \in Job : log[i] \subseteq log'[i]
         /\ UNCHANGED <<ready, phase, stageFile, activeFile>>
<1>0. log \in Logs /\ hand \in Message \cup {None}
  BY DEF ControlTypeOK, Logs
<1>1. CASE Admits(j[2])
  BY <1>0, <1>1, SaysType, HandledType DEF Quarantines, Handled
<1>2. CASE ~Admits(j[2])
  BY <1>0, <1>2, HandledType DEF Quarantines, Handled
<1> QED  BY <1>1, <1>2

(* The job at work is a bout's.                                            *)
LEMMA ActiveIs ==
  ASSUME ControlTypeOK, RunFits
  PROVE  /\ phase # "none" => Active = activeFile[2] /\ Active \in Attempt /\ Active # 0
         /\ phase = "none" => Active = 0
         /\ Active # 0 => phase # "none"
         /\ phase # "none" => JobOf(activeFile) = <<"bout", Active>> /\ <<"bout", Active>> \in Job
<1>1. CASE phase = "none"
  BY <1>1 DEF Active
<1>2. CASE phase # "none"
  <2>1. activeFile \in Event /\ activeFile[1] # "preload"
    BY <1>2 DEF ControlTypeOK, RunFits
  <2> QED  BY <1>2, <2>1, EventFields, AttemptEvents DEF Active, RunFits, Kind
<1> QED  BY <1>1, <1>2

LEMMA TypeStep ==
  ASSUME ControlInv, Next
  PROVE  ControlTypeOK'
<1> USE Bounds
<1>0. ControlTypeOK /\ RunFits /\ HandQueued /\ Managed /\ CleanIsOver
  BY DEF ControlInv
<1>1. ASSUME NEW s \in Server, Crash(s) PROVE ControlTypeOK'
  <2>1. doing' \in [Server -> Managers] /\ mine' \in [Server -> 0..MaxAttempt]
    BY <1>0, <1>1, ManagerType DEF Crash, ControlTypeOK, Managers
  <2>2. sending' \in [Server -> 0..MaxAttempt] /\ alive' \subseteq Server /\ clean' \subseteq Server
    BY <1>0, <1>1 DEF Crash, ControlTypeOK
  <2> QED  BY <1>0, <1>1, <2>1, <2>2 DEF Crash, durable, sqs, agent, ControlTypeOK, Managers
<1>2. ASSUME NEW s \in Server, Preload(s) PROVE ControlTypeOK'
  BY <1>0, <1>2, AttemptEvents DEF Preload, Idle, Writes, sqs, server, agent,
    ControlTypeOK, Attempt, Kind, Managed
<1>3. ASSUME NEW s \in Server, AgentReady(s) PROVE ControlTypeOK'
  BY <1>0, <1>3 DEF AgentReady, Idle, sqs, server, agent, ControlTypeOK,
    Attempt
<1>4. ASSUME NEW s \in Server, Rotate(s) PROVE ControlTypeOK'
  <2>1. slot' \in [attempt : 1..(MaxAttempt + 1), claim : {"free", "held", "cleaning"}]
    BY <1>0, <1>4 DEF Rotate, Idle, Moves, ControlTypeOK, Attempt
  <2> QED  BY <1>0, <1>4, <2>1 DEF Rotate, sqs, server, agent, ControlTypeOK
<1>5. ASSUME NEW s \in Server, ClaimReady(s) PROVE ControlTypeOK'
  <2>1. slot' \in [attempt : 1..(MaxAttempt + 1), claim : {"free", "held", "cleaning"}]
    BY <1>0, <1>5 DEF ClaimReady, Idle, Moves, ControlTypeOK, Attempt
  <2>2. doing' \in [Server -> Managers] /\ mine' \in [Server -> 0..MaxAttempt]
    BY <1>0, <1>5, ManagerType, SMTT(30) DEF ClaimReady, Idle, ControlTypeOK, Managers, Attempt
  <2> QED  BY <1>0, <1>5, <2>1, <2>2 DEF ClaimReady, sqs, agent, ControlTypeOK, Managers
<1>6. ASSUME NEW s \in Server, ReturnUnstarted(s) PROVE ControlTypeOK'
  <2>1. slot' \in [attempt : 1..(MaxAttempt + 1), claim : {"free", "held", "cleaning"}]
    BY <1>0, <1>6 DEF ReturnUnstarted, Holds, Moves, ControlTypeOK
  <2>2. doing' \in [Server -> Managers] /\ mine' \in [Server -> 0..MaxAttempt]
    BY <1>0, <1>6, ManagerType DEF ReturnUnstarted, ControlTypeOK, Managers
  <2> QED  BY <1>0, <1>6, <2>1, <2>2 DEF ReturnUnstarted, sqs, agent, ControlTypeOK, Managers
<1>7. ASSUME NEW s \in Server, Stage(s) PROVE ControlTypeOK'
  <2>1. mine[s] \in Attempt
    BY <1>0, <1>7 DEF Stage, Managed, ControlTypeOK, Attempt
  <2>2. <<"stage", mine[s]>> \in Event
    BY <2>1, AttemptEvents DEF Kind
  <2>3. row' \in [Event -> {"none", "due", "done"}]
    BY <1>0, <1>7, <2>2 DEF Stage, Writes, ControlTypeOK
  <2> QED  BY <1>0, <1>7, <2>1, <2>3 DEF Stage, Manager, sqs, agent, ControlTypeOK, Attempt
<1>8. ASSUME NEW s \in Server, Ring(s) PROVE ControlTypeOK'
  BY <1>0, <1>8, AttemptEvents DEF Ring, Holds, Writes, Manager, sqs, agent,
    ControlTypeOK, Attempt, Kind, Managed
<1>9. ASSUME NEW s \in Server, Open(s) PROVE ControlTypeOK'
  BY <1>0, <1>9 DEF Open, Manager, durable, sqs, agent, ControlTypeOK, Attempt
<1>10. ASSUME NEW s \in Server, EndBout(s) PROVE ControlTypeOK'
  <2>1. slot' \in [attempt : 1..(MaxAttempt + 1), claim : {"free", "held", "cleaning"}]
    <3>1. CASE Holds(s)
      <4>1. mine[s] = slot.attempt /\ slot.attempt \in 1..(MaxAttempt + 1)
        BY <1>0, <3>1 DEF Holds, ControlTypeOK
      <4> QED  BY <1>10, <3>1, <4>1 DEF EndBout, Moves
    <3>2. CASE ~Holds(s)
      BY <1>0, <1>10, <3>2 DEF EndBout, ControlTypeOK
    <3> QED  BY <3>1, <3>2
  <2>2. /\ doing' \in [Server -> {"idle", "arming", "waiting", "rung", "racing"}]
        /\ mine' \in [Server -> 0..MaxAttempt]
    BY <1>0, <1>10, ManagerType DEF EndBout, ControlTypeOK, Managers
  <2> QED  BY <1>0, <1>10, <2>1, <2>2 DEF EndBout, sqs, agent, ControlTypeOK
<1>11. ASSUME NEW s \in Server, TakeOver(s) PROVE ControlTypeOK'
  BY <1>0, <1>11 DEF TakeOver, Holds, Moves, sqs, server, agent, ControlTypeOK,
    Attempt, Managed
<1>12. ASSUME NEW s \in Server, Cancel(s) PROVE ControlTypeOK'
  <2>1. slot.attempt \in Attempt
    BY <1>0, <1>12 DEF Cancel, Managed
  <2>2. <<"cancel", slot.attempt>> \in Event /\ <<"release", slot.attempt>> \in Event
    BY <2>1, AttemptEvents DEF Kind
  <2>3. row' \in [Event -> {"none", "due", "done"}]
    BY <1>0, <1>12, <2>2 DEF Cancel, ControlTypeOK
  <2>4. /\ doing' \in [Server -> {"idle", "arming", "waiting", "rung", "racing"}]
        /\ mine' \in [Server -> 0..MaxAttempt]
    BY <1>0, <1>12, ManagerType DEF Cancel, ControlTypeOK, Managers
  <2> QED  BY <1>0, <1>12, <2>3, <2>4 DEF Cancel, sqs, agent, ControlTypeOK
<1>13. ASSUME NEW s \in Server, Reconcile(s) PROVE ControlTypeOK'
  BY <1>0, <1>13 DEF Reconcile, Handed, durable, sqs, agent, ControlTypeOK,
    Attempt
<1>14. ASSUME NEW s \in Server, Finish(s) PROVE ControlTypeOK'
  <2>1. slot.attempt \in 1..MaxAttempt
    BY <1>0, <1>14 DEF Finish, CleanIsOver, Managed, Attempt
  <2>2. slot' \in [attempt : 1..(MaxAttempt + 1), claim : {"free", "held", "cleaning"}]
    BY <1>14, <2>1 DEF Finish, Moves
  <2> QED  BY <1>0, <1>14, <2>2 DEF Finish, sqs, agent, ControlTypeOK
<1>15. ASSUME NEW s \in Server, Dispatch(s) PROVE ControlTypeOK'
  BY <1>0, <1>15 DEF Dispatch, durable, sqs, agent, ControlTypeOK, Attempt
<1>16. ASSUME NEW s \in Server, Send(s) PROVE ControlTypeOK'
  <2>1. sending[s] \in Attempt
    BY <1>0, <1>16 DEF Send, ControlTypeOK, Attempt
  <2>2. <<"release", sending[s]>> \in Event
    BY <2>1, AttemptEvents DEF Kind
  <2>3. queue' \in [Job -> Seq(Kind)] /\ posted' \subseteq Event
    <3>1. CASE Posts(<<"release", sending[s]>>)
      BY <1>0, <2>2, <3>1, QueuePosts
    <3> QED  BY <1>0, <1>16, <3>1 DEF Send, Publishes
  <2>4. row' \in [Event -> {"none", "due", "done"}]
    BY <1>0, <1>16, <2>2 DEF Send, Publishes, ControlTypeOK
  <2> QED  BY <1>0, <1>16, <2>3, <2>4 DEF Send, Publishes, agent, ControlTypeOK
<1>17. ASSUME NEW s \in Server, SendFails(s) PROVE ControlTypeOK'
  <2>1. sending[s] \in Attempt
    BY <1>0, <1>17 DEF SendFails, ControlTypeOK, Attempt
  <2>2. <<"release", sending[s]>> \in Event
    BY <2>1, AttemptEvents DEF Kind
  <2>3. queue' \in [Job -> Seq(Kind)] /\ posted' \subseteq Event
    <3>1. CASE Posts(<<"release", sending[s]>>)
      BY <1>0, <2>2, <3>1, QueuePosts
    <3> QED  BY <1>0, <1>17, <3>1 DEF SendFails, sqs, ControlTypeOK
  <2>4. row' \in [Event -> {"none", "due", "done"}]
    BY <1>0, <1>17, <2>2 DEF SendFails, durable, ControlTypeOK
  <2> QED  BY <1>0, <1>17, <2>3, <2>4 DEF SendFails, durable, agent, ControlTypeOK
<1>18. ASSUME NEW s \in Server, Forget(s) PROVE ControlTypeOK'
  <2>1. doing' \in [Server -> Managers] /\ mine' \in [Server -> 0..MaxAttempt]
    BY <1>0, <1>18, ManagerType DEF Forget, ControlTypeOK, Managers
  <2> QED  BY <1>0, <1>18, <2>1 DEF Forget, durable, sqs, agent, ControlTypeOK, Managers
<1>19. ASSUME NEW s \in Server, NEW e \in Event,
              Publish(s, e)
       PROVE  ControlTypeOK'
  <2>1. queue' \in [Job -> Seq(Kind)] /\ posted' \subseteq Event
    <3>1. Posts(e)
      BY <1>19 DEF Publish, Publishes
    <3> QED  BY <1>0, <3>1, QueuePosts
  <2>2. row' \in [Event -> {"none", "due", "done"}]
    BY <1>0, <1>19 DEF Publish, Publishes, ControlTypeOK
  <2> QED  BY <1>0, <1>19, <2>1, <2>2 DEF Publish, server, agent, ControlTypeOK
<1>20. ASSUME NEW s \in Server, NEW a \in Attempt,
              Expire(s, a)
       PROVE  ControlTypeOK'
  <2>1. <<"release", a>> \in Event
    BY AttemptEvents DEF Kind
  <2>2. row' \in [Event -> {"none", "due", "done"}]
    BY <1>0, <1>20, <2>1 DEF Expire, ControlTypeOK
  <2> QED  BY <1>0, <1>20, <2>2 DEF Expire, sqs, server, agent, ControlTypeOK
<1>21. CASE AgentCrash
  <2>1. queue' \in [Job -> Seq(Kind)]
    BY <1>0, <1>21, QueueTakes DEF AgentCrash, Returned, Takes, ControlTypeOK
  <2>2. boot' \in 1..MaxBoot
    BY <1>0, <1>21 DEF AgentCrash, Reboots, ControlTypeOK
  <2> QED  BY <1>0, <1>21, <2>1, <2>2 DEF AgentCrash, Reboots, durable, server, ControlTypeOK
<1>22. CASE RecoverJob
  <2>1. JobOf(activeFile) \in Job
    BY <1>0, <1>22, EventFields DEF RecoverJob, ControlTypeOK
  <2>2. log' \in Logs
    BY <1>0, <1>22, <2>1, SaysType DEF RecoverJob, ControlTypeOK, Logs
  <2> QED  BY <1>0, <1>22, <2>2 DEF RecoverJob, sqs, server, ControlTypeOK, Logs
<1>23. CASE RemoveFiles
  BY <1>0, <1>23 DEF RemoveFiles, durable, sqs, server, ControlTypeOK, Attempt
<1>24. CASE RecoverStage
  <2>1. ready' \in [Attempt -> 0..MaxBoot] /\ stageFile' \in Job \cup {None}
    <3>1. boot \in 0..MaxBoot /\ ready \in [Attempt -> 0..MaxBoot] /\ stageFile \in Job \cup {None}
      BY <1>0 DEF ControlTypeOK
    <3> QED  BY <1>24, <3>1 DEF RecoverStage
  <2> QED  BY <1>0, <1>24, <2>1 DEF RecoverStage, sqs, server, ControlTypeOK
<1>25. ASSUME NEW j \in Job, Receive(j) PROVE ControlTypeOK'
  <2>1. <<Head(queue[j]), j[2]>> \in Event
    BY <1>0, <1>25, Queues, JobFields DEF Receive, ControlTypeOK, Event, Kind
  <2>2. hand' \in Message
    BY <1>25, <2>1 DEF Receive, Classifies, Disposition, Message
  <2> QED  BY <1>0, <1>25, <2>2 DEF Receive, durable, sqs, server, ControlTypeOK
<1>26. CASE Acknowledge
  BY <1>0, <1>26, QueueTakes DEF Acknowledge, durable, server, ControlTypeOK,
    Attempt, Takes, HandQueued
<1>27. CASE Leave
  BY <1>0, <1>27, QueueTakes DEF Leave, Returned, durable, server,
    ControlTypeOK, Attempt, Takes, HandQueued
<1>28. CASE Revoked
  <2>1. hand' \in Message \cup {None}
    BY <1>0, <1>28, HandledType DEF Revoked, Handled, ControlTypeOK
  <2> QED  BY <1>0, <1>28, <2>1 DEF Revoked, durable, sqs, server, ControlTypeOK
<1>29. CASE Discard
  <2>1. hand' \in Message \cup {None}
    BY <1>0, <1>29, HandledType DEF Discard, Handled, ControlTypeOK
  <2> QED  BY <1>0, <1>29, <2>1 DEF Discard, DiscardsResidue, durable, sqs, server, ControlTypeOK
<1>30. CASE Foreign
  <2>1. JobOf(hand.event) \in Job
    BY <1>0, <1>30, HandFields DEF Foreign
  <2> QED  BY <1>0, <1>30, <2>1, QuarantineType DEF Foreign, sqs, server, ControlTypeOK, Logs
<1>31. CASE ObeysPreload
  <2>0. hand.event \in Event /\ hand.event[2] \in Attempt /\ hand # None /\ hand \in Message \cup {None} /\ log \in Logs
    BY <1>0, <1>31, HandFields DEF ObeysPreload, Obeying, ControlTypeOK, Logs
  <2>1. <<"bout", hand.event[2]>> \in Job /\ <<"warm", hand.event[2]>> \in Job
    BY <2>0 DEF Job
  <2>2. UNCHANGED <<slot, row, bound, sqs, server, boot, at>>
    BY <1>31 DEF ObeysPreload, Obeying
  <2>3. ASSUME Quarantines(<<"warm", hand.event[2]>>) PROVE ControlTypeOK'
    BY <1>0, <2>0, <2>1, <2>2, <2>3, QuarantineType DEF sqs, server, ControlTypeOK, Logs
  <2>4. ASSUME Handled PROVE hand' \in Message \cup {None}
    BY <2>0, <2>4, HandledType DEF Handled
  <2>5. CASE Active = 0
    <3>1. hand' \in Message \cup {None}
      BY <1>31, <2>4, <2>5 DEF ObeysPreload, ObeyPreload
    <3>a. boot \in 0..MaxBoot /\ ready \in [Attempt -> 0..MaxBoot]
      BY <1>0 DEF ControlTypeOK
    <3>2. ready' \in [Attempt -> 0..MaxBoot] /\ stageFile' \in Job \cup {None}
      BY <1>31, <2>0, <2>1, <2>5, <3>a DEF ObeysPreload, ObeyPreload
    <3>3. UNCHANGED <<log, phase, activeFile>>
      BY <1>31, <2>5 DEF ObeysPreload, ObeyPreload
    <3> QED  BY <1>0, <2>2, <3>1, <3>2, <3>3 DEF sqs, server, ControlTypeOK
  <2> QED  BY <1>31, <2>3, <2>5 DEF ObeysPreload, ObeyPreload
<1>32. CASE ObeysStage
  <2>0. hand.event \in Event /\ hand.event[2] \in Attempt /\ hand # None /\ hand \in Message \cup {None} /\ log \in Logs
    BY <1>0, <1>32, HandFields DEF ObeysStage, Obeying, ControlTypeOK, Logs
  <2>1. <<"bout", hand.event[2]>> \in Job /\ <<"warm", hand.event[2]>> \in Job
    BY <2>0 DEF Job
  <2>2. UNCHANGED <<slot, row, bound, sqs, server, boot, at>>
    BY <1>32 DEF ObeysStage, Obeying
  <2>3. ASSUME Quarantines(<<"bout", hand.event[2]>>) PROVE ControlTypeOK'
    BY <1>0, <2>0, <2>1, <2>2, <2>3, QuarantineType DEF sqs, server, ControlTypeOK, Logs
  <2>4. ASSUME Handled PROVE hand' \in Message \cup {None}
    BY <2>0, <2>4, HandledType DEF Handled
  <2>5. CASE Pool = hand.event[2]
    <3>1. hand' \in Message \cup {None}
      BY <1>32, <2>4, <2>5 DEF ObeysStage, ObeyStage
    <3>2. <<"stage", hand.event[2]>> \in Event
      BY <2>0, AttemptEvents DEF Kind
    <3>3. /\ stageFile' = <<"bout", hand.event[2]>> /\ phase' = "preparing"
          /\ activeFile' = <<"stage", hand.event[2]>> /\ UNCHANGED <<log, ready>>
      BY <1>32, <2>5 DEF ObeysStage, ObeyStage
    <3> QED  BY <1>0, <2>1, <2>2, <3>1, <3>2, <3>3 DEF sqs, server, ControlTypeOK
  <2> QED  BY <1>32, <2>3, <2>5 DEF ObeysStage, ObeyStage
<1>33. CASE ObeysRelease
  <2>0. hand.event \in Event /\ hand.event[2] \in Attempt /\ hand # None /\ hand \in Message \cup {None} /\ log \in Logs
    BY <1>0, <1>33, HandFields DEF ObeysRelease, Obeying, ControlTypeOK, Logs
  <2>1. <<"bout", hand.event[2]>> \in Job /\ <<"warm", hand.event[2]>> \in Job
    BY <2>0 DEF Job
  <2>2. UNCHANGED <<slot, row, bound, sqs, server, boot, at>>
    BY <1>33 DEF ObeysRelease, Obeying
  <2>3. ASSUME Quarantines(<<"bout", hand.event[2]>>) PROVE ControlTypeOK'
    BY <1>0, <2>0, <2>1, <2>2, <2>3, QuarantineType DEF sqs, server, ControlTypeOK, Logs
  <2>4. ASSUME Handled PROVE hand' \in Message \cup {None}
    BY <2>0, <2>4, HandledType DEF Handled
  <2>5. CASE ~Quarantines(<<"bout", hand.event[2]>>)
    <3>1. hand' \in Message \cup {None}
      BY <1>33, <2>4, <2>5 DEF ObeysRelease, ObeyRelease
    <3>2. <<"release", hand.event[2]>> \in Event
      BY <2>0, AttemptEvents DEF Kind
    <3>3. /\ stageFile' \in Job \cup {None} /\ activeFile' \in Event \cup {None}
          /\ phase' \in {"none", "preparing", "prepared", "open", "ended", "quiet"}
          /\ UNCHANGED <<log, ready>>
      BY <1>0, <1>33, <2>5, <3>2 DEF ObeysRelease, ObeyRelease, DiscardsResidue, ControlTypeOK
    <3> QED  BY <1>0, <2>2, <3>1, <3>3 DEF sqs, server, ControlTypeOK
  <2> QED  BY <2>3, <2>5
<1>34. CASE ObeysCancel
  <2>0. hand.event \in Event /\ hand.event[2] \in Attempt /\ hand # None /\ hand \in Message \cup {None} /\ log \in Logs
    BY <1>0, <1>34, HandFields DEF ObeysCancel, Obeying, ControlTypeOK, Logs
  <2>1. <<"bout", hand.event[2]>> \in Job /\ <<"warm", hand.event[2]>> \in Job
    BY <2>0 DEF Job
  <2>2. UNCHANGED <<slot, row, bound, sqs, server, boot, at>>
    BY <1>34 DEF ObeysCancel, Obeying
  <2>3. ASSUME Quarantines(<<"bout", hand.event[2]>>) PROVE ControlTypeOK'
    BY <1>0, <2>0, <2>1, <2>2, <2>3, QuarantineType DEF sqs, server, ControlTypeOK, Logs
  <2>4. ASSUME Handled PROVE hand' \in Message \cup {None}
    BY <2>0, <2>4, HandledType DEF Handled
  <2>5. CASE Active = hand.event[2]
    <3>1. hand' \in Message \cup {None}
      BY <1>34, <2>4, <2>5 DEF ObeysCancel, ObeyCancel
    <3>2. phase' = "ended" /\ UNCHANGED <<log, ready, stageFile, activeFile>>
      BY <1>34, <2>5 DEF ObeysCancel, ObeyCancel
    <3> QED  BY <1>0, <2>2, <3>1, <3>2 DEF sqs, server, ControlTypeOK
  <2> QED  BY <1>34, <2>3, <2>5 DEF ObeysCancel, ObeyCancel
<1>35. CASE Prepare
  <2>1. <<"bout", Active>> \in Job
    BY <1>0, <1>35, ActiveIs DEF Prepare
  <2>2. log' \in Logs
    <3>1. log \in Logs
      BY <1>0 DEF ControlTypeOK, Logs
    <3> QED  BY <1>35, <2>1, <3>1, SaysType DEF Prepare
  <2> QED  BY <1>0, <1>35, <2>2 DEF Prepare, sqs, server, ControlTypeOK, Logs
<1>36. CASE TaskEnds
  BY <1>0, <1>36 DEF TaskEnds, durable, sqs, server, ControlTypeOK, Attempt
<1>37. CASE StopPool
  BY <1>0, <1>37 DEF StopPool, Admits, durable, sqs, server, ControlTypeOK,
    Attempt, RunFits, Active, Job
<1>38. CASE Settle
  <2>1. <<"bout", Active>> \in Job
    BY <1>0, <1>38, ActiveIs DEF Settle
  <2>2. log' \in Logs
    <3>1. log \in Logs
      BY <1>0 DEF ControlTypeOK, Logs
    <3> QED  BY <1>38, <2>1, <3>1, SaysType DEF Settle
  <2> QED  BY <1>0, <1>38, <2>2 DEF Settle, sqs, server, ControlTypeOK, Logs
<1>39. CASE Exit
  <2>1. boot' \in 1..MaxBoot
    BY <1>0, <1>39 DEF Exit, Reboots, ControlTypeOK
  <2> QED  BY <1>0, <1>39, <2>1 DEF Exit, Reboots, durable, sqs, server, ControlTypeOK
<1>40. CASE Heartbeat
  BY <1>0, <1>40 DEF Heartbeat, Admits, durable, sqs, server, ControlTypeOK,
    Attempt
<1> QED  BY ObeysOne, <1>1, <1>2, <1>3, <1>4, <1>5, <1>6, <1>7, <1>8, <1>9,
    <1>10, <1>11, <1>12, <1>13, <1>14, <1>15, <1>16, <1>17, <1>18, <1>19,
    <1>20, <1>21, <1>22, <1>23, <1>24, <1>25, <1>26, <1>27, <1>28, <1>29,
    <1>30, <1>31, <1>32, <1>33, <1>34, <1>35, <1>36, <1>37, <1>38, <1>39, <1>40
    DEF Next, Manages, Dispatcher, Agent

-----------------------------------------------------------------------------
(* What the server leaves alone, and what the agent does.                  *)
LEMMA ServerLeaves ==
  ASSUME NEW s \in Server, Crash(s) \/ Manages(s) \/ Dispatcher(s)
  PROVE  UNCHANGED <<agent, log>>
<1>1. Crash(s) => UNCHANGED <<agent, log>>
  BY DEF Crash, durable
<1>2. Manages(s) => UNCHANGED <<agent, log>>
  BY DEF Manages, Preload, AgentReady, Rotate, ClaimReady, ReturnUnstarted, Stage, Ring, Open,
    EndBout, TakeOver, Cancel, Reconcile, Finish, durable
<1>3. Dispatcher(s) => UNCHANGED <<agent, log>>
  BY DEF Dispatcher, Publish, Expire, Dispatch, Send, SendFails, Forget, durable
<1> QED  BY <1>1, <1>2, <1>3

LEMMA AgentLeaves ==
  ASSUME AgentCrash \/ Agent
  PROVE  UNCHANGED <<slot, row, server, posted>>
<1>1. AgentCrash => UNCHANGED <<slot, row, server, posted>>
  BY DEF AgentCrash, durable
<1>2. Obey => UNCHANGED <<slot, row, server, posted>>
  BY DEF Obey, sqs
<1> QED
  BY <1>1, <1>2 DEF Agent, RecoverJob, RemoveFiles, RecoverStage, Receive, Acknowledge, Leave,
    Revoked, Discard, Foreign, Prepare, TaskEnds, StopPool, Settle, Exit, Heartbeat, durable, sqs

(* A job that has settled stays so.                                        *)
LEMMA LogGrows ==
  ASSUME ControlTypeOK, RunFits, Next
  PROVE  \A j \in Job : log[j] \subseteq log'[j]
<1>0. log \in Logs
  BY DEF ControlTypeOK, Logs
<1>1. ASSUME NEW s \in Server, Crash(s) \/ Manages(s) \/ Dispatcher(s) PROVE log' = log
  BY <1>1, ServerLeaves
<1>2. ASSUME NEW j \in Job, NEW w \in {"prepared", "settled", "quarantined"}, Says(j, w)
      PROVE  \A i \in Job : log[i] \subseteq log'[i]
  BY <1>0, <1>2, SaysType
<1>3. CASE RecoverJob
  <2>1. log' = log \/ (JobOf(activeFile) \in Job /\ Says(JobOf(activeFile), "settled"))
    BY <1>3, EventFields DEF RecoverJob, ControlTypeOK
  <2> QED  BY <1>2, <2>1
<1>4. CASE Foreign
  BY <1>4, HandFields, QuarantineType DEF Foreign
<1>5. CASE Obey
  <2>1. <<"bout", hand.event[2]>> \in Job /\ <<"warm", hand.event[2]>> \in Job
    BY <1>5, HandFields DEF Obey, Job
  <2>2. \/ log' = log \/ Quarantines(<<"bout", hand.event[2]>>)
        \/ Quarantines(<<"warm", hand.event[2]>>)
    BY <1>5 DEF Obey, ObeyPreload, ObeyStage, ObeyRelease, ObeyCancel
  <2> QED  BY <1>5, <2>1, <2>2, QuarantineType DEF Obey
<1>6. CASE Prepare \/ Settle
  <2>1. phase # "none" /\ <<"bout", Active>> \in Job
    BY <1>6, ActiveIs DEF Prepare, Settle
  <2> QED  BY <1>2, <1>6, <2>1 DEF Prepare, Settle
<1>7. CASE \/ AgentCrash \/ RemoveFiles \/ RecoverStage \/ (\E j \in Job : Receive(j))
           \/ Acknowledge \/ Leave \/ Revoked \/ Discard \/ TaskEnds \/ StopPool
           \/ Exit \/ Heartbeat
  BY <1>7 DEF AgentCrash, RemoveFiles, RecoverStage, Receive, Acknowledge, Leave, Revoked,
    Discard, TaskEnds, StopPool, Exit, Heartbeat, durable
<1> QED  BY <1>1, <1>3, <1>4, <1>5, <1>6, <1>7 DEF Next, Agent

(* What is obeyed or cannot be obeyed is handled, and settles nothing.     *)
LEMMA ObeyEffects ==
  ASSUME ControlTypeOK, Obey \/ Foreign
  PROVE  /\ hand # None /\ hand' # None /\ hand' \in Message
         /\ hand'.event = hand.event /\ hand'.as \in {"done", "left"}
         /\ \A i \in Job : log'[i] \subseteq log[i] \cup {"quarantined"}
         /\ UNCHANGED <<slot, row, bound, sqs, server, boot, at>>
<1>1. hand # None /\ UNCHANGED <<slot, row, bound, sqs, server, boot, at>>
  BY DEF Obey, Foreign
<1>2. \A j \in Job : Quarantines(j) =>
        /\ hand' # None /\ hand' \in Message /\ hand'.event = hand.event /\ hand'.as \in {"done", "left"}
        /\ \A i \in Job : log'[i] \subseteq log[i] \cup {"quarantined"}
  BY <1>1, QuarantineType
<1>3. (\E j \in Job : Quarantines(j)) \/ (Handled /\ log' = log)
  <2>1. JobOf(hand.event) \in Job /\ <<"bout", hand.event[2]>> \in Job
        /\ <<"warm", hand.event[2]>> \in Job
    BY <1>1, HandFields DEF Job
  <2> QED  BY <2>1 DEF Foreign, Obey, ObeyPreload, ObeyStage, ObeyRelease, ObeyCancel
<1>4. Handled => hand' # None /\ hand' \in Message /\ hand'.event = hand.event /\ hand'.as = "done"
  BY <1>1, HandFields, HandledType DEF Handled
<1> QED  BY <1>1, <1>2, <1>3, <1>4

(* The job at work and the files, after each kind that is obeyed.          *)
Files == <<phase, stageFile, activeFile>>

Warms(a) ==
  /\ Active = 0 /\ UNCHANGED <<phase, activeFile>>
  /\ stageFile' = None \/ (stageFile' = <<"warm", a>> /\ Admits(a))
Starts(a) ==
  /\ Pool = a /\ hand.event[1] = "stage"
  /\ stageFile' = <<"bout", a>> /\ phase' = "preparing" /\ activeFile' = <<"stage", a>>
Opens(a) ==
  /\ Active = a /\ phase \in {"prepared", "ended"} /\ Admits(a) /\ hand.event[1] = "release"
  /\ phase' = (IF phase = "prepared" THEN "open" ELSE phase)
  /\ activeFile' = <<"release", a>> /\ UNCHANGED stageFile
Drops(a) ==
  /\ Active = a /\ phase \in {"prepared", "ended"} /\ stageFile = <<"bout", a>>
  /\ phase' = "none" /\ activeFile' = None /\ stageFile' = None
Stops(a) == Active = a /\ phase' = "ended" /\ UNCHANGED <<stageFile, activeFile>>

LEMMA ObeyFiles ==
  ASSUME ControlTypeOK, Obey \/ Foreign, NEW a, a = hand.event[2]
  PROVE  /\ <<"stage", a>> \in Event /\ <<"release", a>> \in Event
         /\ <<"stage", a>> # None /\ <<"release", a>> # None
         /\ <<"bout", a>> \in Job /\ <<"warm", a>> \in Job
         /\ \/ UNCHANGED Files
            \/ /\ hand.as = "current"
               /\ Warms(a) \/ Starts(a) \/ Opens(a) \/ Drops(a) \/ Stops(a)
<1>1. a \in Attempt /\ hand.event \in Event
  BY HandFields DEF Obey, Foreign
<1>2. /\ <<"stage", a>> \in Event /\ <<"release", a>> \in Event
      /\ <<"bout", a>> \in Job /\ <<"warm", a>> \in Job
  BY <1>1 DEF Event, Kind, Job
<1>3. \A j : Quarantines(j) => UNCHANGED Files
  BY DEF Quarantines, Files
<1>4. ASSUME ObeysPreload PROVE UNCHANGED Files \/ Warms(a)
  BY <1>3, <1>4 DEF ObeysPreload, ObeyPreload, Warms
<1>5. ASSUME ObeysStage PROVE UNCHANGED Files \/ Starts(a)
  BY <1>3, <1>5 DEF ObeysStage, Obeying, ObeyStage, Starts
<1>6. ASSUME ObeysRelease PROVE UNCHANGED Files \/ Opens(a) \/ Drops(a)
  BY <1>3, <1>6 DEF ObeysRelease, Obeying, ObeyRelease, DiscardsResidue, Opens, Drops
<1>7. ASSUME ObeysCancel PROVE UNCHANGED Files \/ Stops(a)
  BY <1>3, <1>7 DEF ObeysCancel, ObeyCancel, Stops
<1>8. CASE Obey
  <2>1. hand.as = "current"
    BY <1>8 DEF Obey
  <2> QED  BY <1>2, <1>4, <1>5, <1>6, <1>7, <1>8, <2>1, ObeysOne, ControlAssumption
<1>9. CASE Foreign
  BY <1>2, <1>3, <1>9, ControlAssumption DEF Foreign
<1> QED  BY <1>8, <1>9

LEMMA RunStep ==
  ASSUME ControlInv, Next
  PROVE  RunFits'
<1>0. ControlTypeOK /\ RunFits
  BY DEF ControlInv
<1>1. ASSUME NEW s \in Server, Crash(s) \/ Manages(s) \/ Dispatcher(s) PROVE RunFits'
  BY <1>0, <1>1, ServerLeaves DEF agent, RunFits
<1>2. CASE AgentCrash
  BY <1>0, <1>2 DEF AgentCrash, Reboots, RunFits
<1>3. CASE RecoverJob
  BY <1>0, <1>3 DEF RecoverJob, RunFits
<1>4. CASE RemoveFiles
  BY <1>0, <1>4 DEF RemoveFiles, RunFits
<1>5. CASE RecoverStage
  BY <1>0, <1>5 DEF RecoverStage, RunFits
<1>6. ASSUME NEW j \in Job, Receive(j) PROVE RunFits'
  BY <1>0, <1>6 DEF Receive, RunFits
<1>7. CASE Acknowledge
  BY <1>0, <1>7 DEF Acknowledge, RunFits
<1>8. CASE Leave
  BY <1>0, <1>8 DEF Leave, RunFits
<1>9. CASE Revoked
  BY <1>0, <1>9 DEF Revoked, RunFits
<1>10. CASE Discard
  BY <1>0, <1>10 DEF Discard, DiscardsResidue, RunFits
<1>11. CASE Obey \/ Foreign
  <2>1. hand # None /\ hand' # None /\ at' = at
    BY <1>0, <1>11, ObeyEffects
  <2> DEFINE a == hand.event[2]
  <2>2. /\ <<"stage", a>> # None /\ <<"release", a>> # None
        /\ \/ UNCHANGED Files
           \/ Warms(a) \/ Starts(a) \/ Opens(a) \/ Drops(a) \/ Stops(a)
    BY <1>0, <1>11, ObeyFiles
  <2>3. Active = a => phase # "none"
    <3>1. a \in Attempt /\ a # 0
      BY <1>0, <2>1, HandFields, EventFields
    <3> QED  BY <3>1 DEF Active
  <2> HIDE DEF a
  <2>4. CASE UNCHANGED Files
    BY <1>0, <2>1, <2>4 DEF RunFits, Files
  <2>5. CASE Warms(a) \/ Starts(a)
    BY <1>0, <2>1, <2>2, <2>5 DEF RunFits, Warms, Starts
  <2>6. CASE Opens(a) \/ Drops(a) \/ Stops(a)
    BY <1>0, <2>1, <2>2, <2>3, <2>6 DEF RunFits, Opens, Drops, Stops
  <2> QED  BY <2>2, <2>4, <2>5, <2>6
<1>12. CASE Prepare
  BY <1>0, <1>12 DEF Prepare, RunFits
<1>13. CASE TaskEnds
  BY <1>0, <1>13 DEF TaskEnds, RunFits
<1>14. CASE StopPool
  BY <1>0, <1>14 DEF StopPool, RunFits
<1>15. CASE Settle
  BY <1>0, <1>15 DEF Settle, RunFits
<1>16. CASE Exit
  BY <1>0, <1>16 DEF Exit, Reboots, RunFits
<1>17. CASE Heartbeat
  BY <1>0, <1>17 DEF Heartbeat, RunFits
<1> QED  BY <1>1, <1>2, <1>3, <1>4, <1>5, <1>6, <1>7, <1>8, <1>9, <1>10, <1>11, <1>12, <1>13,
    <1>14, <1>15, <1>16, <1>17 DEF Next, Agent

(* What is posted, and what is taken.                                      *)
LEMMA ServerPosts ==
  ASSUME ControlTypeOK, NEW s \in Server, Crash(s) \/ Manages(s) \/ Dispatcher(s)
  PROVE  \/ queue' = queue
         \/ \E e \in Event : Posts(e) /\ row[e] # "none"
         \/ sending[s] \in Attempt /\ Posts(<<"release", sending[s]>>)
<1>1. CASE Crash(s) \/ Manages(s)
  BY <1>1 DEF Crash, Manages, Preload, AgentReady, Rotate, ClaimReady, ReturnUnstarted, Stage,
    Ring, Open, EndBout, TakeOver, Cancel, Reconcile, Finish, sqs
<1>2. CASE sending[s] # 0 /\ (Send(s) \/ SendFails(s))
  <2>1. sending[s] \in Attempt
    BY <1>2 DEF ControlTypeOK, Attempt
  <2> QED  BY <1>2, <2>1 DEF Send, SendFails, Publishes, sqs
<1>3. CASE \/ \E e \in Event : Publish(s, e)
           \/ (\E a \in Attempt : Expire(s, a)) \/ Dispatch(s) \/ Forget(s)
  BY <1>3 DEF Publish, Publishes, Expire, Dispatch, Forget, sqs
<1> QED  BY <1>1, <1>2, <1>3 DEF Dispatcher, Send, SendFails

LEMMA ReleasePosts == ASSUME NEW a \in Attempt PROVE <<"release", a>> \in Event
BY AttemptEvents DEF Kind

LEMMA AgentTakes ==
  ASSUME AgentCrash \/ Agent
  PROVE  queue' = queue \/ (hand # None /\ hand' = None /\ Takes)
<1>1. CASE AgentCrash \/ Acknowledge \/ Leave
  BY <1>1 DEF AgentCrash, Reboots, Acknowledge, Leave, Returned, Takes
<1>2. CASE Obey
  BY <1>2 DEF Obey, sqs
<1> QED
  BY <1>1, <1>2 DEF Agent, RecoverJob, RemoveFiles, RecoverStage, Receive, Revoked, Discard,
    Foreign, Prepare, TaskEnds, StopPool, Settle, Exit, Heartbeat, durable, sqs

(* What is received belongs to the job it was received for.                *)
LEMMA Received ==
  ASSUME ControlTypeOK, QueueFits, NEW j \in Job, Receive(j)
  PROVE  /\ hand' # None /\ hand'.event \in Event /\ JobOf(hand'.event) = j
         /\ hand'.event = <<Head(queue[j]), j[2]>> /\ Within(Head(queue[j]), queue[j])
         /\ hand'.as = Classifies(hand'.event)
<1>1. /\ queue[j] # <<>> /\ queue[j] \in Seq(Kind)
      /\ hand' = [event |-> <<Head(queue[j]), j[2]>>, as |-> Classifies(<<Head(queue[j]), j[2]>>)]
  BY DEF Receive, ControlTypeOK
<1>2. "stage" \in Kind
  BY DEF Kind
<1>3. Head(queue[j]) \in Kind /\ Within(Head(queue[j]), queue[j])
  BY <1>1, <1>2, Queues
<1>4. hand'.event = <<Head(queue[j]), j[2]>> /\ hand'.event \in Event
  BY <1>1, <1>3, JobFields DEF Event
<1>5. JobOf(hand'.event) = j
  BY <1>3, <1>4, JobFields DEF JobOf, QueueFits
<1>6. hand' \in Message
  <2>1. \A e : Classifies(e) \in {"foreign", "cancelled", "terminal", "superseded", "current", "done", "left"}
    BY DEF Classifies, Disposition
  <2> QED  BY <1>1, <1>4, <2>1 DEF Message
<1> QED  BY <1>1, <1>3, <1>4, <1>5, <1>6, ControlAssumption

(* What becomes of the message in hand.                                    *)
LEMMA HandSteps ==
  ASSUME ControlTypeOK, RunFits, AgentCrash \/ Agent
  PROVE  \/ hand' = None
         \/ \E j \in Job : Receive(j)
         \/ /\ hand # None /\ hand' # None /\ hand'.event = hand.event
            /\ hand'.as \in {"done", "left"} /\ UNCHANGED queue
         \/ /\ UNCHANGED <<hand, queue>> /\ stageFile' \in {None, stageFile}
            /\ hand # None => \A j \in Job : log'[j] \subseteq log[j] \cup {"prepared"}
<1>1. CASE AgentCrash \/ Acknowledge \/ Leave \/ Exit
  BY <1>1 DEF AgentCrash, Reboots, Acknowledge, Leave, Exit
<1>2. CASE Revoked \/ Discard
  <2>1. hand # None /\ Handled /\ UNCHANGED queue
    BY <1>2 DEF Revoked, Discard, sqs
  <2> QED  BY <2>1, HandledType DEF Handled, ControlTypeOK
<1>3. CASE Obey \/ Foreign
  BY <1>3, ObeyEffects DEF sqs
<1>4. CASE Prepare
  <2>1. UNCHANGED <<hand, queue, stageFile>>
    BY <1>4 DEF Prepare, sqs
  <2>2. <<"bout", Active>> \in Job /\ log \in Logs
    BY <1>4, ActiveIs DEF Prepare, ControlTypeOK, Logs
  <2>3. \A j \in Job : log'[j] \subseteq log[j] \cup {"prepared"}
    BY <1>4, <2>2, SaysType DEF Prepare
  <2> QED  BY <2>1, <2>3
<1>5. CASE RecoverJob \/ RemoveFiles \/ RecoverStage
  BY <1>5 DEF RecoverJob, RemoveFiles, RecoverStage, RunFits
<1>6. CASE Settle
  BY <1>6 DEF Settle, RunFits
<1>7. CASE TaskEnds \/ StopPool \/ Heartbeat
  BY <1>7 DEF TaskEnds, StopPool, Heartbeat, durable, sqs
<1> QED  BY <1>1, <1>2, <1>3, <1>4, <1>5, <1>6, <1>7 DEF Agent

LEMMA QueuedStep ==
  ASSUME ControlInv, Next
  PROVE  HandQueued'
<1>0. ControlTypeOK /\ RunFits /\ HandQueued /\ QueueFits
  BY DEF ControlInv
<1>1. ASSUME NEW s \in Server, Crash(s) \/ Manages(s) \/ Dispatcher(s) PROVE HandQueued'
  <2>0. hand' = hand
    BY <1>1, ServerLeaves DEF agent
  <2>1. \A j \in Job : queue[j] # <<>> => queue'[j] # <<>>
    BY <1>0, <1>1, ServerPosts, QueuePosts, ReleasePosts
  <2> QED  BY <1>0, <2>0, <2>1, HandFields DEF HandQueued
<1>2. ASSUME NEW j \in Job, Receive(j) PROVE HandQueued'
  <2>1. queue[j] # <<>> /\ queue' = queue
    BY <1>2 DEF Receive, sqs
  <2> QED  BY <1>0, <1>2, <2>1, Received DEF HandQueued
<1>3. CASE AgentCrash \/ Agent
  BY <1>0, <1>2, <1>3, HandSteps DEF HandQueued, JobOf
<1> QED  BY <1>1, <1>3 DEF Next

LEMMA FitsStep ==
  ASSUME ControlInv, Next
  PROVE  QueueFits'
<1>0. ControlTypeOK /\ HandQueued /\ QueueFits
  BY DEF ControlInv
<1>1. ASSUME NEW s \in Server, Crash(s) \/ Manages(s) \/ Dispatcher(s) PROVE QueueFits'
  <2>1. ASSUME NEW e \in Event, Posts(e) PROVE QueueFits'
    <3>1. JobOf(e)[1] = "warm" <=> e[1] = "preload"
      BY DEF JobOf
    <3>2. \A j \in Job : \A k : Within(k, queue'[j]) =>
            Within(k, queue[j]) \/ (j = JobOf(e) /\ k = e[1])
      BY <1>0, <2>1, QueuePosts
    <3> QED  BY <1>0, <3>1, <3>2 DEF QueueFits
  <2> QED  BY <1>0, <1>1, <2>1, ServerPosts, ReleasePosts DEF QueueFits
<1>2. CASE AgentCrash \/ Agent
  BY <1>0, <1>2, AgentTakes, QueueTakes DEF QueueFits
<1> QED  BY <1>1, <1>2 DEF Next

(* The attempts the slot names only grow.                                  *)
LEMMA SlotGrows ==
  ASSUME ControlTypeOK, Next
  PROVE  slot'.attempt >= slot.attempt /\ slot'.attempt \in Nat
<1>0. slot.attempt \in Nat
  BY Bounds DEF ControlTypeOK
<1>1. ASSUME NEW s \in Server, Rotate(s) \/ Finish(s) PROVE slot'.attempt = slot.attempt + 1
  BY <1>1 DEF Rotate, Finish, Moves
<1>2. ASSUME NEW s \in Server, ClaimReady(s) PROVE slot'.attempt = slot.attempt
  BY <1>2 DEF ClaimReady, Moves
<1>3. ASSUME NEW s \in Server, ReturnUnstarted(s) \/ EndBout(s)
      PROVE  slot'.attempt = slot.attempt
  BY <1>3 DEF ReturnUnstarted, EndBout, Holds, Moves
<1>4. ASSUME NEW s \in Server, TakeOver(s) PROVE slot'.attempt = slot.attempt
  BY <1>4 DEF TakeOver, Moves
<1>5. ASSUME NEW s \in Server, \/ Crash(s) \/ Preload(s) \/ AgentReady(s) \/ Stage(s) \/ Ring(s)
                               \/ Open(s) \/ Cancel(s) \/ Reconcile(s)
      PROVE  slot' = slot
  BY <1>5 DEF Crash, Preload, AgentReady, Stage, Ring, Open, Cancel, Reconcile, durable
<1>6. ASSUME NEW s \in Server, Dispatcher(s) PROVE slot' = slot
  BY <1>6 DEF Dispatcher, Publish, Expire, Dispatch, Send, SendFails, Forget, durable
<1>7. CASE AgentCrash \/ Agent
  BY <1>7, <1>0, AgentLeaves
<1> QED  BY <1>0, <1>1, <1>2, <1>3, <1>4, <1>5, <1>6, <1>7 DEF Next, Manages

LEMMA UnsettledStep ==
  ASSUME ControlInv, Next
  PROVE  HandIsUnsettled'
<1>0. ControlTypeOK /\ RunFits /\ QueueFits /\ HandIsUnsettled /\ StageKnown
  BY DEF ControlInv
<1>1. slot'.attempt >= slot.attempt /\ slot'.attempt \in Nat /\ slot.attempt \in Nat
  BY <1>0, SlotGrows, Bounds DEF ControlTypeOK
<1>2. hand # None => hand.event[2] \in Nat /\ JobOf(hand.event) \in Job
  BY <1>0, HandFields, EventFields
<1>3. ASSUME NEW s \in Server, Crash(s) \/ Manages(s) \/ Dispatcher(s) PROVE HandIsUnsettled'
  <2>1. UNCHANGED <<hand, log, stageFile>>
    BY <1>3, ServerLeaves DEF agent
  <2> QED  BY <1>0, <1>1, <1>2, <2>1 DEF HandIsUnsettled
<1>4. ASSUME NEW j \in Job, Receive(j) PROVE HandIsUnsettled'
  <2>1. UNCHANGED <<log, stageFile, slot>>
    BY <1>4 DEF Receive, durable
  <2>2. hand'.as = "current" =>
          "settled" \notin log[JobOf(hand'.event)] /\ slot.attempt = hand'.event[2]
    BY <1>0, <1>4, Received DEF Classifies, Disposition
  <2> QED  BY <1>0, <1>1, <2>1, <2>2 DEF HandIsUnsettled, StageKnown
<1>5. CASE AgentCrash \/ Agent
  <2>1. slot' = slot
    BY <1>5, AgentLeaves
  <2>2. CASE hand' = None
    BY <2>2 DEF HandIsUnsettled
  <2>3. CASE hand # None /\ hand' # None /\ hand'.as \in {"done", "left"}
    BY <2>3 DEF HandIsUnsettled
  <2>4. CASE /\ UNCHANGED hand /\ stageFile' \in {None, stageFile}
             /\ hand # None => \A j \in Job : log'[j] \subseteq log[j] \cup {"prepared"}
    BY <1>0, <1>2, <2>1, <2>4 DEF HandIsUnsettled
  <2> QED  BY <1>0, <1>4, <1>5, <2>2, <2>3, <2>4, HandSteps
<1> QED  BY <1>3, <1>5 DEF Next

(* The pool is warmed for the attempt the slot names, and keeps it.        *)
LEMMA StageSteps ==
  ASSUME ControlTypeOK, RunFits, AgentCrash \/ Agent
  PROVE  \/ stageFile' \in {None, stageFile}
         \/ stageFile'[2] = slot.attempt
         \/ stageFile # None /\ stageFile'[2] = stageFile[2]
<1>1. CASE Obey \/ Foreign
  <2>1. hand # None /\ hand.event[2] # 0
    BY <1>1, HandFields, EventFields DEF Obey, Foreign
  <2>2. \/ UNCHANGED Files
        \/ Warms(hand.event[2]) \/ Starts(hand.event[2]) \/ Opens(hand.event[2])
        \/ Drops(hand.event[2]) \/ Stops(hand.event[2])
    BY <1>1, ObeyFiles
  <2>3. CASE Starts(hand.event[2])
    BY <2>1, <2>3 DEF Starts, Pool
  <2>4. CASE Warms(hand.event[2])
    BY <2>4 DEF Warms, Admits
  <2> QED  BY <2>2, <2>3, <2>4 DEF Opens, Drops, Stops, Files
<1>2. CASE AgentCrash \/ Exit \/ RemoveFiles \/ RecoverStage \/ Heartbeat \/ Discard
  BY <1>2 DEF AgentCrash, Exit, RemoveFiles, RecoverStage, Heartbeat, Discard, DiscardsResidue
<1>3. CASE \/ RecoverJob \/ (\E j \in Job : Receive(j)) \/ Acknowledge \/ Leave \/ Revoked
           \/ Prepare \/ TaskEnds \/ StopPool \/ Settle
  BY <1>3 DEF RecoverJob, Receive, Acknowledge, Leave, Revoked, Prepare, TaskEnds, StopPool,
    Settle
<1> QED  BY <1>1, <1>2, <1>3 DEF Agent

LEMMA StageStep ==
  ASSUME ControlInv, Next
  PROVE  StageKnown'
<1>0. ControlTypeOK /\ RunFits /\ StageKnown
  BY DEF ControlInv
<1>1. slot'.attempt >= slot.attempt /\ slot'.attempt \in Nat /\ slot.attempt \in Nat
  BY <1>0, SlotGrows, Bounds DEF ControlTypeOK
<1>2. stageFile # None => stageFile[2] \in Nat
  BY <1>0, JobFields DEF ControlTypeOK
<1>3. ASSUME NEW s \in Server, Crash(s) \/ Manages(s) \/ Dispatcher(s) PROVE StageKnown'
  <2>1. stageFile' = stageFile
    BY <1>3, ServerLeaves DEF agent
  <2> QED  BY <1>0, <1>1, <1>2, <2>1 DEF StageKnown
<1>4. CASE AgentCrash \/ Agent
  BY <1>0, <1>1, <1>2, <1>4, StageSteps, AgentLeaves DEF StageKnown
<1> QED  BY <1>3, <1>4 DEF Next

(* A job at work opens for the RELEASE of its attempt while the slot names *)
(* it, and for nothing else.                                               *)
LEMMA PhaseSteps ==
  ASSUME ControlTypeOK, RunFits, AgentCrash \/ Agent
  PROVE  \/ UNCHANGED <<phase, activeFile>>
         \/ phase' # "open"
         \/ /\ hand # None /\ hand.event[1] = "release"
            /\ activeFile' = hand.event /\ activeFile' # None /\ Admits(hand.event[2])
<1>1. CASE Obey \/ Foreign
  <2>1. hand # None /\ hand.event = <<hand.event[1], hand.event[2]>>
    BY <1>1, HandFields, EventFields DEF Obey, Foreign
  <2>2. /\ <<"release", hand.event[2]>> # None
        /\ \/ UNCHANGED Files
           \/ Warms(hand.event[2]) \/ Starts(hand.event[2]) \/ Opens(hand.event[2])
           \/ Drops(hand.event[2]) \/ Stops(hand.event[2])
    BY <1>1, ObeyFiles
  <2>3. CASE Opens(hand.event[2])
    BY <2>1, <2>2, <2>3 DEF Opens
  <2> QED  BY <2>2, <2>3 DEF Warms, Starts, Drops, Stops, Files
<1>2. CASE AgentCrash \/ Exit \/ RemoveFiles
  BY <1>2 DEF AgentCrash, Exit, Reboots, RemoveFiles, RunFits
<1>3. CASE Discard \/ Prepare \/ TaskEnds \/ StopPool
  BY <1>3 DEF Discard, DiscardsResidue, Prepare, TaskEnds, StopPool
<1>4. CASE \/ RecoverJob \/ RecoverStage \/ (\E j \in Job : Receive(j)) \/ Acknowledge \/ Leave
           \/ Revoked \/ Settle \/ Heartbeat
  BY <1>4 DEF RecoverJob, RecoverStage, Receive, Acknowledge, Leave, Revoked, Settle, Heartbeat
<1> QED  BY <1>1, <1>2, <1>3, <1>4 DEF Agent

(* A pool is warmed only when no job is at work; a STAGE makes a job of it.*)
LEMMA PoolSteps ==
  ASSUME ControlTypeOK, RunFits, AgentCrash \/ Agent, Active # 0,
         UNCHANGED <<phase, activeFile>>
  PROVE  Pool' = Pool \/ Pool' = 0
<1>1. phase # "none" /\ at # "down" /\ at # "clear"
  BY ActiveIs DEF RunFits
<1>2. CASE Obey \/ Foreign
  <2>1. at' = at /\ hand # None
    BY <1>2, ObeyEffects
  <2>2. \/ UNCHANGED Files
        \/ Warms(hand.event[2]) \/ Starts(hand.event[2]) \/ Opens(hand.event[2])
        \/ Drops(hand.event[2]) \/ Stops(hand.event[2])
    BY <1>2, ObeyFiles
  <2>3. CASE Starts(hand.event[2])
    BY <2>1, <2>3 DEF Starts, Pool
  <2> QED  BY <2>1, <2>2, <2>3 DEF Warms, Opens, Drops, Stops, Files, Pool
<1>3. CASE AgentCrash \/ Exit
  BY <1>3 DEF AgentCrash, Exit, Reboots, Pool
<1>4. CASE Discard \/ Heartbeat
  BY <1>4 DEF Discard, DiscardsResidue, Heartbeat, Pool
<1>5. CASE StopPool \/ Settle
  BY <1>5 DEF StopPool, Settle, Pool
<1>6. CASE \/ (\E j \in Job : Receive(j)) \/ Acknowledge \/ Leave \/ Revoked
           \/ Prepare \/ TaskEnds
  BY <1>6 DEF Receive, Acknowledge, Leave, Revoked, Prepare, TaskEnds, Pool
<1>7. CASE RecoverJob \/ RemoveFiles \/ RecoverStage
  BY <1>1, <1>7 DEF RecoverJob, RemoveFiles, RecoverStage
<1> QED  BY <1>2, <1>3, <1>4, <1>5, <1>6, <1>7 DEF Agent

(* What the servers do to the claim.                                       *)
Rests == UNCHANGED <<slot, doing, mine>>
MovesOn ==
  /\ slot'.attempt = slot.attempt + 1 /\ slot'.claim = "free" /\ UNCHANGED <<doing, mine>>
FencesIt ==
  /\ slot' = [attempt |-> slot.attempt, claim |-> "cleaning"] /\ slot.claim = "held"
  /\ UNCHANGED <<doing, mine>>
Claims(s) ==
  /\ slot.claim = "free" /\ slot.attempt \in Attempt /\ doing[s] = "idle"
  /\ slot' = [attempt |-> slot.attempt, claim |-> "held"]
  /\ Manager(s, "arming", slot.attempt)
Advances(s) ==
  /\ UNCHANGED slot /\ doing[s] # "idle"
  /\ \/ doing[s] = "arming" /\ Manager(s, "waiting", mine[s])
     \/ doing[s] = "waiting" /\ Manager(s, "rung", mine[s])
     \/ doing[s] = "rung" /\ Manager(s, "racing", mine[s])
LetsGo(s) ==
  /\ Manager(s, "idle", 0)
  /\ \/ UNCHANGED slot
     \/ /\ slot.claim = "held" /\ slot.attempt = mine[s]
        /\ \/ slot' = [attempt |-> slot.attempt, claim |-> "cleaning"]
           \/ doing[s] = "arming" /\ slot' = [attempt |-> slot.attempt, claim |-> "free"]

LEMMA ServerSteps ==
  ASSUME NEW s \in Server, Crash(s) \/ Manages(s) \/ Dispatcher(s)
  PROVE  \/ Rests \/ FencesIt \/ Claims(s) \/ Advances(s) \/ LetsGo(s)
         \/ (Rotate(s) \/ Finish(s)) /\ MovesOn
<1>1. Crash(s) => LetsGo(s)
  BY DEF Crash, LetsGo, durable
<1>2. Preload(s) \/ AgentReady(s) \/ Reconcile(s) => Rests
  BY DEF Preload, AgentReady, Reconcile, Rests, durable, server
<1>3. Rotate(s) \/ Finish(s) => MovesOn
  BY DEF Rotate, Finish, Moves, MovesOn, server
<1>4. ClaimReady(s) => Claims(s)
  BY DEF ClaimReady, Idle, Moves, Claims
<1>5. ReturnUnstarted(s) => LetsGo(s)
  BY DEF ReturnUnstarted, Holds, Moves, LetsGo
<1>6. Stage(s) \/ Ring(s) \/ Open(s) => Advances(s)
  BY DEF Stage, Ring, Open, Advances, durable
<1>7. EndBout(s) => LetsGo(s) \/ FencesIt \/ Rests
  BY DEF EndBout, Holds, Moves, LetsGo, FencesIt, Rests
<1>8. TakeOver(s) => FencesIt
  BY DEF TakeOver, Moves, FencesIt, server
<1>9. Cancel(s) => LetsGo(s) \/ Rests
  BY DEF Cancel, LetsGo, Rests
<1>10. Forget(s) => LetsGo(s)
  BY DEF Forget, LetsGo, durable
<1>11. Dispatch(s) \/ Send(s) \/ SendFails(s) => Rests
  BY DEF Dispatch, Send, SendFails, Rests, durable
<1>12. (\E e \in Event : Publish(s, e)) \/ (\E a \in Attempt : Expire(s, a)) => Rests
  BY DEF Publish, Expire, Rests, server
<1> QED  BY <1>1, <1>2, <1>3, <1>4, <1>5, <1>6, <1>7, <1>8, <1>9, <1>10, <1>11, <1>12
         DEF Manages, Dispatcher

LEMMA ManagerIs ==
  ASSUME ControlTypeOK, NEW s \in Server, NEW d, NEW a, Manager(s, d, a)
  PROVE  /\ \A t \in Server : doing'[t] = IF t = s THEN d ELSE doing[t]
         /\ \A t \in Server : mine'[t] = IF t = s THEN a ELSE mine[t]
BY DEF Manager, ControlTypeOK

LEMMA SlotIs ==
  ASSUME ControlTypeOK
  PROVE  /\ slot.attempt \in Nat /\ slot.attempt >= 1 /\ slot.claim \in {"free", "held", "cleaning"}
         /\ \A s \in Server : mine[s] \in Nat
         /\ slot.attempt \in Attempt <=> slot.attempt <= MaxAttempt
BY Bounds DEF ControlTypeOK, Attempt

LEMMA ManagedStep ==
  ASSUME ControlInv, Next
  PROVE  Managed'
<1>0. ControlTypeOK /\ Managed /\ CleanIsOver
  BY DEF ControlInv
<1>1. CASE AgentCrash \/ Agent
  BY <1>0, <1>1, AgentLeaves DEF server, Managed
<1>2. /\ slot.attempt \in Nat /\ slot.attempt >= 1 /\ \A s \in Server : mine[s] \in Nat
  BY <1>0, SlotIs
<1>3. CASE Rests
  BY <1>0, <1>3 DEF Rests, Managed
<1>4. CASE FencesIt
  <2>1. /\ slot'.attempt = slot.attempt /\ slot'.claim = "cleaning" /\ slot.claim = "held"
        /\ UNCHANGED <<doing, mine>>
    BY <1>4 DEF FencesIt
  <2> QED  BY <1>0, <2>1 DEF Managed
<1>5. CASE MovesOn
  BY <1>0, <1>2, <1>5 DEF MovesOn, Managed
<1>6. ASSUME NEW s \in Server, Claims(s) PROVE Managed'
  <2>1. /\ slot.claim = "free" /\ slot.attempt \in Attempt
        /\ slot'.attempt = slot.attempt /\ slot'.claim = "held"
    BY <1>6 DEF Claims
  <2>2. /\ \A t \in Server : doing'[t] = IF t = s THEN "arming" ELSE doing[t]
        /\ \A t \in Server : mine'[t] = IF t = s THEN slot.attempt ELSE mine[t]
    BY <1>0, <1>6, ManagerIs DEF Claims
  <2> QED  BY <1>0, <1>2, <2>1, <2>2 DEF Managed
<1>7. ASSUME NEW s \in Server, Advances(s) PROVE Managed'
  <2>1. slot' = slot /\ doing[s] # "idle"
    BY <1>7 DEF Advances
  <2>2. PICK d \in {"waiting", "rung", "racing"} : Manager(s, d, mine[s])
    BY <1>7 DEF Advances
  <2>3. /\ \A t \in Server : doing'[t] = IF t = s THEN d ELSE doing[t]
        /\ \A t \in Server : mine'[t] = mine[t]
    BY <1>0, <2>2, ManagerIs
  <2> QED  BY <1>0, <2>1, <2>3 DEF Managed
<1>8. ASSUME NEW s \in Server, LetsGo(s) PROVE Managed'
  <2>1. /\ \A t \in Server : doing'[t] = IF t = s THEN "idle" ELSE doing[t]
        /\ \A t \in Server : mine'[t] = IF t = s THEN 0 ELSE mine[t]
    BY <1>0, <1>8, ManagerIs DEF LetsGo
  <2>2. /\ slot'.attempt = slot.attempt
        /\ slot' = slot \/ (slot.claim = "held" /\ slot.attempt = mine[s])
    BY <1>8 DEF LetsGo
  <2> QED  BY <1>0, <1>2, <2>1, <2>2 DEF Managed
<1> QED  BY <1>1, <1>3, <1>4, <1>5, <1>6, <1>7, <1>8, ServerSteps DEF Next

(* What was once committed to the outbox stays; a RELEASE is committed by  *)
(* the bell of the claim the slot holds.                                   *)
Rings(s) == Ring(s) /\ slot.claim = "held" /\ slot.attempt = mine[s] /\ doing[s] = "waiting"

LEMMA Releases ==
  ASSUME ControlTypeOK, Managed, Written, Next
  PROVE  /\ \A e \in Event : row[e] # "none" => row'[e] # "none"
         /\ \A a \in Attempt : row'[<<"release", a>>] # "none" =>
              \/ row[<<"release", a>>] # "none"
              \/ \E s \in Server : Rings(s) /\ a = mine[s]
<1>0. /\ row \in [Event -> {"none", "due", "done"}]
      /\ \A a \in Attempt : <<"release", a>> \in Event /\ <<"cancel", a>> \in Event
  BY AttemptEvents DEF ControlTypeOK, Kind
<1>1. CASE row' = row
  BY <1>1
<1>2. ASSUME NEW e \in Event, e[1] # "release", Writes(e)
      PROVE  /\ \A f \in Event : row[f] # "none" => row'[f] # "none"
             /\ \A a \in Attempt : row'[<<"release", a>>] # "none" => row[<<"release", a>>] # "none"
  BY <1>0, <1>2 DEF Writes
<1>3. ASSUME NEW e \in Event, row[e] # "none", row' = [row EXCEPT ![e] = "done"]
      PROVE  \A f \in Event : row[f] # "none" <=> row'[f] # "none"
  BY <1>0, <1>3
<1>4. ASSUME NEW s \in Server, Ring(s)
      PROVE  /\ \A f \in Event : row[f] # "none" => row'[f] # "none"
             /\ \A a \in Attempt : row'[<<"release", a>>] # "none" =>
                  row[<<"release", a>>] # "none" \/ (Rings(s) /\ a = mine[s])
  <2>1. Rings(s) /\ row' = [row EXCEPT ![<<"release", mine[s]>>] = "due"]
    BY <1>4 DEF Ring, Rings, Holds, Writes
  <2> QED  BY <1>0, <2>1
<1>5. ASSUME NEW s \in Server, Preload(s) \/ Stage(s)
      PROVE  \E e \in Event : e[1] # "release" /\ Writes(e)
  <2>1. CASE Preload(s)
    <3>1. slot.attempt \in Attempt /\ Writes(<<"preload", slot.attempt>>)
      BY <2>1 DEF Preload, Idle
    <3> QED  BY <3>1, AttemptEvents DEF Kind
  <2>2. CASE Stage(s)
    <3>1. mine[s] \in Attempt
      BY <2>2, Bounds DEF Stage, Managed, ControlTypeOK, Attempt
    <3> QED  BY <2>2, <3>1, AttemptEvents DEF Stage, Kind
  <2> QED  BY <1>5, <2>1, <2>2
<1>6. ASSUME NEW s \in Server, Cancel(s)
      PROVE  \A e \in Event : /\ row[e] # "none" => row'[e] # "none"
                              /\ e[1] = "release" /\ row'[e] # "none" => row[e] # "none"
  <2> DEFINE a == slot.attempt
             r == IF row[<<"release", a>>] = "due" THEN "done" ELSE row[<<"release", a>>]
  <2>1. a \in Attempt
    BY <1>6 DEF Cancel, Managed
  <2>2. /\ <<"cancel", a>> \in Event /\ <<"release", a>> \in Event
        /\ row[<<"release", a>>] # "none" <=> r # "none"
    BY <1>0, <2>1
  <2>3. row' = [row EXCEPT ![<<"cancel", a>>] = "due", ![<<"release", a>>] = r]
    BY <1>0, <1>6, <2>1, <2>2 DEF Cancel
  <2> HIDE DEF a, r
  <2> QED  BY <1>0, <2>2, <2>3
<1>7. ASSUME NEW s \in Server, Dispatcher(s)
      PROVE  row' = row \/ \E e \in Event : row[e] # "none" /\ row' = [row EXCEPT ![e] = "done"]
  <2>1. ASSUME Send(s) PROVE \E e \in Event : row[e] # "none" /\ row' = [row EXCEPT ![e] = "done"]
    <3>1. sending[s] \in Attempt /\ row[<<"release", sending[s]>>] # "none"
      BY <2>1, Bounds DEF Send, Written, ControlTypeOK, Attempt
    <3> QED  BY <1>0, <2>1, <3>1 DEF Send, Publishes
  <2>2. ASSUME NEW e \in Event, Publish(s, e)
        PROVE  row' = row \/ (row[e] # "none" /\ row' = [row EXCEPT ![e] = "done"])
    BY <2>2 DEF Publish, Publishes
  <2>3. ASSUME NEW a \in Attempt, Expire(s, a)
        PROVE  row[<<"release", a>>] # "none" /\ row' = [row EXCEPT ![<<"release", a>>] = "done"]
    BY <2>3 DEF Expire
  <2>4. Dispatch(s) \/ SendFails(s) \/ Forget(s) => row' = row
    BY DEF Dispatch, SendFails, Forget, durable
  <2> QED  BY <1>0, <1>7, <2>1, <2>2, <2>3, <2>4 DEF Dispatcher
<1>8. ASSUME NEW s \in Server,
             \/ Crash(s) \/ AgentReady(s) \/ Rotate(s) \/ ClaimReady(s) \/ ReturnUnstarted(s)
             \/ Open(s) \/ EndBout(s) \/ TakeOver(s) \/ Reconcile(s) \/ Finish(s)
      PROVE  row' = row
  BY <1>8 DEF Crash, AgentReady, Rotate, ClaimReady, ReturnUnstarted, Open, EndBout, TakeOver,
    Reconcile, Finish, durable
<1>9. CASE AgentCrash \/ Agent
  BY <1>1, <1>9, AgentLeaves
<1>10. \A a \in Attempt : <<"release", a>>[1] = "release"
  OBVIOUS
<1>11. ASSUME NEW s \in Server, Preload(s) \/ Stage(s) \/ Ring(s) \/ Cancel(s)
       PROVE  /\ \A e \in Event : row[e] # "none" => row'[e] # "none"
              /\ \A a \in Attempt : row'[<<"release", a>>] # "none" =>
                   \/ row[<<"release", a>>] # "none"
                   \/ \E t \in Server : Rings(t) /\ a = mine[t]
  BY <1>0, <1>2, <1>4, <1>5, <1>6, <1>10, <1>11
<1>12. ASSUME NEW s \in Server, Dispatcher(s)
       PROVE  \A e \in Event : row[e] # "none" <=> row'[e] # "none"
  BY <1>3, <1>7, <1>12
<1> QED  BY <1>0, <1>1, <1>8, <1>9, <1>11, <1>12 DEF Next, Manages

LEMMA PassedStep ==
  ASSUME ControlInv, Next
  PROVE  Passed'
<1>0. ControlTypeOK /\ Managed /\ Passed /\ Written
  BY DEF ControlInv
<1>1. /\ slot.attempt \in Nat /\ slot.attempt >= 1 /\ \A s \in Server : mine[s] \in Nat
      /\ slot'.attempt >= slot.attempt /\ slot'.attempt \in Nat
  BY <1>0, SlotIs, SlotGrows
<1> SUFFICES ASSUME NEW a \in Attempt, row'[<<"release", a>>] # "none"
             PROVE  /\ a <= slot'.attempt
                    /\ a = slot'.attempt => slot'.claim # "free"
                    /\ \A s \in Server : mine'[s] = a => doing'[s] \in {"rung", "racing"}
  BY DEF Passed
<1>2. a \in Nat /\ a # 0
  BY Bounds DEF Attempt
<1>3. CASE \E s \in Server : Rings(s) /\ a = mine[s]
  <2>1. PICK s \in Server : Rings(s) /\ a = mine[s]
    BY <1>3
  <2>2. slot' = slot /\ slot.claim = "held" /\ slot.attempt = a /\ Manager(s, "rung", a)
    BY <2>1 DEF Rings, Ring
  <2>3. /\ \A t \in Server : doing'[t] = IF t = s THEN "rung" ELSE doing[t]
        /\ \A t \in Server : mine'[t] = IF t = s THEN a ELSE mine[t]
    BY <1>0, <2>2, ManagerIs
  <2>4. \A t \in Server : mine[t] = a => t = s
    BY <1>0, <1>2, <2>1 DEF Managed
  <2> QED  BY <1>1, <1>2, <2>2, <2>3, <2>4
<1>4. CASE row[<<"release", a>>] # "none"
  <2>0. /\ a <= slot.attempt
        /\ a = slot.attempt => slot.claim # "free"
        /\ \A s \in Server : mine[s] = a => doing[s] \in {"rung", "racing"}
    BY <1>0, <1>4 DEF Passed
  <2>1. CASE Rests
    BY <2>0, <2>1 DEF Rests
  <2>2. CASE FencesIt
    BY <2>0, <2>2 DEF FencesIt
  <2>3. CASE MovesOn
    BY <1>1, <1>2, <2>0, <2>3 DEF MovesOn
  <2>4. ASSUME NEW s \in Server, Claims(s)
        PROVE  /\ a = slot'.attempt => slot'.claim # "free"
               /\ \A t \in Server : mine'[t] = a => doing'[t] \in {"rung", "racing"}
    <3>1. slot.claim = "free" /\ slot'.claim = "held"
      BY <2>4 DEF Claims
    <3>2. /\ \A t \in Server : doing'[t] = IF t = s THEN "arming" ELSE doing[t]
          /\ \A t \in Server : mine'[t] = IF t = s THEN slot.attempt ELSE mine[t]
      BY <1>0, <2>4, ManagerIs DEF Claims
    <3> QED  BY <2>0, <3>1, <3>2
  <2>5. ASSUME NEW s \in Server, Advances(s)
        PROVE  /\ a = slot'.attempt => slot'.claim # "free"
               /\ \A t \in Server : mine'[t] = a => doing'[t] \in {"rung", "racing"}
    <3>1. slot' = slot
      BY <2>5 DEF Advances
    <3>2. PICK d \in {"waiting", "rung", "racing"} :
            /\ Manager(s, d, mine[s])
            /\ doing[s] \in {"rung", "racing"} => d = "racing"
      BY <2>5 DEF Advances
    <3>3. /\ \A t \in Server : doing'[t] = IF t = s THEN d ELSE doing[t]
          /\ \A t \in Server : mine'[t] = mine[t]
      BY <1>0, <3>2, ManagerIs
    <3> QED  BY <2>0, <3>1, <3>2, <3>3
  <2>6. ASSUME NEW s \in Server, LetsGo(s)
        PROVE  /\ a = slot'.attempt => slot'.claim # "free"
               /\ \A t \in Server : mine'[t] = a => doing'[t] \in {"rung", "racing"}
    <3>1. /\ \A t \in Server : doing'[t] = IF t = s THEN "idle" ELSE doing[t]
          /\ \A t \in Server : mine'[t] = IF t = s THEN 0 ELSE mine[t]
      BY <1>0, <2>6, ManagerIs DEF LetsGo
    <3>2. \/ slot' = slot
          \/ slot'.claim = "cleaning"
          \/ slot'.attempt = slot.attempt /\ slot.attempt = mine[s] /\ doing[s] = "arming"
      BY <2>6 DEF LetsGo
    <3> QED  BY <1>2, <2>0, <3>1, <3>2
  <2>7. CASE AgentCrash \/ Agent
    BY <2>0, <2>7, AgentLeaves DEF server
  <2>8. a <= slot'.attempt
    BY <1>1, <1>2, <2>0
  <2> QED  BY <2>1, <2>2, <2>3, <2>4, <2>5, <2>6, <2>7, <2>8, ServerSteps DEF Next
<1> QED  BY <1>0, <1>3, <1>4, Releases

LEMMA CleanStep ==
  ASSUME ControlInv, Next
  PROVE  CleanIsOver'
<1>0. ControlTypeOK /\ RunFits /\ Managed /\ CleanIsOver /\ Written
  BY DEF ControlInv
<1>1. slot.claim # "free" =>
        /\ slot.attempt \in Attempt
        /\ Settled(slot.attempt) => "settled" \in log'[<<"bout", slot.attempt>>]
  BY <1>0, LogGrows, AttemptEvents DEF Managed, Settled, Kind
<1>2. ASSUME slot.claim = "cleaning"
      PROVE  row'[<<"release", slot.attempt>>] # "none" => row[<<"release", slot.attempt>>] # "none"
  BY <1>0, <1>1, <1>2, Releases DEF Rings
<1>3. ASSUME slot' = slot, clean' \subseteq clean PROVE CleanIsOver'
  BY <1>0, <1>1, <1>2, <1>3 DEF CleanIsOver, Settled
<1>4. ASSUME NEW s \in Server, Reconcile(s) PROVE CleanIsOver'
  <2>1. slot' = slot /\ slot.claim = "cleaning" /\ log' = log /\ row' = row
    BY <1>4 DEF Reconcile, durable
  <2>2. row[<<"release", slot.attempt>>] # "none" => Settled(slot.attempt)
    BY <1>4 DEF Reconcile, Handed, Settled
  <2> QED  BY <2>1, <2>2 DEF CleanIsOver, Settled
<1>5. ASSUME NEW s \in Server, Finish(s) PROVE CleanIsOver'
  BY <1>5 DEF Finish, CleanIsOver
<1>6. ASSUME NEW s \in Server, Crash(s) \/ Manages(s) \/ Dispatcher(s), ~Reconcile(s), ~Finish(s)
      PROVE  clean' \subseteq clean /\ (clean # {} => slot' = slot)
  <2>1. clean' \subseteq clean
    <3>1. Crash(s) => clean' \subseteq clean
      BY DEF Crash
    <3>2. Dispatcher(s) => clean' = clean
      BY DEF Dispatcher, Publish, Expire, Dispatch, Send, SendFails, Forget, server
    <3>3. Manages(s) => clean' = clean
      BY <1>6 DEF Manages, Preload, AgentReady, Rotate, ClaimReady, ReturnUnstarted, Stage, Ring,
        Open, EndBout, TakeOver, Cancel, server
    <3> QED  BY <1>6, <3>1, <3>2, <3>3
  <2>2. ASSUME slot.claim = "cleaning" PROVE slot' = slot
    <3>1. ~FencesIt /\ ~Claims(s) /\ ~Rotate(s) /\ (LetsGo(s) => slot' = slot)
      BY <2>2 DEF FencesIt, Claims, Rotate, Idle, LetsGo
    <3> QED  BY <1>6, <3>1, ServerSteps DEF Rests, Advances
  <2> QED  BY <1>0, <2>1, <2>2 DEF CleanIsOver
<1>7. CASE AgentCrash \/ Agent
  BY <1>3, <1>7, AgentLeaves DEF server
<1>8. ASSUME NEW s \in Server, clean' \subseteq clean, clean # {} => slot' = slot
      PROVE  CleanIsOver'
  BY <1>3, <1>8 DEF CleanIsOver
<1> QED  BY <1>4, <1>5, <1>6, <1>7, <1>8 DEF Next

LEMMA WrittenStep ==
  ASSUME ControlInv, Next
  PROVE  Written'
<1>0. ControlTypeOK /\ RunFits /\ HandQueued /\ QueueFits /\ Managed /\ Written
  BY DEF ControlInv
<1>1. \A a \in Attempt : /\ <<"release", a>> \in Event /\ <<"bout", a>> \in Job
                         /\ row[<<"release", a>>] # "none" => row'[<<"release", a>>] # "none"
  BY <1>0, Releases, AttemptEvents DEF Kind
<1>2. \A a \in Attempt :
        Within("release", queue'[<<"bout", a>>]) => row'[<<"release", a>>] # "none"
  <2>1. ASSUME NEW e \in Event, Posts(e), row[e] # "none", NEW a \in Attempt,
               Within("release", queue'[<<"bout", a>>])
        PROVE  row[<<"release", a>>] # "none"
    <3>1. \/ Within("release", queue[<<"bout", a>>])
          \/ <<"bout", a>> = JobOf(e) /\ e[1] = "release"
      BY <1>0, <1>1, <2>1, QueuePosts
    <3>2. JobOf(e)[2] = e[2] /\ e = <<e[1], e[2]>>
      BY EventFields
    <3> QED  BY <1>0, <2>1, <3>1, <3>2 DEF Written
  <2>2. ASSUME NEW s \in Server, Crash(s) \/ Manages(s) \/ Dispatcher(s), NEW a \in Attempt,
               Within("release", queue'[<<"bout", a>>])
        PROVE  row[<<"release", a>>] # "none"
    <3>1. ASSUME sending[s] \in Attempt, Posts(<<"release", sending[s]>>)
          PROVE  \E e \in Event : Posts(e) /\ row[e] # "none"
      <4>1. sending[s] # 0
        BY <3>1, Bounds DEF Attempt
      <4> QED  BY <1>0, <1>1, <3>1, <4>1 DEF Written
    <3> QED  BY <1>0, <2>1, <2>2, <3>1, ServerPosts DEF Written
  <2>3. ASSUME AgentCrash \/ Agent, NEW a \in Attempt,
               Within("release", queue'[<<"bout", a>>])
        PROVE  row[<<"release", a>>] # "none"
    BY <1>0, <1>1, <2>3, AgentTakes, QueueTakes DEF Written
  <2> QED  BY <1>1, <2>2, <2>3 DEF Next
<1>3. hand' # None /\ hand'.event[1] = "release" => row'[hand'.event] # "none"
  <2>1. ASSUME NEW s \in Server, Crash(s) \/ Manages(s) \/ Dispatcher(s) PROVE hand' = hand
    BY <2>1, ServerLeaves DEF agent
  <2>2. ASSUME hand # None, hand' # None, hand'.event = hand.event, hand'.event[1] = "release"
        PROVE  row'[hand'.event] # "none"
    BY <1>0, <2>2, HandFields, Releases DEF Written
  <2>3. ASSUME NEW j \in Job, Receive(j), hand'.event[1] = "release"
        PROVE  row'[hand'.event] # "none"
    <3>1. /\ hand'.event = <<"release", j[2]>> /\ j[2] \in Attempt /\ j = <<"bout", j[2]>>
          /\ Within("release", queue[j])
      <4>1. hand'.event \in Event /\ hand'.event = <<Head(queue[j]), j[2]>>
            /\ JobOf(hand'.event) = j /\ Within(Head(queue[j]), queue[j])
        BY <1>0, <2>3, Received
      <4> QED  BY <2>3, <4>1, JobFields DEF JobOf
    <3>2. row[<<"release", j[2]>>] # "none"
      BY <1>0, <3>1 DEF Written
    <3> QED  BY <1>1, <3>1, <3>2
  <2> QED  BY <1>0, <2>1, <2>2, <2>3, HandSteps DEF Next
<1>4. \A s \in Server : sending'[s] # 0 => row'[<<"release", sending'[s]>>] # "none"
  <2>1. \A s \in Server : sending[s] # 0 => row'[<<"release", sending[s]>>] # "none"
    <3>1. \A s \in Server : sending[s] # 0 => sending[s] \in Attempt
      BY Bounds, <1>0 DEF ControlTypeOK, Attempt
    <3> QED  BY <1>0, <1>1, <3>1 DEF Written
  <2>2. ASSUME NEW s \in Server, Dispatch(s)
        PROVE  \A t \in Server : sending'[t] # 0 => row'[<<"release", sending'[t]>>] # "none"
    <3>1. /\ row' = row /\ row[<<"release", mine[s]>>] # "none"
          /\ sending' = [sending EXCEPT ![s] = mine[s]]
      BY <2>2 DEF Dispatch, durable
    <3> QED  BY <1>0, <2>1, <3>1 DEF ControlTypeOK
  <2>3. ASSUME NEW s \in Server, sending' = [sending EXCEPT ![s] = 0] \/ sending' = sending
        PROVE  \A t \in Server : sending'[t] # 0 => row'[<<"release", sending'[t]>>] # "none"
    BY <1>0, <2>1, <2>3 DEF ControlTypeOK
  <2>4. ASSUME NEW s \in Server, Crash(s) \/ Manages(s) \/ Dispatcher(s), ~Dispatch(s)
        PROVE  sending' = [sending EXCEPT ![s] = 0] \/ sending' = sending
    <3>1. Crash(s) => sending' = [sending EXCEPT ![s] = 0]
      BY DEF Crash
    <3>2. Manages(s) => sending' = sending
      BY DEF Manages, Preload, AgentReady, Rotate, ClaimReady, ReturnUnstarted, Stage, Ring,
        Open, EndBout, TakeOver, Cancel, Reconcile, Finish, server
    <3>3. Dispatcher(s) => sending' = [sending EXCEPT ![s] = 0] \/ sending' = sending
      BY <2>4 DEF Dispatcher, Publish, Expire, Send, SendFails, Forget, server
    <3> QED  BY <2>4, <3>1, <3>2, <3>3
  <2>5. CASE AgentCrash \/ Agent
    BY <2>1, <2>5, AgentLeaves DEF server
  <2> QED  BY <2>2, <2>3, <2>4, <2>5 DEF Next
<1>5. phase' = "open" => activeFile' # None /\ row'[<<"release", activeFile'[2]>>] # "none"
  <2>1. phase = "open" => activeFile # None /\ row'[<<"release", activeFile[2]>>] # "none"
    <3>1. phase = "open" => activeFile[2] \in Attempt
      BY <1>0, ActiveIs
    <3> QED  BY <1>0, <1>1, <3>1 DEF Written
  <2>2. ASSUME NEW s \in Server, Crash(s) \/ Manages(s) \/ Dispatcher(s)
        PROVE  UNCHANGED <<phase, activeFile>>
    BY <2>2, ServerLeaves DEF agent
  <2>3. ASSUME AgentCrash \/ Agent
        PROVE  \/ UNCHANGED <<phase, activeFile>>
               \/ phase' # "open"
               \/ /\ hand # None /\ hand.event[1] = "release"
                  /\ activeFile' = hand.event /\ activeFile' # None
    BY <1>0, <2>3, PhaseSteps
  <2>4. ASSUME hand # None, hand.event[1] = "release", activeFile' = hand.event
        PROVE  row'[<<"release", activeFile'[2]>>] # "none"
    <3>1. hand.event \in Event /\ hand.event = <<"release", hand.event[2]>>
      BY <1>0, <2>4, HandFields, EventFields
    <3> QED  BY <1>0, <2>4, <3>1, Releases DEF Written
  <2> QED  BY <2>1, <2>2, <2>3, <2>4 DEF Next
<1> QED  BY <1>2, <1>3, <1>4, <1>5 DEF Written

(* Workers said to be settled are gone.                                    *)
LEMMA QuietStep ==
  ASSUME ControlInv, Next
  PROVE  SettledIsQuiet'
<1>0. ControlTypeOK /\ RunFits /\ HandIsUnsettled /\ SettledIsQuiet
  BY DEF ControlInv
<1>1. ASSUME NEW s \in Server, Crash(s) \/ Manages(s) \/ Dispatcher(s) PROVE SettledIsQuiet'
  BY <1>0, <1>1, ServerLeaves DEF agent, SettledIsQuiet, Active, Pool
<1>2. ASSUME Active' = 0 \/ Pool' = 0 PROVE SettledIsQuiet'
  BY <1>2 DEF SettledIsQuiet
<1>3. ASSUME Active' = Active, Pool' = Pool \/ Pool' = 0,
             "settled" \in log'[<<"bout", Active>>] => "settled" \in log[<<"bout", Active>>]
      PROVE  SettledIsQuiet'
  BY <1>0, <1>3 DEF SettledIsQuiet
<1>4. CASE AgentCrash \/ Exit
  BY <1>2, <1>4 DEF AgentCrash, Exit, Reboots, Active
<1>5. CASE RecoverJob
  BY <1>2, <1>5 DEF RecoverJob, Pool
<1>6. CASE RemoveFiles
  BY <1>2, <1>6 DEF RemoveFiles, Active
<1>7. CASE RecoverStage
  BY <1>0, <1>2, <1>7 DEF RecoverStage, RunFits, Active
<1>8. CASE (\E j \in Job : Receive(j)) \/ Acknowledge \/ Leave \/ Revoked
  BY <1>3, <1>8 DEF Receive, Acknowledge, Leave, Revoked, durable, Active, Pool
<1>9. CASE Discard
  <2>1. log' = log /\ at' = at
    BY <1>9 DEF Discard, durable
  <2>2. \/ activeFile' = None
        \/ UNCHANGED <<phase, activeFile>> /\ stageFile' \in {None, stageFile}
    BY <1>9 DEF Discard, DiscardsResidue
  <2> QED  BY <1>2, <1>3, <2>1, <2>2 DEF Active, Pool
<1>10. CASE Obey \/ Foreign
  <2> DEFINE a == hand.event[2]
  <2>1. /\ at = "up" /\ phase # "quiet" /\ at' = at /\ a # 0
        /\ \A i \in Job : log'[i] \subseteq log[i] \cup {"quarantined"}
    BY <1>0, <1>10, ObeyEffects, HandFields, EventFields DEF RunFits
  <2>2. /\ <<"stage", a>> # None /\ <<"release", a>> # None /\ <<"bout", a>> \in Job
        /\ \/ UNCHANGED Files
           \/ Warms(a) \/ Starts(a) \/ Opens(a) \/ Drops(a) \/ Stops(a)
        /\ ~UNCHANGED Files => hand.as = "current"
    BY <1>0, <1>10, ObeyFiles
  <2>3. Active # 0 => <<"bout", Active>> \in Job
    BY <1>0, ActiveIs
  <2>4. Active # 0 /\ "settled" \in log'[<<"bout", Active>>] => "settled" \in log[<<"bout", Active>>]
    BY <2>1, <2>3
  <2>5. CASE UNCHANGED Files
    <3>1. Active' = Active /\ Pool' = Pool
      BY <2>1, <2>5 DEF Files, Active, Pool
    <3> QED  BY <1>2, <1>3, <2>4, <3>1
  <2>6. CASE Warms(a) \/ Drops(a)
    BY <1>2, <2>6 DEF Warms, Drops, Active
  <2>7. CASE Starts(a) /\ ~UNCHANGED Files
    <3>1. Active' = a
      BY <2>2, <2>7 DEF Starts, Active
    <3>2. "settled" \notin log[<<"bout", a>>]
      <4>1. JobOf(hand.event) = <<"bout", a>>
        BY <2>7 DEF Starts, JobOf
      <4> QED  BY <1>0, <1>10, <2>2, <2>7, <4>1 DEF HandIsUnsettled, Obey, Foreign
    <3> QED  BY <2>1, <2>2, <3>1, <3>2 DEF SettledIsQuiet
  <2>8. CASE Opens(a) \/ Stops(a)
    <3>1. Active = a /\ activeFile' # None /\ phase' \notin {"none", "quiet"}
          /\ stageFile' = stageFile
      <4>1. activeFile # None
        BY <1>0, <2>1, <2>8 DEF Active, RunFits, Opens, Stops
      <4> QED  BY <2>1, <2>2, <2>8, <4>1 DEF Opens, Stops
    <3>2. Active' = activeFile'[2] /\ activeFile'[2] = Active
      <4>1. Active = activeFile[2]
        BY <2>1, <3>1 DEF Active
      <4> QED  BY <2>2, <2>8, <3>1, <4>1 DEF Active, Opens, Stops
    <3>3. Pool' = Pool
      BY <2>1, <3>1 DEF Pool
    <3> QED  BY <1>2, <1>3, <2>4, <3>2, <3>3
  <2> QED  BY <2>2, <2>5, <2>6, <2>7, <2>8
<1>11. CASE Prepare
  <2>1. <<"bout", Active>> \in Job /\ log \in Logs /\ Active # 0
    BY <1>0, <1>11, ActiveIs DEF Prepare, ControlTypeOK, Logs
  <2>2. \A j \in Job : log'[j] \subseteq log[j] \cup {"prepared"}
    BY <1>11, <2>1, SaysType DEF Prepare
  <2>3. Active' = Active /\ Pool' = Pool
    BY <1>11 DEF Prepare, Active, Pool
  <2> QED  BY <1>3, <2>1, <2>2, <2>3
<1>12. CASE TaskEnds
  BY <1>3, <1>12 DEF TaskEnds, durable, Active, Pool
<1>13. CASE StopPool \/ Settle
  BY <1>2, <1>13 DEF StopPool, Settle, Pool
<1>14. CASE Heartbeat
  BY <1>2, <1>14 DEF Heartbeat, Pool
<1> QED  BY <1>1, <1>4, <1>5, <1>6, <1>7, <1>8, <1>9, <1>10, <1>11, <1>12, <1>13, <1>14
         DEF Next, Agent

(* The slot leaves the attempt of a job at work only once it has settled.  *)
LEMMA OwnedStep ==
  ASSUME ControlInv, Next
  PROVE  OpenIsOwned'
<1>0. /\ ControlTypeOK /\ RunFits /\ Written /\ Managed /\ Passed /\ CleanIsOver
      /\ SettledIsQuiet /\ OpenIsOwned
  BY DEF ControlInv
<1>1. ASSUME NEW s \in Server, Crash(s) \/ Manages(s) \/ Dispatcher(s) PROVE OpenIsOwned'
  <2>1. phase' = phase /\ Active' = Active /\ Pool' = Pool
    BY <1>1, ServerLeaves DEF agent, Active, Pool
  <2> SUFFICES ASSUME phase = "open", Pool = Active PROVE slot'.attempt = Active
    BY <2>1 DEF OpenIsOwned
  <2>2. /\ slot.attempt = Active /\ Active \in Attempt /\ Active # 0
        /\ row[<<"release", Active>>] # "none"
    BY <1>0, ActiveIs DEF OpenIsOwned, Written
  <2>3. ~Rotate(s)
    BY <1>0, <2>2 DEF Rotate, Idle, Passed
  <2>4. ~Finish(s)
    BY <1>0, <2>2 DEF Finish, CleanIsOver, SettledIsQuiet, Settled
  <2> QED
    BY <1>1, <2>2, <2>3, <2>4, ServerSteps DEF Rests, FencesIt, Claims, Advances, LetsGo
<1>2. CASE AgentCrash \/ Agent
  <2>1. slot' = slot
    BY <1>2, AgentLeaves
  <2>2. CASE phase' # "open"
    BY <2>2 DEF OpenIsOwned
  <2>3. CASE /\ hand # None /\ activeFile' = hand.event /\ activeFile' # None
             /\ Admits(hand.event[2]) /\ phase' = "open"
    BY <2>1, <2>3 DEF OpenIsOwned, Active, Admits
  <2>4. CASE UNCHANGED <<phase, activeFile>> /\ phase = "open"
    <3>1. Active' = Active /\ Active # 0
      BY <1>0, <2>4, ActiveIs DEF Active
    <3>2. Pool' = Pool \/ Pool' = 0
      BY <1>0, <1>2, <2>4, PoolSteps, ActiveIs
    <3> QED  BY <1>0, <2>1, <2>4, <3>1, <3>2 DEF OpenIsOwned
  <2> QED  BY <1>0, <1>2, <2>2, <2>3, <2>4, PhaseSteps
<1> QED  BY <1>1, <1>2 DEF Next

-----------------------------------------------------------------------------
LEMMA Start ==
  ASSUME Init PROVE ControlInv
<1>1. /\ 1 \in 1..(MaxAttempt + 1) /\ 1 \in 1..MaxBoot
      /\ 0 \in 0..MaxBoot /\ 0 \in 0..MaxAttempt /\ 1 \in Nat
  BY Bounds
<1>2. ControlTypeOK
  <2>1. /\ row \in [Event -> {"none", "due", "done"}]
        /\ bound \in [Attempt -> 0..MaxBoot] /\ ready \in [Attempt -> 0..MaxBoot]
        /\ log \in [Job -> SUBSET {"prepared", "settled", "quarantined"}]
        /\ queue \in [Job -> Seq(Kind)]
    BY <1>1 DEF Init
  <2>2. /\ doing \in [Server -> {"idle", "arming", "waiting", "rung", "racing"}]
        /\ mine \in [Server -> 0..MaxAttempt] /\ sending \in [Server -> 0..MaxAttempt]
    BY <1>1 DEF Init
  <2> QED  BY <1>1, <2>1, <2>2 DEF Init, ControlTypeOK
<1>3. QueueFits
  BY DEF Init, QueueFits, Within
<1>4. Written
  <2>1. \A a \in Attempt : <<"bout", a>> \in Job
    BY AttemptEvents DEF Kind
  <2> QED  BY <2>1 DEF Init, Written, Within
<1>5. Passed
  <2>1. \A a \in Attempt : <<"release", a>> \in Event
    BY AttemptEvents DEF Kind
  <2> QED  BY <2>1 DEF Init, Passed
<1>6. Managed
  BY DEF Init, Managed
<1> QED
  BY <1>2, <1>3, <1>4, <1>5, <1>6 DEF ControlInv, Init, RunFits, HandQueued, HandIsUnsettled,
    CleanIsOver, StageKnown, SettledIsQuiet, OpenIsOwned, Active, Pool

LEMMA Stutter ==
  ASSUME ControlInv, UNCHANGED vars PROVE ControlInv'
BY DEF ControlInv, vars, ControlTypeOK, RunFits, HandQueued, QueueFits, Within, HandIsUnsettled,
  Written, Managed, Passed, CleanIsOver, Settled, StageKnown, SettledIsQuiet, OpenIsOwned, Active,
  Pool

LEMMA Invariance == Spec => []ControlInv
<1>1. Init => ControlInv
  BY Start
<1>2. ControlInv /\ [Next]_vars => ControlInv'
  <2>1. ASSUME ControlInv, Next PROVE ControlInv'
    <3>1. ControlTypeOK'
      BY <2>1, TypeStep
    <3> QED
      BY <2>1, <3>1, RunStep, QueuedStep, FitsStep, UnsettledStep, StageStep, ManagedStep,
        PassedStep, CleanStep, WrittenStep, QuietStep, OwnedStep DEF ControlInv
  <2> QED  BY <2>1, Stutter
<1> QED  BY <1>1, <1>2, PTL DEF Spec

(* Every variable of the commands, the claim and the agent keeps its type. *)
THEOREM ControlTypeCorrect == Spec => []ControlTypeOK
<1>1. ControlInv => ControlTypeOK
  BY DEF ControlInv
<1> QED  BY <1>1, Invariance, PTL

(* The agent's "settled" is said after its workers are stopped, so that    *)
(* the server's cleanup never deletes databases that lane writers use.     *)
THEOREM SettledJobsAreQuiet == Spec => []SettledIsQuiet
<1>1. ControlInv => SettledIsQuiet
  BY DEF ControlInv
<1> QED  BY <1>1, Invariance, PTL

(* Workers that a RELEASE has let go run only while the slot names their   *)
(* attempt: no rotation, takeover or cleanup moves on over them.           *)
THEOREM OpenJobsAreOwned == Spec => []OpenIsOwned
<1>1. ControlInv => OpenIsOwned
  BY DEF ControlInv
<1> QED  BY <1>1, Invariance, PTL

(* Only a message of the slot's own attempt takes down the pool READY      *)
(* rests on: a late, repeated or superseded one leaves it standing.        *)
LEMMA PoolStays ==
  ASSUME ControlInv, Next, Pool # 0, Pool = slot.attempt, Pool' # Pool, boot' = boot
  PROVE  phase # "none" \/ (hand # None /\ hand.event[2] = Pool)
<1>0. ControlTypeOK /\ RunFits /\ HandIsUnsettled
  BY DEF ControlInv
<1> SUFFICES ASSUME phase = "none" PROVE hand # None /\ hand.event[2] = Pool
  OBVIOUS
<1>1. /\ at = "up" /\ stageFile # None /\ stageFile[2] = Pool /\ Active = 0
      /\ Pool \in Nat
  BY <1>0, JobFields DEF Pool, Active, ControlTypeOK
<1>2. ASSUME NEW s \in Server, Crash(s) \/ Manages(s) \/ Dispatcher(s) PROVE FALSE
  BY <1>2, ServerLeaves DEF agent, Pool
<1>3. ~AgentCrash /\ ~Exit
  <2>1. boot \in Nat
    BY <1>0, Bounds DEF ControlTypeOK
  <2> QED  BY <2>1 DEF AgentCrash, Exit, Reboots
<1>4. ~RecoverJob /\ ~RemoveFiles /\ ~RecoverStage
  BY <1>1 DEF RecoverJob, RemoveFiles, RecoverStage
<1>5. ~Prepare /\ ~TaskEnds /\ ~StopPool /\ ~Settle
  BY DEF Prepare, TaskEnds, StopPool, Settle
<1>6. ~Heartbeat
  BY DEF Heartbeat, Admits
<1>7. ~((\E j \in Job : Receive(j)) \/ Acknowledge \/ Leave \/ Revoked)
  BY DEF Receive, Acknowledge, Leave, Revoked, Pool
<1>8. CASE Discard
  <2>1. hand # None /\ at' = at /\ phase' = phase
    BY <1>8 DEF Discard, DiscardsResidue
  <2>2. stageFile = JobOf(hand.event)
    BY <1>8, <2>1 DEF Discard, DiscardsResidue, Pool
  <2> QED  BY <1>0, <1>1, <2>1, <2>2, HandFields, EventFields
<1>9. CASE Obey \/ Foreign
  <2>1. /\ hand # None /\ at' = at /\ hand.event[2] \in Nat /\ hand.event[2] # 0
        /\ slot.attempt \in Nat
    BY <1>0, <1>9, ObeyEffects, HandFields, EventFields, SlotIs
  <2>2. \/ UNCHANGED Files
        \/ /\ hand.as = "current"
           /\ \/ Warms(hand.event[2]) \/ Starts(hand.event[2]) \/ Opens(hand.event[2])
              \/ Drops(hand.event[2]) \/ Stops(hand.event[2])
    BY <1>0, <1>9, ObeyFiles
  <2>3. ~UNCHANGED Files
    BY <2>1 DEF Files, Pool
  <2>4. CASE Starts(hand.event[2])
    BY <2>1, <2>4 DEF Starts
  <2>5. ~Opens(hand.event[2]) /\ ~Drops(hand.event[2]) /\ ~Stops(hand.event[2])
    BY <1>1, <2>1 DEF Opens, Drops, Stops
  <2>6. CASE Warms(hand.event[2]) /\ hand.as = "current"
    <3>1. stageFile[2] <= hand.event[2] /\ hand.event[2] <= slot.attempt
      BY <1>0, <1>1, <2>1, <2>6 DEF HandIsUnsettled
    <3> QED  BY <1>1, <2>1, <3>1
  <2> QED  BY <2>2, <2>3, <2>4, <2>5, <2>6
<1> QED  BY <1>2, <1>3, <1>4, <1>5, <1>6, <1>7, <1>8, <1>9 DEF Next, Agent

THEOREM CurrentPoolStays == Spec => CurrentPoolStands
<1>1. ControlInv /\ [Next]_vars =>
        [Pool # 0 /\ Pool = slot.attempt /\ Pool' # Pool /\ boot' = boot =>
           phase # "none" \/ (hand # None /\ hand.event[2] = Pool)]_vars
  BY PoolStays
<1> QED  BY <1>1, Invariance, PTL DEF Spec, CurrentPoolStands

=============================================================================
