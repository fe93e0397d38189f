--------------------------- MODULE LifecycleProofs ---------------------------
(***************************************************************************)
(* What one installation promises, however often its commands are stopped  *)
(* and run again.                                                          *)
(***************************************************************************)
EXTENDS Installation, GenerationLock, SequenceTheorems, TLAPS

USE DEF beside, Tells, Unlocked

Unlinks == <<"unlink", "file">>
Baseline == <<"baseline", "round5">>
ApplyAll == <<"apply", "all">>
MakesProjects == <<"make", "projects">>

(* The steps of setup and resume that neither apply nor end the first      *)
(* stage, those of a lane, and those of a cleanup.                         *)
PlainStep ==
  ({"seed", "zero", "seal", "begin", "check", "unless ready", "if ready", "wipe", "finish"}
     \X {"schema", "setup", "round4", "round5", "round6", "clones", "reset"})
  \cup ({"make"} \X {"round4", "round6"})
LaneStep == {"record", "apply", "prove"} \X Lane
SetupStep == PlainStep \cup LaneStep \cup {Baseline, ApplyAll, MakesProjects}
Deleted == {"cdf6", "schema6", "app", "round4", "catalog6", "clone", "projects", "role"}
LaterStep ==
  {<<"forget", "guard">>, <<"forget", "role">>, <<"destroy", "state">>}
  \cup ({"delete"} \X Deleted)
EarlyStep == {<<"verify", "round6">>, <<"receipt", "round6">>} \cup ({"delete"} \X Deleted)
BodyStep == EarlyStep \cup LaterStep \cup {Baseline}
CleanStep == BodyStep \cup {Unlinks}

Has(s, step) == \E i \in 1..Len(s) : s[i] = step
Left(step) == Has(run, step)

-----------------------------------------------------------------------------
(* The steps a command starts with.                                        *)

(* A command of setup begins with one of these, and goes on with plain     *)
(* steps until its lanes.                                                  *)
Opening == {<<>>, <<ApplyAll>>, <<Baseline, ApplyAll>>, <<ApplyAll, MakesProjects>>}
Opens(r, p) ==
  /\ r \in Seq(SetupStep) /\ p \in Opening /\ Len(p) <= Len(r)
  /\ \A i \in 1..Len(r) : IF i <= Len(p) THEN r[i] = p[i] ELSE r[i] \in PlainStep

LEMMA OpensItself ==
  ASSUME NEW p \in Opening PROVE Opens(p, p)
<1>1. ApplyAll \in SetupStep /\ Baseline \in SetupStep /\ MakesProjects \in SetupStep
  BY DEF SetupStep
<1>2. /\ <<>> \in Seq(SetupStep) /\ <<ApplyAll>> \in Seq(SetupStep)
      /\ <<Baseline, ApplyAll>> \in Seq(SetupStep)
      /\ <<ApplyAll, MakesProjects>> \in Seq(SetupStep)
  BY <1>1
<1>3. p \in Seq(SetupStep)
  BY <1>2 DEF Opening
<1>4. Len(p) \in Nat
  BY <1>3
<1> QED
  BY <1>3, <1>4 DEF Opens

LEMMA OpensWith ==
  ASSUME NEW r, NEW p, Opens(r, p), NEW q \in Seq(PlainStep)
  PROVE  Opens(r \o q, p)
<1>1. q \in Seq(SetupStep) /\ r \in Seq(SetupStep) /\ p \in Opening /\ Len(p) <= Len(r)
  BY DEF Opens, SetupStep
<1>2. /\ r \o q \in Seq(SetupStep) /\ Len(r \o q) = Len(r) + Len(q)
      /\ \A i \in 1..(Len(r) + Len(q)) :
           (r \o q)[i] = IF i <= Len(r) THEN r[i] ELSE q[i - Len(r)]
  BY <1>1, ConcatProperties
<1>3. Len(p) \in Nat /\ Len(r) \in Nat /\ Len(q) \in Nat
  BY <1>1 DEF Opening
<1>4. ASSUME NEW i \in 1..Len(r \o q)
      PROVE  IF i <= Len(p) THEN (r \o q)[i] = p[i] ELSE (r \o q)[i] \in PlainStep
  <2>1. CASE i <= Len(r)
    BY <1>1, <1>2, <1>3, <2>1 DEF Opens
  <2>2. CASE i > Len(r)
    BY <1>1, <1>2, <1>3, <2>2
  <2> QED
    BY <1>2, <1>3, <2>1, <2>2
<1> QED
  BY <1>1, <1>2, <1>3, <1>4 DEF Opens

LEMMA LanesAre ==
  /\ Lanes \in Seq(LaneStep) /\ Len(Lanes) = 6
  /\ Lanes[1] = <<"record", "lane4">> /\ Lanes[2] = <<"apply", "lane4">>
  /\ Lanes[3] = <<"prove", "lane4">> /\ Lanes[4] = <<"record", "lane6">>
  /\ Lanes[5] = <<"apply", "lane6">> /\ Lanes[6] = <<"prove", "lane6">>
<1>1. ASSUME NEW l \in Lane PROVE LaneSteps(l) \in Seq(LaneStep) /\ Len(LaneSteps(l)) = 3
  BY DEF LaneSteps, LaneStep
<1>2. "lane4" \in Lane /\ "lane6" \in Lane
  BY DEF Lane
<1>3. /\ Lanes \in Seq(LaneStep) /\ Len(Lanes) = 6
      /\ \A i \in 1..6 : Lanes[i] = IF i <= 3 THEN LaneSteps("lane4")[i]
                                    ELSE LaneSteps("lane6")[i - 3]
  BY <1>1, <1>2, ConcatProperties DEF Lanes
<1>4. /\ Lanes[1] = LaneSteps("lane4")[1] /\ Lanes[2] = LaneSteps("lane4")[2]
      /\ Lanes[3] = LaneSteps("lane4")[3] /\ Lanes[4] = LaneSteps("lane6")[1]
      /\ Lanes[5] = LaneSteps("lane6")[2] /\ Lanes[6] = LaneSteps("lane6")[3]
  BY <1>3
<1> QED
  BY <1>3, <1>4 DEF LaneSteps

(* What holds of every run w of setup as it starts.                        *)
SetsUp(r, p, w) ==
  /\ w \in Seq(SetupStep) /\ Len(w) = Len(r) + 6
  /\ \A i \in 1..Len(p) : w[i] = p[i]
  /\ \A i \in 1..Len(w) : w[i] \in {ApplyAll, MakesProjects, Baseline} =>
       i <= Len(p) /\ w[i] = p[i]
  /\ \A i \in 1..Len(w), l \in Lane : w[i] = <<"prove", l>> =>
       i > 1 /\ w[i - 1] = <<"apply", l>>

LEMMA SetupRun ==
  ASSUME NEW r, NEW p, Opens(r, p), NEW w, w = r \o Lanes
  PROVE  SetsUp(r, p, w)
<1>1. Lanes \in Seq(SetupStep) /\ r \in Seq(SetupStep) /\ p \in Opening /\ Len(p) <= Len(r)
  BY LanesAre DEF Opens, SetupStep
<1>2. /\ w \in Seq(SetupStep) /\ Len(w) = Len(r) + 6
      /\ \A i \in 1..Len(w) : w[i] = IF i <= Len(r) THEN r[i] ELSE Lanes[i - Len(r)]
  <2>1. /\ r \o Lanes \in Seq(SetupStep) /\ Len(r \o Lanes) = Len(r) + Len(Lanes)
        /\ \A i \in 1..Len(r) + Len(Lanes) :
             (r \o Lanes)[i] = IF i <= Len(r) THEN r[i] ELSE Lanes[i - Len(r)]
    BY <1>1, ConcatProperties
  <2> QED
    BY <2>1, LanesAre
<1>3. Len(p) \in Nat /\ Len(r) \in Nat /\ \A i \in 1..Len(p) : i \in 1..Len(r)
  BY <1>1 DEF Opening
<1>4. \A i \in 1..Len(p) : w[i] = p[i]
  BY <1>1, <1>2, <1>3 DEF Opens
<1>5. \A s \in PlainStep : /\ s \notin {ApplyAll, MakesProjects, Baseline}
                           /\ \A l \in Lane : s # <<"prove", l>>
  <2>1. \A s \in PlainStep : s[1] # "prove"
    BY DEF PlainStep
  <2>2. \A s \in PlainStep : s \notin {ApplyAll, MakesProjects, Baseline}
    <3>1. \A s \in PlainStep : /\ s[1] \notin {"apply", "baseline"}
                               /\ s[1] = "make" => s[2] # "projects"
      BY DEF PlainStep
    <3>2. /\ ApplyAll[1] = "apply" /\ Baseline[1] = "baseline"
          /\ MakesProjects[1] = "make" /\ MakesProjects[2] = "projects"
      BY DEF ApplyAll, MakesProjects, Baseline
    <3> QED
      BY <3>1, <3>2
  <2> QED
    BY <2>1, <2>2
<1>6. \A s \in LaneStep : s \notin {ApplyAll, MakesProjects, Baseline}
  BY DEF LaneStep, Lane, ApplyAll, MakesProjects, Baseline
<1>7. ASSUME NEW i \in 1..Len(w), i > Len(r)
      PROVE  w[i] = Lanes[i - Len(r)] /\ i - Len(r) \in 1..6
  <2>1. i \in 1..Len(r) + 6
    BY <1>2
  <2>2. i - Len(r) \in 1..6
    BY <1>3, <1>7, <2>1
  <2> QED
    BY <1>2, <1>7, <2>2
<1>8. ASSUME NEW i \in 1..Len(w), w[i] \in {ApplyAll, MakesProjects, Baseline}
      PROVE  i <= Len(p) /\ w[i] = p[i]
  <2>1. CASE i <= Len(r)
    BY <1>1, <1>2, <1>3, <1>5, <1>8, <2>1 DEF Opens
  <2>2. CASE i > Len(r)
    <3>1. Lanes[i - Len(r)] \in LaneStep
      BY <1>7, <2>2, LanesAre
    <3> QED
      BY <1>6, <1>7, <1>8, <2>2, <3>1
  <2> QED
    BY <1>2, <1>3, <2>1, <2>2
<1>9. ASSUME NEW i \in 1..Len(w), NEW l \in Lane, w[i] = <<"prove", l>>
      PROVE  i > 1 /\ w[i - 1] = <<"apply", l>>
  <2>0. \A q \in Opening : \A j \in 1..Len(q) : q[j] # <<"prove", l>>
    BY DEF Opening, ApplyAll, MakesProjects, Baseline
  <2>1. i > Len(r)
    <3> SUFFICES ASSUME i <= Len(r) PROVE FALSE
      BY <1>2, <1>3
    <3>1. w[i] = r[i] /\ i \in 1..Len(r)
      BY <1>2, <1>3
    <3>2. IF i <= Len(p) THEN r[i] = p[i] ELSE r[i] \in PlainStep
      BY <3>1 DEF Opens
    <3>3. i <= Len(p) => i \in 1..Len(p)
      BY <1>3, <3>1
    <3> QED
      BY <1>1, <1>5, <1>9, <2>0, <3>1, <3>2, <3>3
  <2>2. Lanes[i - Len(r)] = <<"prove", l>> /\ i - Len(r) \in 1..6
    BY <1>7, <1>9, <2>1
  <2>3. \/ i - Len(r) = 3 /\ l = "lane4"
        \/ i - Len(r) = 6 /\ l = "lane6"
    <3>1. PICK k \in 1..6 : k = i - Len(r)
      BY <2>2
    <3>2. Lanes[k] = <<"prove", l>>
      BY <2>2, <3>1
    <3>3. (k = 3 /\ l = "lane4") \/ (k = 6 /\ l = "lane6")
      BY <3>2, LanesAre
    <3> QED
      BY <3>1, <3>3
  <2>4. i - 1 \in 1..Len(w) /\ i - 1 > Len(r) /\ i > 1
    BY <1>2, <1>3, <2>1, <2>3
  <2>5. w[i - 1] = Lanes[(i - 1) - Len(r)]
    BY <1>2, <1>3, <2>4
  <2>6. (i - 1) - Len(r) = (i - Len(r)) - 1
    BY <1>2, <1>3, <2>1
  <2>7. CASE i - Len(r) = 3 /\ l = "lane4"
    BY <2>4, <2>5, <2>6, <2>7, LanesAre
  <2>8. CASE i - Len(r) = 6 /\ l = "lane6"
    BY <2>4, <2>5, <2>6, <2>8, LanesAre
  <2> QED
    BY <2>3, <2>7, <2>8
<1> QED
  BY <1>2, <1>4, <1>8, <1>9 DEF SetsUp

LEMMA ShortSeq ==
  ASSUME NEW S, NEW a \in S, NEW b \in S, NEW c \in S
  PROVE  <<>> \in Seq(S) /\ <<a>> \in Seq(S) /\ <<a, b>> \in Seq(S) /\ <<a, b, c>> \in Seq(S)
OBVIOUS

LEMMA TwoAndTwo ==
  ASSUME NEW a, NEW b, NEW c, NEW d
  PROVE  <<a, b>> \o <<c, d>> = <<a, b, c, d>>
<1> DEFINE S == {a, b, c, d}
           s == <<a, b>>
           t == <<c, d>>
           u == <<a, b, c, d>>
<1>1. /\ s \in Seq(S) /\ t \in Seq(S) /\ u \in Seq(S) /\ Len(s) = 2 /\ Len(t) = 2 /\ Len(u) = 4
      /\ s[1] = a /\ s[2] = b /\ t[1] = c /\ t[2] = d
      /\ u[1] = a /\ u[2] = b /\ u[3] = c /\ u[4] = d
  OBVIOUS
<1> HIDE DEF s, t, u, S
<1>2. /\ s \o t \in Seq(S) /\ Len(s \o t) = 4
      /\ \A i \in 1..4 : (s \o t)[i] = IF i <= 2 THEN s[i] ELSE t[i - 2]
  <2>1. /\ s \o t \in Seq(S) /\ Len(s \o t) = Len(s) + Len(t)
        /\ \A i \in 1..Len(s) + Len(t) :
             (s \o t)[i] = IF i <= Len(s) THEN s[i] ELSE t[i - Len(s)]
    BY <1>1, ConcatProperties
  <2> QED
    BY <1>1, <2>1
<1>3. \A i \in 1..4 : (s \o t)[i] = u[i]
  BY <1>1, <1>2
<1>4. s \o t = u
  BY <1>1, <1>2, <1>3, SeqEqual
<1> QED
  BY <1>4 DEF s, t, u

LEMMA StepsOfTwo ==
  ASSUME NEW verb, NEW a, NEW b
  PROVE  Steps(verb, <<a, b>>) = << <<verb, a>>, <<verb, b>> >>
<1> DEFINE s == <<a, b>>
<1>1. Len(s) = 2 /\ s[1] = a /\ s[2] = b
  OBVIOUS
<1> HIDE DEF s
<1>2. Steps(verb, s) = [i \in 1..2 |-> <<verb, s[i]>>]
  BY <1>1 DEF Steps
<1>3. ASSUME NEW x, NEW y PROVE <<x, y>> = [i \in 1..2 |-> IF i = 1 THEN x ELSE y]
  OBVIOUS
<1>4. Steps(verb, s) = [i \in 1..2 |-> IF i = 1 THEN <<verb, a>> ELSE <<verb, b>>]
  BY <1>1, <1>2
<1>5. Steps(verb, s) = << <<verb, a>>, <<verb, b>> >>
  BY <1>3, <1>4
<1> QED
  BY <1>5 DEF s

LEMMA PlainSequences ==
  /\ Reseal4 \in Seq(PlainStep) /\ Reseal5 \in Seq(PlainStep) /\ Reseal6 \in Seq(PlainStep)
  /\ Reset \in Seq(PlainStep)
  /\ Steps("unless ready", <<"round5", "round6">>) \in Seq(PlainStep)
  /\ \A status \in Status \ {"provisioning"} : Provision(status) \in Seq(PlainStep)
<1>1. /\ <<"wipe", "clones">> \in PlainStep /\ <<"if ready", "round5">> \in PlainStep
      /\ <<"finish", "reset">> \in PlainStep /\ <<"make", "round4">> \in PlainStep
      /\ <<"seal", "round4">> \in PlainStep /\ <<"zero", "round4">> \in PlainStep
      /\ <<"begin", "round5">> \in PlainStep /\ <<"seal", "round5">> \in PlainStep
      /\ <<"check", "round5">> \in PlainStep /\ <<"begin", "round6">> \in PlainStep
      /\ <<"make", "round6">> \in PlainStep /\ <<"seal", "round6">> \in PlainStep
      /\ <<"seed", "schema">> \in PlainStep /\ <<"zero", "setup">> \in PlainStep
      /\ <<"unless ready", "round5">> \in PlainStep
      /\ <<"unless ready", "round6">> \in PlainStep
  BY DEF PlainStep
<1>2. Ensure4 \in Seq(PlainStep)
  BY <1>1, ShortSeq DEF Ensure4
<1>3. Reseal5 \in Seq(PlainStep)
  BY <1>1, ShortSeq DEF Reseal5
<1>4. Reseal6 \in Seq(PlainStep)
  BY <1>1, ShortSeq DEF Reseal6
<1>5. Reseal4 \in Seq(PlainStep)
  BY <1>1, <1>2, AppendProperties DEF Reseal4
<1>6. /\ << <<"wipe", "clones">> >> \in Seq(PlainStep)
      /\ << <<"if ready", "round5">> >> \in Seq(PlainStep)
      /\ << <<"finish", "reset">> >> \in Seq(PlainStep)
  BY <1>1, ShortSeq
<1>9. Reset \in Seq(PlainStep)
  BY <1>2, <1>4, <1>6, ConcatProperties DEF Reset
<1>10. Steps("unless ready", <<"round5", "round6">>) \in Seq(PlainStep)
  <2>1. Steps("unless ready", <<"round5", "round6">>)
          = << <<"unless ready", "round5">>, <<"unless ready", "round6">> >>
    BY StepsOfTwo
  <2> QED
    BY <1>1, <2>1, ShortSeq
<1>7. /\ << <<"seed", "schema">>, <<"zero", "setup">> >> \in Seq(PlainStep)
      /\ << <<"zero", "setup">> >> \in Seq(PlainStep) /\ <<>> \in Seq(PlainStep)
  <2>1. <<"seed", "schema">> \in PlainStep /\ <<"zero", "setup">> \in PlainStep
    BY <1>1
  <2>2. << <<"seed", "schema">>, <<"zero", "setup">> >> \in Seq(PlainStep)
    BY <2>1, ShortSeq
  <2>3. << <<"zero", "setup">> >> \in Seq(PlainStep)
    BY <2>1, ShortSeq
  <2> QED
    BY <2>2, <2>3
<1>8. ASSUME NEW status \in Status \ {"provisioning"} PROVE Provision(status) \in Seq(PlainStep)
  <2>1. Provision("seeding") = << <<"seed", "schema">>, <<"zero", "setup">> >>
    BY DEF Provision
  <2>2. Provision("waiting_for_zero") = << <<"zero", "setup">> >>
    BY DEF Provision
  <2>3. status \notin {"seeding", "waiting_for_zero"} => Provision(status) = <<>>
    BY DEF Provision, Status
  <2> QED
    BY <1>7, <2>1, <2>2, <2>3
<1> QED
  BY <1>3, <1>4, <1>5, <1>8, <1>9, <1>10

(* A resumed provision begins with the first apply if it is to be made, and *)
(* with none otherwise.                                                    *)
LEMMA ResumeOpens ==
  ASSUME NEW m \in Manifest
  PROVE  Opens(ResumeSteps(m), IF m.status = "provisioning" THEN <<ApplyAll, MakesProjects>>
                               ELSE <<>>)
<1> DEFINE first == IF m.version = 2 /\ m.status \in {"waiting_for_zero", "seeding"}
                    THEN <<>> ELSE Provision(m.status)
           p == IF m.status = "provisioning" THEN <<ApplyAll, MakesProjects>> ELSE <<>>
<1>1. m.status \in Status
  BY DEF Manifest
<1>2. <<>> \in Opening /\ <<ApplyAll, MakesProjects>> \in Opening
  BY DEF Opening
<1>3. \A q \in Seq(PlainStep) : Opens(q, <<>>)
  <2> SUFFICES ASSUME NEW q \in Seq(PlainStep) PROVE Opens(q, <<>>)
    OBVIOUS
  <2>1. Opens(<<>> \o q, <<>>)
    BY <1>2, OpensItself, OpensWith
  <2>2. <<>> \o q = q
    BY ConcatEmptySeq
  <2> QED
    BY <2>1, <2>2
<1>4. Opens(first, p)
  <2>1. CASE m.status = "provisioning"
    <3>1. <<"seed", "schema">> \in PlainStep /\ <<"zero", "setup">> \in PlainStep
      BY DEF PlainStep
    <3>2. << <<"seed", "schema">>, <<"zero", "setup">> >> \in Seq(PlainStep)
      BY <3>1, ShortSeq
    <3>3. Opens(<<ApplyAll, MakesProjects>> \o << <<"seed", "schema">>, <<"zero", "setup">> >>, p)
      BY <1>2, <2>1, <3>2, OpensItself, OpensWith
    <3>4. first = << <<"apply", "all">>, <<"make", "projects">>, <<"seed", "schema">>,
                  <<"zero", "setup">> >>
      BY <2>1 DEF Provision
    <3>5. <<ApplyAll, MakesProjects>> \o << <<"seed", "schema">>, <<"zero", "setup">> >>
            = << ApplyAll, MakesProjects, <<"seed", "schema">>, <<"zero", "setup">> >>
      BY TwoAndTwo
    <3> QED
      BY <3>3, <3>4, <3>5 DEF ApplyAll, MakesProjects
  <2>2. CASE m.status # "provisioning"
    <3>1. <<>> \in Seq(PlainStep)
      OBVIOUS
    <3>2. first \in Seq(PlainStep)
      BY <1>1, <2>2, <3>1, PlainSequences
    <3> QED
      BY <1>3, <2>2, <3>2
  <2> QED
    BY <2>1, <2>2
<1> HIDE DEF first
<1>5. Opens(first \o Reseal4 \o Steps("unless ready", <<"round5", "round6">>), p)
  BY <1>4, PlainSequences, OpensWith
<1>6. CASE m.status = "seeding" /\ m.version = 5 /\ ~ m.round6
  BY <1>3, <1>6, PlainSequences DEF ResumeSteps
<1>7. CASE ~ (m.status = "seeding" /\ m.version = 5 /\ ~ m.round6)
  BY <1>5, <1>7 DEF ResumeSteps, first
<1> QED
  BY <1>6, <1>7

(* The opening of a run on manifest m, the plain steps aside.               *)
MayOpen(m, p) ==
  /\ p = <<ApplyAll>> <=> LaneStopped(m)
  /\ p = <<ApplyAll, MakesProjects>> <=> m.status = "provisioning"

LEMMA OpeningsDiffer ==
  /\ <<ApplyAll>> # <<ApplyAll, MakesProjects>> /\ <<>> # <<ApplyAll, MakesProjects>>
  /\ <<Baseline, ApplyAll>> # <<ApplyAll, MakesProjects>>
  /\ <<Baseline, ApplyAll>> # <<ApplyAll>> /\ <<>> # <<ApplyAll>>
<1>1. Baseline # ApplyAll
  BY DEF Baseline, ApplyAll
<1>2. /\ Len(<<>>) = 0 /\ Len(<<ApplyAll>>) = 1 /\ Len(<<ApplyAll, MakesProjects>>) = 2
      /\ Len(<<Baseline, ApplyAll>>) = 2 /\ <<Baseline, ApplyAll>>[1] = Baseline
      /\ <<ApplyAll, MakesProjects>>[1] = ApplyAll
  OBVIOUS
<1> QED
  BY <1>1, <1>2

LEMMA ResumeRun ==
  ASSUME NEW m \in Manifest
  PROVE  \E r, p : /\ Opens(r, p) /\ MayOpen(m, p)
                   /\ (IF LaneStopped(m) THEN << <<"apply", "all">> >> ELSE ResumeSteps(m))
                        \o Lanes = r \o Lanes
<1>1. CASE LaneStopped(m)
  <2>1. Opens(<<ApplyAll>>, <<ApplyAll>>)
    BY OpensItself DEF Opening
  <2>2. MayOpen(m, <<ApplyAll>>)
    BY <1>1, OpeningsDiffer DEF MayOpen, LaneStopped
  <2>3. << <<"apply", "all">> >> = <<ApplyAll>>
    BY DEF ApplyAll
  <2> QED
    BY <1>1, <2>1, <2>2, <2>3
<1>2. CASE ~ LaneStopped(m)
  <2>1. PICK p : /\ p = (IF m.status = "provisioning" THEN <<ApplyAll, MakesProjects>> ELSE <<>>)
                 /\ Opens(ResumeSteps(m), p)
    BY ResumeOpens
  <2>2. MayOpen(m, p)
    BY <1>2, <2>1, OpeningsDiffer DEF MayOpen
  <2> QED
    BY <1>2, <2>1, <2>2
<1> QED
  BY <1>1, <1>2

LEMMA SetupOpens ==
  ASSUME NEW m \in Manifest
  PROVE  \E r, p : Opens(r, p) /\ MayOpen(m, p) /\ SetupSteps(m) = r \o Lanes
<1>1. CASE LaneStopped(m)
  BY <1>1, ResumeRun DEF SetupSteps
<1>2. CASE m.status = "ready" /\ Ready6(m) /\ ~ LaneStopped(m)
  <2>1. Opens(<<Baseline, ApplyAll>>, <<Baseline, ApplyAll>>)
    BY OpensItself DEF Opening
  <2>2. Opens(<<Baseline, ApplyAll>> \o Reseal5 \o Reset, <<Baseline, ApplyAll>>)
    BY <2>1, PlainSequences, OpensWith
  <2>3. MayOpen(m, <<Baseline, ApplyAll>>)
    BY <1>2, OpeningsDiffer DEF MayOpen
  <2>4. SetupSteps(m) = <<Baseline, ApplyAll>> \o Reseal5 \o Reset \o Lanes
    BY <1>2 DEF SetupSteps, Baseline, ApplyAll
  <2> QED
    BY <2>2, <2>3, <2>4
<1>3. CASE ~ LaneStopped(m) /\ ~ (m.status = "ready" /\ Ready6(m) /\ ~ LaneStopped(m))
  BY <1>3, ResumeRun DEF SetupSteps
<1> QED
  BY <1>1, <1>2, <1>3

-----------------------------------------------------------------------------
(* The steps a cleanup starts with.                                        *)

Ordered(s) ==
  \A i \in 1..Len(s) : s[i] = Baseline =>
    \A j \in 1..(i - 1) : s[j][1] \notin {"forget", "destroy"}

LEMMA HasConcat ==
  ASSUME NEW S, NEW s \in Seq(S), NEW t \in Seq(S), NEW x
  PROVE  Has(s \o t, x) <=> Has(s, x) \/ Has(t, x)
<1>1. /\ Len(s \o t) = Len(s) + Len(t)
      /\ \A i \in 1..Len(s) + Len(t) :
           (s \o t)[i] = IF i <= Len(s) THEN s[i] ELSE t[i - Len(s)]
  BY ConcatProperties
<1>2. Len(s) \in Nat /\ Len(t) \in Nat
  OBVIOUS
<1>3. ASSUME Has(s \o t, x) PROVE Has(s, x) \/ Has(t, x)
  <2>1. PICK i \in 1..Len(s \o t) : (s \o t)[i] = x
    BY <1>3 DEF Has
  <2>2. CASE i <= Len(s)
    BY <1>1, <1>2, <2>1, <2>2 DEF Has
  <2>3. CASE i > Len(s)
    <3>1. i - Len(s) \in 1..Len(t) /\ t[i - Len(s)] = x
      BY <1>1, <1>2, <2>1, <2>3
    <3> QED
      BY <3>1 DEF Has
  <2> QED
    BY <1>2, <2>1, <2>2, <2>3
<1>4. ASSUME Has(s, x) PROVE Has(s \o t, x)
  BY <1>1, <1>2, <1>4 DEF Has
<1>5. ASSUME Has(t, x) PROVE Has(s \o t, x)
  <2>1. PICK i \in 1..Len(t) : t[i] = x
    BY <1>5 DEF Has
  <2>2. i + Len(s) \in 1..Len(s \o t) /\ (s \o t)[i + Len(s)] = x
    BY <1>1, <1>2, <2>1
  <2> QED
    BY <2>2 DEF Has
<1> QED
  BY <1>3, <1>4, <1>5

LEMMA OrderedConcat ==
  ASSUME NEW s \in Seq(CleanStep), NEW t \in Seq(LaterStep \cup {Unlinks}), Ordered(s)
  PROVE  Ordered(s \o t)
<1>1. \A x \in LaterStep \cup {Unlinks} : x \in CleanStep /\ x # Baseline
  <2>1. \A x \in LaterStep \cup {Unlinks} : x[1] # "baseline"
    BY DEF LaterStep, Unlinks
  <2>2. Baseline[1] = "baseline"
    BY DEF Baseline
  <2> QED
    BY <2>1, <2>2 DEF CleanStep, BodyStep
<1>2. t \in Seq(CleanStep)
  BY <1>1
<1>3. /\ Len(s \o t) = Len(s) + Len(t)
      /\ \A i \in 1..Len(s) + Len(t) :
           (s \o t)[i] = IF i <= Len(s) THEN s[i] ELSE t[i - Len(s)]
  BY <1>2, ConcatProperties
<1>4. Len(s) \in Nat /\ Len(t) \in Nat
  BY <1>2
<1> SUFFICES ASSUME NEW i \in 1..Len(s \o t), (s \o t)[i] = Baseline,
                    NEW j \in 1..(i - 1)
             PROVE  (s \o t)[j][1] \notin {"forget", "destroy"}
  BY DEF Ordered
<1>5. i <= Len(s)
  <2> SUFFICES ASSUME i > Len(s) PROVE FALSE
    BY <1>3, <1>4
  <2>1. i - Len(s) \in 1..Len(t) /\ t[i - Len(s)] = Baseline
    BY <1>3, <1>4
  <2> QED
    BY <1>1, <2>1
<1>6. s[i] = Baseline /\ (s \o t)[j] = s[j] /\ i \in 1..Len(s)
  BY <1>3, <1>4, <1>5
<1> QED
  BY <1>6 DEF Ordered

LEMMA StepsOfThree ==
  ASSUME NEW verb, NEW a, NEW b, NEW c
  PROVE  Steps(verb, <<a, b, c>>) = << <<verb, a>>, <<verb, b>>, <<verb, c>> >>
<1> DEFINE s == <<a, b, c>>
<1>1. Len(s) = 3 /\ s[1] = a /\ s[2] = b /\ s[3] = c
  OBVIOUS
<1> HIDE DEF s
<1>2. Steps(verb, s) = [i \in 1..3 |-> <<verb, s[i]>>]
  BY <1>1 DEF Steps
<1>3. ASSUME NEW x, NEW y, NEW z
      PROVE  <<x, y, z>> = [i \in 1..3 |-> IF i = 1 THEN x ELSE IF i = 2 THEN y ELSE z]
  OBVIOUS
<1>4. Steps(verb, s) = [i \in 1..3 |-> IF i = 1 THEN <<verb, a>> ELSE
                                       IF i = 2 THEN <<verb, b>> ELSE <<verb, c>>]
  BY <1>1, <1>2
<1>5. Steps(verb, s) = << <<verb, a>>, <<verb, b>>, <<verb, c>> >>
  BY <1>3, <1>4
<1> QED
  BY <1>5 DEF s

LEMMA HasNone == \A x : ~ Has(<<>>, x)
BY DEF Has

LEMMA HasOne == ASSUME NEW a PROVE \A x : Has(<<a>>, x) <=> x = a
BY DEF Has

LEMMA HasTwo == ASSUME NEW a, NEW b PROVE \A x : Has(<<a, b>>, x) <=> x \in {a, b}
BY DEF Has

LEMMA HasThree ==
  ASSUME NEW a, NEW b, NEW c PROVE \A x : Has(<<a, b, c>>, x) <=> x \in {a, b, c}
BY DEF Has

LEMMA CleanJoins ==
  ASSUME NEW s \in Seq(BodyStep), Ordered(s), NEW t \in Seq(LaterStep)
  PROVE  /\ s \o t \in Seq(BodyStep) /\ Ordered(s \o t)
         /\ \A x : Has(s \o t, x) <=> Has(s, x) \/ Has(t, x)
<1>1. t \in Seq(BodyStep) /\ t \in Seq(LaterStep \cup {Unlinks}) /\ s \in Seq(CleanStep)
  BY DEF BodyStep, CleanStep
<1>2. s \o t \in Seq(BodyStep)
  BY <1>1, ConcatProperties
<1>3. Ordered(s \o t)
  BY <1>1, OrderedConcat
<1>4. \A x : Has(s \o t, x) <=> Has(s, x) \/ Has(t, x)
  BY <1>1, HasConcat
<1> QED
  BY <1>2, <1>3, <1>4

LEMMA CleanEnds ==
  ASSUME NEW s \in Seq(BodyStep), Ordered(s)
  PROVE  LET w == s \o <<Unlinks>>
         IN  /\ w \in Seq(CleanStep) /\ w # <<>> /\ w[Len(w)] = Unlinks
             /\ \A i \in 1..Len(w) : w[i] = Unlinks => i = Len(w)
             /\ Ordered(w)
             /\ \A x : Has(w, x) <=> Has(s, x) \/ x = Unlinks
<1> DEFINE w == s \o <<Unlinks>>
<1>1. s \in Seq(CleanStep) /\ Unlinks \in CleanStep /\ Unlinks \in LaterStep \cup {Unlinks}
  BY DEF CleanStep
<1>2. <<Unlinks>> \in Seq(CleanStep) /\ <<Unlinks>> \in Seq(LaterStep \cup {Unlinks})
  <2> DEFINE last == LaterStep \cup {Unlinks}
  <2>1. Unlinks \in last
    OBVIOUS
  <2> HIDE DEF last
  <2>2. <<Unlinks>> \in Seq(last)
    BY <2>1
  <2> QED
    BY <1>1, <2>2 DEF last
<1>3. w = Append(s, Unlinks)
  BY <1>1, AppendIsConcat
<1>4. /\ w \in Seq(CleanStep) /\ w # <<>> /\ Len(w) = Len(s) + 1 /\ w[Len(s) + 1] = Unlinks
      /\ \A i \in 1..Len(s) : w[i] = s[i]
  BY <1>1, <1>3, AppendProperties
<1>5. Ordered(w)
  BY <1>1, <1>2, OrderedConcat
<1>6. \A x : Has(w, x) <=> Has(s, x) \/ x = Unlinks
  BY <1>1, <1>2, HasConcat, HasOne
<1>7. \A x \in BodyStep : x # Unlinks
  <2>1. \A x \in BodyStep : x[1] # "unlink"
    BY DEF BodyStep, EarlyStep, LaterStep, Baseline
  <2> QED
    BY <2>1 DEF Unlinks
<1>8. Len(s) \in Nat /\ \A i \in 1..Len(s) : s[i] \in BodyStep
  OBVIOUS
<1> HIDE DEF w
<1>9. \A i \in 1..Len(w) : w[i] = Unlinks => i = Len(w)
  BY <1>4, <1>7, <1>8
<1>10. w[Len(w)] = Unlinks
  BY <1>4
<1> QED
  BY <1>4, <1>5, <1>6, <1>9, <1>10 DEF w

(* What a cleanup starts with: whatever it will delete is on it, the        *)
(* baseline is looked at before anything is taken down, and the manifest    *)
(* goes last.                                                              *)
CleansUp(w, m, complete) ==
  /\ w \in Seq(CleanStep) /\ w # <<>> /\ w[Len(w)] = Unlinks
  /\ \A i \in 1..Len(w) : w[i] = Unlinks => i = Len(w)
  /\ Ordered(w)
  /\ \A x \in {"app", "round4", "projects"} : Has(w, <<"delete", x>>)
  /\ Has(w, <<"destroy", "state">>)
  /\ complete => Has(w, Baseline)
  /\ m.role => Has(w, <<"delete", "role">>)
  /\ Has(w, <<"forget", "role">>) => m.role

LEMMA CleanRun ==
  ASSUME NEW m, NEW complete \in BOOLEAN, NEW forced \in BOOLEAN
  PROVE  CleansUp(CleanupSteps(m, complete, forced), m, complete)
<1> DEFINE e1 == IF ~ m.round6 \/ receipt THEN <<>>
                 ELSE (IF forced THEN <<>> ELSE << <<"verify", "round6">> >>)
                      \o Steps("delete", <<"cdf6", "schema6">>) \o << <<"receipt", "round6">> >>
           e2 == IF complete THEN << <<"baseline", "round5">> >> ELSE <<>>
<1>1. \A x \in {"cdf6", "schema6", "app", "round4", "catalog6", "clone", "projects", "role"} :
        <<"delete", x>> \in EarlyStep /\ <<"delete", x>> \in LaterStep
  BY DEF EarlyStep, LaterStep, Deleted
<1>2. EarlyStep \subseteq BodyStep /\ Baseline \in BodyStep
  BY DEF BodyStep
<1>3. /\ <<"verify", "round6">> \in EarlyStep /\ <<"receipt", "round6">> \in EarlyStep
      /\ <<"forget", "guard">> \in LaterStep /\ <<"forget", "role">> \in LaterStep
      /\ <<"destroy", "state">> \in LaterStep
  BY DEF EarlyStep, LaterStep
<1>4. e1 \in Seq(EarlyStep)
  <2>1. Steps("delete", <<"cdf6", "schema6">>) = << <<"delete", "cdf6">>, <<"delete", "schema6">> >>
    BY StepsOfTwo
  <2>2. Steps("delete", <<"cdf6", "schema6">>) \in Seq(EarlyStep)
    BY <1>1, <2>1, ShortSeq
  <2>3. /\ <<>> \in Seq(EarlyStep) /\ << <<"verify", "round6">> >> \in Seq(EarlyStep)
        /\ << <<"receipt", "round6">> >> \in Seq(EarlyStep)
    BY <1>3, ShortSeq
  <2> QED
    BY <2>2, <2>3, ConcatProperties
<1>5. /\ e2 \in Seq(BodyStep) /\ (complete => Has(e2, Baseline))
      /\ \A i \in 1..Len(e2) : e2[i] = Baseline
  <2>1. <<Baseline>> \in Seq(BodyStep) /\ <<>> \in Seq(BodyStep)
    BY <1>2, ShortSeq
  <2>2. CASE complete
    <3>1. e2 = <<Baseline>>
      BY <2>2 DEF Baseline
    <3>2. Has(<<Baseline>>, Baseline)
      BY HasOne
    <3>3. Len(<<Baseline>>) = 1 /\ <<Baseline>>[1] = Baseline
      OBVIOUS
    <3> HIDE DEF e2
    <3>4. \A i \in 1..1 : i = 1
      OBVIOUS
    <3> QED
      BY <2>1, <3>1, <3>2, <3>3, <3>4
  <2>3. CASE ~ complete
    BY <2>1, <2>3
  <2> QED
    BY <2>2, <2>3
<1>6. PICK b : b = e1 \o e2
  OBVIOUS
<1>7. PICK l1 : l1 = << <<"forget", "guard">> >>
  OBVIOUS
<1>8. PICK l2 : l2 = IF m.role THEN << <<"forget", "role">> >> ELSE <<>>
  OBVIOUS
<1>9. PICK l3 : l3 = Steps("delete", <<"app", "round4", "catalog6">>)
  OBVIOUS
<1>10. PICK l4 : l4 = IF complete THEN << <<"delete", "clone">> >> ELSE <<>>
  OBVIOUS
<1>11. PICK l5 : l5 = << <<"destroy", "state">>, <<"delete", "projects">> >>
  OBVIOUS
<1>12. PICK l6 : l6 = IF m.role THEN << <<"delete", "role">> >> ELSE <<>>
  OBVIOUS
<1>13. CleanupSteps(m, complete, forced)
         = b \o l1 \o l2 \o l3 \o l4 \o l5 \o l6 \o <<Unlinks>>
  BY <1>6, <1>7, <1>8, <1>9, <1>10, <1>11, <1>12 DEF CleanupSteps, Unlinks
<1> DEFINE forgets == <<"forget", "role">>
<1>14. \A x : <<"delete", x>> # forgets /\ <<"destroy", x>> # forgets
  OBVIOUS
<1>15. b \in Seq(BodyStep) /\ Ordered(b) /\ ~ Has(b, forgets) /\ (complete => Has(b, Baseline))
  <2>0. e1 \in Seq(BodyStep)
    BY <1>2, <1>4
  <2>1. b \in Seq(BodyStep)
    BY <1>5, <1>6, <2>0, ConcatProperties
  <2>2. /\ Len(b) = Len(e1) + Len(e2)
        /\ \A i \in 1..Len(e1) + Len(e2) :
             b[i] = IF i <= Len(e1) THEN e1[i] ELSE e2[i - Len(e1)]
    <3>1. e1 \in Seq(BodyStep) /\ e2 \in Seq(BodyStep)
      BY <1>5, <2>0
    <3> HIDE DEF e1, e2
    <3>2. /\ Len(e1 \o e2) = Len(e1) + Len(e2)
          /\ \A i \in 1..Len(e1) + Len(e2) :
               (e1 \o e2)[i] = IF i <= Len(e1) THEN e1[i] ELSE e2[i - Len(e1)]
      BY <3>1, ConcatProperties
    <3> QED
      BY <1>6, <3>2
  <2>3. \A x \in EarlyStep : x[1] \notin {"forget", "destroy"}
    BY DEF EarlyStep
  <2>4. Baseline[1] = "baseline" /\ forgets[1] = "forget"
    BY DEF Baseline
  <2>5. Len(e1) \in Nat /\ Len(e2) \in Nat
    BY <1>5, <2>0
  <2> HIDE DEF e1, e2, forgets
  <2>6. ASSUME NEW j \in 1..Len(b) PROVE b[j][1] \notin {"forget", "destroy"}
    <3>1. CASE j <= Len(e1)
      <4>1. b[j] = e1[j] /\ e1[j] \in EarlyStep
        BY <1>4, <2>2, <2>5, <3>1
      <4> QED
        BY <2>3, <4>1
    <3>2. CASE j > Len(e1)
      <4>1. b[j] = e2[j - Len(e1)] /\ j - Len(e1) \in 1..Len(e2)
        BY <2>2, <2>5, <3>2
      <4> QED
        BY <1>5, <2>4, <4>1
    <3> QED
      BY <2>2, <2>5, <3>1, <3>2
  <2>7. Len(b) \in Nat
    BY <2>1
  <2>8. Ordered(b)
    BY <2>6, <2>7 DEF Ordered
  <2>9. ~ Has(b, forgets)
    BY <2>4, <2>6 DEF Has
  <2>10. complete => Has(b, Baseline)
    BY <1>5, <1>6, <2>0, HasConcat
  <2> QED
    BY <2>1, <2>8, <2>9, <2>10
<1> HIDE DEF e1, e2
<1>16. /\ l1 \in Seq(LaterStep) /\ ~ Has(l1, forgets)
  <2>1. <<"forget", "guard">> # forgets
    OBVIOUS
  <2> HIDE DEF forgets
  <2> QED
    BY <1>3, <1>7, <2>1, ShortSeq, HasOne
<1>17. l2 \in Seq(LaterStep) /\ (Has(l2, forgets) => m.role)
  BY <1>3, <1>8, ShortSeq, HasNone, HasOne
<1>18. /\ l3 \in Seq(LaterStep) /\ ~ Has(l3, forgets)
       /\ Has(l3, <<"delete", "app">>) /\ Has(l3, <<"delete", "round4">>)
  <2>1. l3 = << <<"delete", "app">>, <<"delete", "round4">>, <<"delete", "catalog6">> >>
    BY <1>9, StepsOfThree
  <2>2. PICK x, y, z : x = <<"delete", "app">> /\ y = <<"delete", "round4">>
                       /\ z = <<"delete", "catalog6">>
    OBVIOUS
  <2>3. l3 = <<x, y, z>> /\ {x, y, z} \subseteq LaterStep /\ forgets \notin {x, y, z}
    BY <1>1, <1>14, <2>1, <2>2
  <2>4. l3 \in Seq(LaterStep)
    BY <2>3, ShortSeq
  <2>5. \A s : Has(l3, s) <=> s \in {x, y, z}
    BY <2>3, HasThree
  <2> QED
    BY <2>2, <2>3, <2>4, <2>5
<1>19. l4 \in Seq(LaterStep) /\ ~ Has(l4, forgets)
  <2>1. PICK x : x = <<"delete", "clone">>
    OBVIOUS
  <2>2. l4 = (IF complete THEN <<x>> ELSE <<>>) /\ x \in LaterStep /\ x # forgets
    BY <1>1, <1>10, <1>14, <2>1
  <2> HIDE DEF forgets
  <2>3. l4 \in Seq(LaterStep)
    BY <2>2, ShortSeq
  <2>4. ~ Has(<<>>, forgets) /\ ~ Has(<<x>>, forgets)
    BY <2>2, HasNone, HasOne
  <2> QED
    BY <2>2, <2>3, <2>4
<1>20. /\ l5 \in Seq(LaterStep) /\ ~ Has(l5, forgets)
       /\ Has(l5, <<"delete", "projects">>) /\ Has(l5, <<"destroy", "state">>)
  <2>1. PICK x, y : x = <<"destroy", "state">> /\ y = <<"delete", "projects">>
    OBVIOUS
  <2>2. l5 = <<x, y>> /\ {x, y} \subseteq LaterStep /\ forgets \notin {x, y}
    BY <1>1, <1>3, <1>11, <1>14, <2>1
  <2>3. l5 \in Seq(LaterStep)
    BY <2>2, ShortSeq
  <2>4. \A s : Has(l5, s) <=> s \in {x, y}
    BY <2>2, HasTwo
  <2> QED
    BY <2>1, <2>2, <2>3, <2>4
<1>21. /\ l6 \in Seq(LaterStep) /\ ~ Has(l6, forgets)
       /\ m.role => Has(l6, <<"delete", "role">>)
  <2>1. PICK x : x = <<"delete", "role">>
    OBVIOUS
  <2>2. l6 = (IF m.role THEN <<x>> ELSE <<>>) /\ x \in LaterStep /\ x # forgets
    BY <1>1, <1>12, <1>14, <2>1
  <2>3. l6 \in Seq(LaterStep)
    BY <2>2, ShortSeq
  <2>4. ~ Has(<<>>, forgets) /\ ~ Has(<<x>>, forgets) /\ Has(<<x>>, x)
    BY <2>2, HasNone, HasOne
  <2>5. ~ Has(l6, forgets) /\ (m.role => Has(l6, x))
    BY <2>2, <2>4
  <2> QED
    BY <2>1, <2>3, <2>5
<1>22. PICK w1 : w1 = b \o l1
  OBVIOUS
<1>23. /\ w1 \in Seq(BodyStep) /\ Ordered(w1)
       /\ \A x : Has(w1, x) <=> Has(b, x) \/ Has(l1, x)
  BY <1>15, <1>16, <1>22, CleanJoins
<1>24. PICK w2 : w2 = w1 \o l2
  OBVIOUS
<1>25. /\ w2 \in Seq(BodyStep) /\ Ordered(w2)
       /\ \A x : Has(w2, x) <=> Has(w1, x) \/ Has(l2, x)
  BY <1>23, <1>17, <1>24, CleanJoins
<1>26. PICK w3 : w3 = w2 \o l3
  OBVIOUS
<1>27. /\ w3 \in Seq(BodyStep) /\ Ordered(w3)
       /\ \A x : Has(w3, x) <=> Has(w2, x) \/ Has(l3, x)
  BY <1>25, <1>18, <1>26, CleanJoins
<1>28. PICK w4 : w4 = w3 \o l4
  OBVIOUS
<1>29. /\ w4 \in Seq(BodyStep) /\ Ordered(w4)
       /\ \A x : Has(w4, x) <=> Has(w3, x) \/ Has(l4, x)
  BY <1>27, <1>19, <1>28, CleanJoins
<1>30. PICK w5 : w5 = w4 \o l5
  OBVIOUS
<1>31. /\ w5 \in Seq(BodyStep) /\ Ordered(w5)
       /\ \A x : Has(w5, x) <=> Has(w4, x) \/ Has(l5, x)
  BY <1>29, <1>20, <1>30, CleanJoins
<1>32. PICK w6 : w6 = w5 \o l6
  OBVIOUS
<1>33. /\ w6 \in Seq(BodyStep) /\ Ordered(w6)
       /\ \A x : Has(w6, x) <=> Has(w5, x) \/ Has(l6, x)
  BY <1>31, <1>21, <1>32, CleanJoins
<1>34. PICK w : w = w6 \o <<Unlinks>>
  OBVIOUS
<1>35. CleanupSteps(m, complete, forced) = w
  BY <1>13, <1>22, <1>24, <1>26, <1>28, <1>30, <1>32, <1>34
<1>36. /\ w \in Seq(CleanStep) /\ w # <<>> /\ w[Len(w)] = Unlinks
       /\ \A i \in 1..Len(w) : w[i] = Unlinks => i = Len(w)
       /\ Ordered(w)
       /\ \A x : Has(w, x) <=> Has(w6, x) \/ x = Unlinks
  BY <1>33, <1>34, CleanEnds
<1>37. \A x : Has(w, x) <=> \/ Has(b, x) \/ Has(l1, x) \/ Has(l2, x) \/ Has(l3, x)
                           \/ Has(l4, x) \/ Has(l5, x) \/ Has(l6, x) \/ x = Unlinks
  BY <1>23, <1>25, <1>27, <1>29, <1>31, <1>33, <1>36
<1>38. Unlinks # forgets
  BY DEF Unlinks
<1> HIDE DEF forgets
<1>39. Has(w, forgets) => m.role
  BY <1>15, <1>16, <1>17, <1>18, <1>19, <1>20, <1>21, <1>37, <1>38
<1>40. /\ \A x \in {"app", "round4", "projects"} : Has(w, <<"delete", x>>)
       /\ Has(w, <<"destroy", "state">>)
       /\ complete => Has(w, Baseline)
       /\ m.role => Has(w, <<"delete", "role">>)
  BY <1>15, <1>18, <1>20, <1>21, <1>37
<1> QED
  BY <1>35, <1>36, <1>39, <1>40 DEF forgets, CleansUp

-----------------------------------------------------------------------------
(* The command under way, and its types.                                   *)

(* A cleanup's run ends with the manifest's removal and holds no step of   *)
(* setup; any other run is of setup's steps.                               *)
Shape ==
  IF Cleaning
  THEN /\ run \in Seq(CleanStep) /\ intent = "remove"
       /\ \A i \in 1..Len(run) : run[i] = Unlinks => i = Len(run)
  ELSE run \in Seq(SetupStep)

(* What Terraform's state and the account hold under one name.             *)
Held == {"fleet"} \cup Lane

Typed == InstallTypeOK /\ (run # <<>> => file # None) /\ Shape

CleanVerb == {"verify", "receipt", "baseline", "forget", "destroy", "unlink", "delete"}
SetupVerb ==
  {"seed", "zero", "seal", "begin", "check", "unless ready", "if ready", "wipe", "finish",
   "make", "record", "apply", "prove", "baseline"}

LEMMA StepVerbs ==
  /\ \A s \in CleanStep : s[1] \in CleanVerb
  /\ \A s \in SetupStep : s[1] \in SetupVerb
  /\ \A s \in CleanStep : s[1] = "delete" => s[2] \in Deleted
  /\ Unlinks \notin SetupStep
<1>1. \A s \in CleanStep : s[1] \in CleanVerb /\ (s[1] = "delete" => s[2] \in Deleted)
  BY DEF CleanStep, BodyStep, EarlyStep, LaterStep, Baseline, Unlinks, CleanVerb
<1>2. \A s \in SetupStep : s[1] \in SetupVerb
  <2>1. \A s \in PlainStep \cup LaneStep : s[1] \in SetupVerb
    BY DEF PlainStep, LaneStep, SetupVerb
  <2>2. Baseline[1] \in SetupVerb /\ ApplyAll[1] \in SetupVerb /\ MakesProjects[1] \in SetupVerb
    BY DEF Baseline, ApplyAll, MakesProjects, SetupVerb
  <2> QED
    BY <2>1, <2>2 DEF SetupStep
<1>3. Unlinks[1] \notin SetupVerb
  BY DEF Unlinks, SetupVerb
<1> QED
  BY <1>1, <1>2, <1>3

LEMMA RunIsSeq ==
  ASSUME Typed
  PROVE  run \in Seq(CleanStep \cup SetupStep)
BY DEF Typed, Shape

(* The step in hand is of the command's kind.                              *)
LEMMA InHand ==
  ASSUME Typed, NEW v, NEW x, At(v, x)
  PROVE  /\ run # <<>> /\ file # None /\ file \in Manifest /\ run[1] = <<v, x>>
         /\ 1 \in 1..Len(run)
         /\ Cleaning => v \in CleanVerb /\ (v = "delete" => x \in Deleted)
         /\ ~ Cleaning => v \in SetupVerb
<1>1. /\ run # <<>> /\ run \in Seq(CleanStep \cup SetupStep) /\ run[1] = <<v, x>>
      /\ 1 \in 1..Len(run) /\ file # None /\ file \in Manifest
  BY RunIsSeq DEF At, Typed, InstallTypeOK
<1>2. Cleaning => run[1] \in CleanStep
  BY <1>1 DEF Typed, Shape
<1>3. ~ Cleaning => run[1] \in SetupStep
  BY <1>1 DEF Typed, Shape
<1> QED
  BY <1>1, <1>2, <1>3, StepVerbs

(* What is left once the step in hand is done.                             *)
LEMMA GoesOn ==
  ASSUME Typed, run # <<>>, GoOn
  PROVE  /\ Len(run) \in Nat \ {0} /\ Len(run') = Len(run) - 1
         /\ \A i \in 1..Len(run') : run'[i] = run[i + 1] /\ i + 1 \in 1..Len(run)
         /\ Cleaning' <=> Cleaning /\ run[1] # Unlinks
         /\ intent' = intent => Shape'
         /\ Cleaning /\ run[1] = Unlinks => run' = <<>> /\ Len(run) = 1
<1>1. /\ run \in Seq(CleanStep \cup SetupStep) /\ Len(run) \in Nat \ {0}
      /\ run' \in Seq(CleanStep \cup SetupStep)
      /\ Len(run') = Len(run) - 1 /\ \A i \in 1..Len(run') : run'[i] = run[i + 1]
  BY RunIsSeq, HeadTailProperties DEF GoOn
<1>2. \A i \in 1..Len(run') : i + 1 \in 1..Len(run)
  BY <1>1
<1>3. ASSUME Cleaning
      PROVE  /\ Cleaning' <=> run[1] # Unlinks
             /\ run[1] = Unlinks => run' = <<>> /\ Len(run) = 1
             /\ intent' = intent => Shape'
  <2>1. /\ run \in Seq(CleanStep) /\ intent = "remove" /\ run[Len(run)] = Unlinks
        /\ \A i \in 1..Len(run) : run[i] = Unlinks => i = Len(run)
    BY <1>3 DEF Typed, Shape, Cleaning, Unlinks
  <2>2. run' \in Seq(CleanStep)
    BY <2>1, <1>3, HeadTailProperties DEF GoOn
  <2>3. CASE run[1] = Unlinks
    <3>1. Len(run) = 1
      BY <1>1, <2>1, <2>3
    <3>2. run' = <<>>
      BY <1>1, <3>1
    <3>3. ~ Cleaning' /\ run' \in Seq(SetupStep)
      BY <3>2 DEF Cleaning
    <3> QED
      BY <2>3, <3>1, <3>2, <3>3 DEF Shape
  <2>4. CASE run[1] # Unlinks
    <3>1. Len(run) > 1
      BY <1>1, <2>1, <2>4
    <3>2. run'[Len(run')] = Unlinks /\ run' # <<>>
      BY <1>1, <2>1, <3>1
    <3>3. Cleaning'
      BY <3>2 DEF Cleaning, Unlinks
    <3>4. \A i \in 1..Len(run') : run'[i] = Unlinks => i = Len(run')
      BY <1>1, <1>2, <2>1
    <3> QED
      BY <2>1, <2>2, <2>4, <3>3, <3>4 DEF Shape
  <2> QED
    BY <2>3, <2>4
<1>4. ASSUME ~ Cleaning PROVE ~ Cleaning' /\ Shape'
  <2>1. run \in Seq(SetupStep)
    BY <1>4 DEF Typed, Shape
  <2>2. run' \in Seq(SetupStep)
    BY <2>1, HeadTailProperties DEF GoOn
  <2>3. run' # <<>> => run'[Len(run')] \in SetupStep
    BY <2>2
  <2>4. ~ Cleaning'
    BY <2>3, StepVerbs DEF Cleaning, Unlinks
  <2> QED
    BY <2>2, <2>4 DEF Shape
<1> QED
  BY <1>1, <1>2, <1>3, <1>4

LEMMA SavesTyped ==
  ASSUME Typed, run # <<>>, NEW m \in Manifest, Saves(m), cloud' \subseteq Thing
  PROVE  Typed'
<1>1. Shape'
  BY GoesOn DEF Saves, operator
<1>2. file' # None
  BY NoFileAssumption DEF Saves
<1> QED
  BY <1>1, <1>2 DEF Saves, Typed, InstallTypeOK, operator

LEMMA PassTyped ==
  ASSUME Typed, run # <<>>, GoOn, file' = file, UNCHANGED operator,
         state' \subseteq Address, cloud' \subseteq Thing, receipt' \in BOOLEAN, app' \in AppRecord,
         stops' \in 0..MaxStops
  PROVE  Typed'
<1>1. Shape'
  BY GoesOn DEF operator
<1> QED
  BY <1>1 DEF Typed, InstallTypeOK, operator

LEMMA StaysTyped ==
  ASSUME Typed, run' = run, file' = file, intent' = intent, told' \in Tells,
         state' \subseteq Address, cloud' \subseteq Thing, receipt' \in BOOLEAN, app' \in AppRecord,
         stops' \in 0..MaxStops
  PROVE  Typed'
BY DEF Typed, InstallTypeOK, Shape, Cleaning

LEMMA EndsTyped ==
  ASSUME Typed, run' = <<>>, file' \in Manifest \cup {None}, intent' \in {"install", "remove"},
         told' \in Tells,
         state' \subseteq Address, cloud' \subseteq Thing, receipt' \in BOOLEAN, app' \in AppRecord,
         stops' \in 0..MaxStops
  PROVE  Typed'
<1>1. Shape'
  BY DEF Shape, Cleaning
<1> QED
  BY <1>1 DEF Typed, InstallTypeOK

LEMMA RaisesTyped ==
  ASSUME Typed, run # <<>>, Raises, intent' = intent,
         state' \subseteq Address, cloud' \subseteq Thing, receipt' \in BOOLEAN, app' \in AppRecord,
         stops' \in 0..MaxStops
  PROVE  Typed'
<1>1. file' \in Manifest
  BY DEF Raises, Typed, InstallTypeOK, Manifest, Status
<1> QED
  BY <1>1, EndsTyped DEF Raises, Typed, InstallTypeOK

(* A new run of setup, and one of cleanup.                                 *)
LEMMA SetupTyped ==
  ASSUME Typed, run' \in Seq(SetupStep), file' \in Manifest, intent' = intent,
         told' \in Tells, UNCHANGED <<state, cloud, beside, stops>>
  PROVE  Typed' /\ ~ Cleaning'
<1>1. ~ Cleaning'
  <2>1. run' # <<>> => run'[Len(run')] \in SetupStep
    OBVIOUS
  <2> QED
    BY <2>1, StepVerbs DEF Cleaning, Unlinks
<1> QED
  BY <1>1, NoFileAssumption DEF Typed, InstallTypeOK, Shape

LEMMA Manifests ==
  /\ Fresh \in Manifest
  /\ \A m \in Manifest :
       /\ \A s \in Status : [m EXCEPT !.status = s] \in Manifest
       /\ [m EXCEPT !.role = TRUE] \in Manifest
       /\ \A b \in BOOLEAN : [m EXCEPT !.role = @ \/ b] \in Manifest
       /\ \A seal \in Seal4 : CommitReseal4(m, seal) \in Manifest
       /\ [m EXCEPT !.round5 = TRUE, !.status = "seeding"] \in Manifest
       /\ [m EXCEPT !.version = 7, !.status = "seeding"] \in Manifest
       /\ [m EXCEPT !.version = 5, !.status = "ready"] \in Manifest
       /\ [m EXCEPT !.round6 = TRUE, !.version = 7, !.status = "ready"] \in Manifest
       /\ \A l \in Lane : /\ Enable(m, l) \in Manifest
                          /\ [m EXCEPT !.lane[l] = "sealed"] \in Manifest
                          /\ [m EXCEPT !.lane[l] = "unsupported"] \in Manifest
<1>1. Fresh \in Manifest
  BY DEF Fresh, Manifest, Status
<1>2. ASSUME NEW m \in Manifest
      PROVE  /\ \A s \in Status : [m EXCEPT !.status = s] \in Manifest
             /\ [m EXCEPT !.role = TRUE] \in Manifest
             /\ \A b \in BOOLEAN : [m EXCEPT !.role = @ \/ b] \in Manifest
  BY DEF Manifest
<1>3. ASSUME NEW m \in Manifest, NEW seal \in Seal4 PROVE CommitReseal4(m, seal) \in Manifest
  BY DEF Manifest, CommitReseal4
<1>4. ASSUME NEW m \in Manifest
      PROVE  /\ [m EXCEPT !.round5 = TRUE, !.status = "seeding"] \in Manifest
             /\ [m EXCEPT !.version = 7, !.status = "seeding"] \in Manifest
             /\ [m EXCEPT !.version = 5, !.status = "ready"] \in Manifest
             /\ [m EXCEPT !.round6 = TRUE, !.version = 7, !.status = "ready"] \in Manifest
  BY DEF Manifest, Status
<1>5. ASSUME NEW m \in Manifest, NEW l \in Lane
      PROVE  /\ Enable(m, l) \in Manifest
             /\ [m EXCEPT !.lane[l] = "sealed"] \in Manifest
             /\ [m EXCEPT !.lane[l] = "unsupported"] \in Manifest
  BY DEF Manifest, Enable
<1> QED
  BY <1>1, <1>2, <1>3, <1>4, <1>5

LEMMA Sets ==
  /\ Held \subseteq Address /\ Base \subseteq Address /\ Lane \subseteq Address
  /\ Held \subseteq Thing /\ "role" \in Thing /\ Address \ {"guard"} \subseteq Thing
  /\ "guard" \notin Held /\ "role" \notin Held
  /\ {"projects", "round4", "job4", "schema6", "cdf6", "catalog6", "app", "clone", "proxy"}
       \subseteq Thing
  /\ {"projects", "round4", "job4", "schema6", "cdf6", "catalog6", "app", "clone", "proxy", "role"}
       \cap Held = {}
BY DEF Held, Base, Lane, Address, Thing, Billed

(* Where Terraform stands after one address, wherever it stops.            *)
LEMMA FlipTyped ==
  ASSUME state \subseteq Address, cloud \subseteq Thing, NEW a \in Address
  PROVE  Flip(state, {a}) \subseteq Address /\ Flip(cloud, {a} \ {"guard"}) \subseteq Thing
BY Sets DEF Flip

LEMMA SetupStepTyped == Typed /\ Setup => Typed'
<1> SUFFICES ASSUME Typed, Setup PROVE Typed'
  OBVIOUS
<1>t. InstallTypeOK
  BY DEF Typed
<1>1. ASSUME NEW scope \in Scope, ApplyOne(scope) PROVE Typed'
  <2>1. PICK a \in Changes : state' = Flip(state, {a}) /\ cloud' = Flip(cloud, {a} \ {"guard"})
    BY <1>1 DEF ApplyOne
  <2>2. a \in Address
    BY DEF Changes
  <2> QED
    BY <1>1, <1>t, <2>1, <2>2, FlipTyped, StaysTyped DEF ApplyOne, InstallTypeOK, operator
<1>2. ASSUME NEW scope \in Scope, Applied(scope) PROVE Typed'
  <2>1. run # <<>> /\ file \in Manifest
    BY <1>2, InHand DEF Applied
  <2>2. file' \in Manifest
    BY <1>2, <2>1, Manifests DEF Applied
  <2>3. Shape' /\ file' # None
    BY <1>2, <2>1, <2>2, GoesOn, NoFileAssumption DEF Applied, operator
  <2> QED
    BY <1>2, <1>t, <2>2, <2>3 DEF Typed, Applied, InstallTypeOK, operator
<1>3. CASE MakeProjects
  <2>1. run # <<>> /\ file \in Manifest /\ cloud' \subseteq Thing
    BY <1>3, <1>t, InHand, Sets DEF MakeProjects, InstallTypeOK
  <2>2. [file EXCEPT !.status = "seeding"] \in Manifest
    BY <2>1, Manifests DEF Status
  <2> QED
    BY <1>3, <2>1, <2>2, SavesTyped DEF MakeProjects
<1>4. CASE Seed
  <2>1. run # <<>> /\ file \in Manifest /\ cloud' \subseteq Thing
    BY <1>4, <1>t, InHand, Sets DEF Seed, InstallTypeOK
  <2>2. [file EXCEPT !.status = "waiting_for_zero"] \in Manifest
    BY <2>1, Manifests DEF Status
  <2> QED
    BY <1>4, <2>1, <2>2, SavesTyped DEF Seed
<1>5. CASE WaitForZero
  <2>1. run # <<>> /\ file \in Manifest /\ cloud' \subseteq Thing
    BY <1>5, <1>t, InHand, Sets DEF WaitForZero, InstallTypeOK
  <2>2. [file EXCEPT !.status = "ready"] \in Manifest
    BY <2>1, Manifests DEF Status
  <2> QED
    BY <1>5, <2>1, <2>2, SavesTyped DEF WaitForZero
<1>6. CASE Make4
  <2>1. run # <<>> /\ file \in Manifest /\ cloud' \subseteq Thing
    BY <1>6, <1>t, InHand, Sets DEF Make4, InstallTypeOK
  <2> QED
    BY <1>6, <2>1, SavesTyped DEF Make4
<1>7. CASE Seal4At
  <2>1. run # <<>> /\ file \in Manifest /\ cloud' \subseteq Thing
    BY <1>7, <1>t, InHand, Sets DEF Seal4At, InstallTypeOK
  <2>2. PICK seal \in Seal4 :
          Saves([CommitReseal4(file, seal) EXCEPT !.status = "waiting_for_zero"])
    BY <1>7 DEF Seal4At
  <2>3. [CommitReseal4(file, seal) EXCEPT !.status = "waiting_for_zero"] \in Manifest
    BY <2>1, Manifests DEF Status
  <2> QED
    BY <2>1, <2>2, <2>3, SavesTyped
<1>8. CASE UnlessReady
  <2>1. PICK take \in BOOLEAN, steps \in {Reseal5, Reseal6} : Expands(take, steps)
    BY <1>8 DEF UnlessReady, Ready5, Ready6
  <2>2. run # <<>> /\ ~ Cleaning /\ file # None
    <3>1. "unless ready" \notin CleanVerb /\ "if ready" \notin CleanVerb
      BY DEF CleanVerb
    <3>2. \/ At("unless ready", "round5") \/ At("unless ready", "round6")
          \/ At("if ready", "round5")
      BY <1>8 DEF UnlessReady
    <3> QED
      BY <3>1, <3>2, InHand
  <2>3. steps \in Seq(SetupStep) /\ Tail(run) \in Seq(SetupStep)
    <3>1. steps \in Seq(PlainStep)
      BY PlainSequences
    <3>2. run \in Seq(SetupStep)
      BY <2>2 DEF Typed, Shape
    <3> QED
      BY <2>2, <3>1, <3>2, HeadTailProperties DEF SetupStep
  <2>4. run' \in Seq(SetupStep)
    <3>1. (IF take THEN steps ELSE <<>>) \in Seq(SetupStep)
      BY <2>3
    <3> QED
      BY <2>1, <2>3, <3>1, ConcatProperties DEF Expands
  <2>5. file \in Manifest
    BY <1>t, <2>2 DEF InstallTypeOK
  <2> QED
    BY <1>t, <2>1, <2>4, <2>5, SetupTyped DEF Expands, operator, InstallTypeOK
<1>9. CASE Begin5
  <2>1. run # <<>> /\ file \in Manifest /\ cloud' \subseteq Thing
    BY <1>9, <1>t, InHand, Sets DEF Begin5, InstallTypeOK
  <2>2. (IF Ready5(file) THEN file ELSE [file EXCEPT !.status = "seeding"]) \in Manifest
    BY <2>1, Manifests DEF Status
  <2> QED
    BY <1>9, <2>1, <2>2, SavesTyped DEF Begin5
<1>10. CASE Rotate5
  <2>1. run # <<>> /\ file \in Manifest /\ cloud' \subseteq Thing
    BY <1>10, <1>t, InHand, Sets DEF Rotate5, InstallTypeOK
  <2> QED
    BY <1>10, <2>1, Manifests, SavesTyped DEF Rotate5
<1>11. CASE Check5
  <2>1. run # <<>> /\ file \in Manifest /\ cloud' \subseteq Thing
    BY <1>11, <1>t, InHand, Sets DEF Check5, InstallTypeOK
  <2>2. (IF file.round6 THEN [file EXCEPT !.version = 7, !.status = "seeding"]
         ELSE [file EXCEPT !.version = 5, !.status = "ready"]) \in Manifest
    BY <2>1, Manifests
  <2> QED
    BY <1>11, <2>1, <2>2, SavesTyped DEF Check5
<1>12. CASE Begin6
  <2>1. run # <<>> /\ file \in Manifest /\ cloud' \subseteq Thing
    BY <1>12, <1>t, InHand, Sets DEF Begin6, InstallTypeOK
  <2>2. [file EXCEPT !.status = "seeding"] \in Manifest
    BY <2>1, Manifests DEF Status
  <2> QED
    BY <1>12, <2>1, <2>2, SavesTyped DEF Begin6
<1>13. CASE Make6
  <2>1. run # <<>> /\ file \in Manifest /\ cloud' \subseteq Thing
    BY <1>13, <1>t, InHand, Sets DEF Make6, InstallTypeOK
  <2> QED
    BY <1>13, <2>1, SavesTyped DEF Make6
<1>14. CASE Seal6
  <2>1. run # <<>> /\ file \in Manifest /\ cloud' \subseteq Thing
    BY <1>14, <1>t, InHand, Sets DEF Seal6, InstallTypeOK
  <2> QED
    BY <1>14, <2>1, Manifests, SavesTyped DEF Seal6
<1>15. ASSUME NEW l \in Lane, RecordLane(l) PROVE Typed'
  <2>1. run # <<>> /\ file \in Manifest /\ cloud' \subseteq Thing
    BY <1>15, <1>t, InHand, Sets DEF RecordLane, InstallTypeOK
  <2>2. PICK other \in BOOLEAN : Saves(IF other THEN Enable(file, l) ELSE file)
    BY <1>15 DEF RecordLane
  <2>3. (IF other THEN Enable(file, l) ELSE file) \in Manifest
    BY <2>1, Manifests
  <2> QED
    BY <2>1, <2>2, <2>3, SavesTyped
<1>16. ASSUME NEW l \in Lane, SealLane(l) PROVE Typed'
  <2>1. run # <<>> /\ file \in Manifest /\ cloud' \subseteq Thing
    BY <1>16, <1>t, InHand, Sets DEF SealLane, InstallTypeOK
  <2> QED
    BY <1>16, <2>1, Manifests, SavesTyped DEF SealLane
<1>17. CASE Unsupported
  <2>1. run # <<>> /\ file \in Manifest
    BY <1>17, InHand DEF Unsupported
  <2>2. file' \in Manifest
    BY <1>17, <2>1, Manifests DEF Unsupported, Lane
  <2> QED
    BY <1>17, <1>t, <2>2, EndsTyped DEF Unsupported, InstallTypeOK, operator
<1>18. CASE Wipe
  <2>1. run # <<>> /\ file \in Manifest /\ cloud' \subseteq Thing
    BY <1>18, <1>t, InHand, Sets DEF Wipe, InstallTypeOK
  <2>2. [file EXCEPT !.status = "seeding"] \in Manifest
    BY <2>1, Manifests DEF Status
  <2> QED
    BY <1>18, <2>1, <2>2, SavesTyped DEF Wipe
<1> QED
  BY <1>1, <1>2, <1>3, <1>4, <1>5, <1>6, <1>7, <1>8, <1>9, <1>10, <1>11, <1>12, <1>13, <1>14,
     <1>15, <1>16, <1>17, <1>18 DEF Setup

LEMMA CleanupStepTyped == Typed /\ Cleanup => Typed'
<1> SUFFICES ASSUME Typed, Cleanup PROVE Typed'
  OBVIOUS
<1>t. InstallTypeOK
  BY DEF Typed
<1>1. CASE CleanBaseline
  BY <1>1, <1>t, InHand, PassTyped DEF CleanBaseline, InstallTypeOK, operator
<1>2. CASE Verify6
  BY <1>2, <1>t, InHand, PassTyped DEF Verify6, InstallTypeOK, operator
<1>3. CASE WriteReceipt
  BY <1>3, <1>t, InHand, PassTyped DEF WriteReceipt, InstallTypeOK, operator
<1>4. ASSUME NEW thing \in {"guard", "role"}, Forget(thing) PROVE Typed'
  BY <1>4, <1>t, InHand, PassTyped DEF Forget, InstallTypeOK, operator
<1>5. ASSUME NEW thing \in Thing, Delete(thing) PROVE Typed'
  BY <1>5, <1>t, InHand, PassTyped DEF Delete, InstallTypeOK, operator
<1>6. CASE DestroyOne
  BY <1>6, <1>t, StaysTyped DEF DestroyOne, InstallTypeOK, operator
<1>7. CASE Destroyed
  BY <1>7, <1>t, InHand, PassTyped DEF Destroyed, InstallTypeOK, operator
<1>8. CASE Unlink
  <2>1. run # <<>> /\ run[1] = Unlinks
    BY <1>8, InHand DEF Unlink, Unlinks
  <2>2. Cleaning
    <3>1. "unlink" \notin SetupVerb
      BY DEF SetupVerb
    <3>2. At("unlink", "file")
      BY <1>8 DEF Unlink
    <3> QED
      BY <3>1, <3>2, InHand
  <2>3. run' = <<>>
    BY <1>8, <2>1, <2>2, GoesOn DEF Unlink
  <2> QED
    BY <1>8, <1>t, <2>3, EndsTyped DEF Unlink, InstallTypeOK, operator
<1> QED
  BY <1>1, <1>2, <1>3, <1>4, <1>5, <1>6, <1>7, <1>8 DEF Cleanup

LEMMA OperatorTyped == Typed /\ Operator => Typed'
<1> SUFFICES ASSUME Typed, Operator PROVE Typed'
  OBVIOUS
<1>t. InstallTypeOK
  BY DEF Typed
<1>0. ASSUME NEW r, NEW p, Opens(r, p) PROVE r \o Lanes \in Seq(SetupStep)
  <2>1. PICK w : w = r \o Lanes
    OBVIOUS
  <2> QED
    BY <1>0, <2>1, SetupRun DEF SetsUp
<1>1. CASE StartProvision
  <2>1. PICK p : Opens(ResumeSteps(Fresh), p)
    BY Manifests, ResumeOpens
  <2>2. run' \in Seq(SetupStep)
    BY <1>0, <1>1, <2>1 DEF StartProvision, Starts
  <2> QED
    BY <1>1, <1>t, <2>2, Manifests, SetupTyped DEF StartProvision, InstallTypeOK, operator
<1>2. CASE StartSetup
  <2>1. file \in Manifest
    BY <1>2, <1>t DEF StartSetup, MayGoOn, InstallTypeOK
  <2>2. run' \in Seq(SetupStep)
    BY <1>0, <1>2, <2>1, SetupOpens DEF StartSetup, Starts
  <2> QED
    BY <1>2, <1>t, <2>1, <2>2, SetupTyped DEF StartSetup, InstallTypeOK
<1>3. CASE StartResume
  <2>1. file \in Manifest
    BY <1>3, <1>t DEF StartResume, MayGoOn, InstallTypeOK
  <2>2. run' \in Seq(SetupStep)
    BY <1>0, <1>3, <2>1, ResumeRun DEF StartResume, Starts
  <2> QED
    BY <1>3, <1>t, <2>1, <2>2, SetupTyped DEF StartResume, InstallTypeOK
<1>4. CASE Decide
  <2>1. Shape'
    BY <1>4 DEF Decide, Idle, Shape, Cleaning
  <2> QED
    BY <1>4, <2>1 DEF Typed, Decide, InstallTypeOK
<1>5. CASE StartCleanup
  <2> DEFINE complete == CompleteForCleanup(file, state)
             known == [file EXCEPT !.role = @ \/ complete]
             forced == told = "force"
  <2>1. file \in Manifest /\ Idle /\ intent = "remove" /\ complete \in BOOLEAN
    BY <1>5, <1>t DEF StartCleanup, InstallTypeOK, CompleteForCleanup
  <2>2. known \in Manifest
    BY <2>1, Manifests
  <2>3. CASE file' = known /\ run' = CleanupSteps(known, complete, forced) /\ told' = "nothing"
    <3>0. complete \in BOOLEAN /\ forced \in BOOLEAN
      BY <2>1
    <3> HIDE DEF known, complete, forced
    <3>1. CleansUp(run', known, complete)
      BY <2>3, <3>0, CleanRun
    <3>2. Shape' /\ file' # None
      <4>1. file' # None
        BY <2>2, <2>3, NoFileAssumption
      <4>2. Cleaning'
        BY <3>1 DEF CleansUp, Cleaning, Unlinks
      <4>3. intent' = "remove"
        BY <1>5, <2>1 DEF StartCleanup
      <4> QED
        BY <3>1, <4>1, <4>2, <4>3 DEF CleansUp, Shape
    <3> QED
      BY <1>5, <1>t, <2>2, <2>3, <3>2 DEF Typed, InstallTypeOK, StartCleanup
  <2>4. CASE told' = "first" /\ UNCHANGED <<file, run>>
    BY <1>5, <1>t, <2>4, StaysTyped DEF InstallTypeOK, StartCleanup
  <2> QED
    BY <1>5, <2>3, <2>4 DEF StartCleanup
<1>6. CASE ProvisionFails
  BY <1>6, <1>t, StaysTyped DEF ProvisionFails, InstallTypeOK
<1> QED
  BY <1>1, <1>2, <1>3, <1>4, <1>5, <1>6 DEF Operator

LEMMA TypedStep == Typed /\ [Next]_vars => Typed'
<1> SUFFICES ASSUME Typed, [Next]_vars PROVE Typed'
  OBVIOUS
<1>t. InstallTypeOK
  BY DEF Typed
<1>1. CASE App
  <2>1. CASE Creation
    <3>1. /\ stops' \in 0..MaxStops /\ app' \in AppRecord
          /\ cloud' \in {cloud, cloud \cup {"app"}, cloud \ {"app"}}
      BY <1>t, <2>1, StopsAssumption DEF Creation, CreateApp, AppAppears, AppAnswered,
         AppUnanswered, Adjudicate, InstallTypeOK, AppRecord
    <3>2. cloud' \subseteq Thing
      BY <1>t, <3>1, Sets DEF InstallTypeOK
    <3> QED
      BY <1>t, <2>1, <3>1, <3>2, StaysTyped DEF Creation, CreateApp, AppAppears, AppAnswered,
         AppUnanswered, Adjudicate, InstallTypeOK, operator
  <2>2. ASSUME NEW thing \in {"clone", "proxy"}, BoutMakes(thing) PROVE Typed'
    BY <1>t, <2>2, StaysTyped, Sets DEF BoutMakes, InstallTypeOK, operator
  <2>3. ASSUME NEW thing \in {"clone", "proxy"}, BoutCleans(thing) PROVE Typed'
    BY <1>t, <2>3, StaysTyped DEF BoutCleans, InstallTypeOK, operator
  <2> QED
    BY <1>1, <2>1, <2>2, <2>3 DEF App
<1>2. CASE Refuses
  <2>1. run # <<>>
    BY <1>2 DEF Refuses, Refused, At
  <2> QED
    BY <1>2, <1>t, <2>1, RaisesTyped DEF Refuses, InstallTypeOK
<1>3. CASE Fails
  <2>1. run # <<>> /\ stops' \in 0..MaxStops
    BY <1>3, <1>t, StopsAssumption DEF Fails, Idle, InstallTypeOK
  <2> QED
    BY <1>3, <1>t, <2>1, RaisesTyped DEF Fails, InstallTypeOK
<1>4. CASE Killed
  <2>1. stops' \in 0..MaxStops
    BY <1>4, <1>t, StopsAssumption DEF Killed, InstallTypeOK
  <2> QED
    BY <1>4, <1>t, <2>1, EndsTyped DEF Killed, InstallTypeOK, operator
<1>5. CASE UNCHANGED vars
  BY <1>5, <1>t, StaysTyped DEF vars, operator, InstallTypeOK
<1> QED
  BY <1>1, <1>2, <1>3, <1>4, <1>5, SetupStepTyped, CleanupStepTyped, OperatorTyped DEF Next

LEMMA TypedInvariant == Spec => []Typed
<1>1. Init => Typed
  <2> SUFFICES ASSUME Init PROVE Typed
    OBVIOUS
  <2>1. Shape
    BY DEF Init, Shape, Cleaning
  <2>2. 0 \in 0..MaxStops
    BY StopsAssumption
  <2> QED
    BY <2>1, <2>2 DEF Init, Typed, InstallTypeOK, AppRecord
<1> QED
  BY <1>1, TypedStep, PTL DEF Spec

-----------------------------------------------------------------------------
(* What was checked over which seal.                                       *)

Checked ==
  [topology : BOOLEAN, canary : BOOLEAN, over5 : Seal4 \cup {None},
   over6 : Seal4 \cup {None}]

(* A seal of a later round, ready or not, was made over the Round 4 that   *)
(* the manifest seals now.                                                 *)
SealedOver(m) ==
  /\ m.round5 => proved.over5 = m.round4
  /\ m.round6 => proved.over6 = m.round4

SealInv == proved \in Checked /\ (file # None => SealedOver(file))

LEMMA SealSetup == Typed /\ SealInv /\ Setup => SealInv'
<1> SUFFICES ASSUME Typed, SealInv, Setup PROVE SealInv'
  OBVIOUS
<1> USE DEF Saves
<1>1. ASSUME NEW scope \in Scope, ApplyOne(scope) PROVE SealInv'
  BY <1>1 DEF ApplyOne, SealInv, SealedOver
<1>2. ASSUME NEW scope \in Scope, Applied(scope) PROVE SealInv'
  <2>1. file \in Manifest /\ file # None
    BY <1>2, InHand DEF Applied
  <2> QED
    BY <1>2, <2>1 DEF Applied, SealInv, SealedOver, Manifest
<1>3. CASE MakeProjects \/ Seed \/ WaitForZero \/ Begin5 \/ Begin6 \/ Wipe
  <2>1. file \in Manifest /\ file # None
    BY <1>3, InHand DEF MakeProjects, Seed, WaitForZero, Begin5, Begin6, Wipe
  <2>2. PICK s : file' = [file EXCEPT !.status = s] \/ file' = file
    BY <1>3 DEF MakeProjects, Seed, WaitForZero, Begin5, Begin6, Wipe
  <2>3. proved' = proved
    BY <1>3 DEF MakeProjects, Seed, WaitForZero, Begin5, Begin6, Wipe
  <2> QED
    BY <2>1, <2>2, <2>3 DEF SealInv, SealedOver, Manifest
<1>4. CASE Make4 \/ Make6
  <2>1. file' = file /\ proved' = proved
    BY <1>4 DEF Make4, Make6
  <2> QED
    BY <2>1 DEF SealInv, SealedOver
<1>5. CASE Seal4At
  <2>1. file \in Manifest /\ file # None
    BY <1>5, InHand DEF Seal4At
  <2>2. PICK seal \in Seal4 :
          file' = [CommitReseal4(file, seal) EXCEPT !.status = "waiting_for_zero"]
    BY <1>5 DEF Seal4At
  <2>3. PICK m \in Manifest : m = CommitReseal4(file, seal)
    BY <2>1, Manifests
  <2>4. /\ m.round5 => file.round5 /\ m.round4 = file.round4
        /\ m.round6 => file.round6 /\ m.round4 = file.round4
    BY <2>1, <2>3 DEF CommitReseal4, Manifest, Ready6, Ready5
  <2>5. file'.round4 = m.round4 /\ file'.round5 = m.round5 /\ file'.round6 = m.round6
    BY <2>2, <2>3 DEF Manifest
  <2>6. proved' = proved
    BY <1>5 DEF Seal4At
  <2> QED
    BY <2>1, <2>4, <2>5, <2>6 DEF SealInv, SealedOver
<1>6. CASE UnlessReady
  <2>1. file' = file /\ proved' = proved
    BY <1>6 DEF UnlessReady, Expands
  <2> QED
    BY <2>1 DEF SealInv, SealedOver
<1>7. CASE Rotate5
  <2>1. file \in Manifest /\ file # None
    BY <1>7, InHand DEF Rotate5
  <2>2. file' = [file EXCEPT !.round5 = TRUE, !.status = "seeding"]
    BY <1>7 DEF Rotate5
  <2>3. proved' = [Unproved EXCEPT !.over5 = file.round4, !.over6 = proved.over6]
    BY <1>7 DEF Rotate5
  <2>4. proved'.over5 = file.round4 /\ proved'.over6 = proved.over6 /\ proved' \in Checked
    BY <2>1, <2>3 DEF Unproved, SealInv, Checked, Manifest
  <2>5. file'.round4 = file.round4 /\ file'.round6 = file.round6
    BY <2>1, <2>2 DEF Manifest
  <2> QED
    BY <2>1, <2>4, <2>5 DEF SealInv, SealedOver
<1>8. CASE Check5
  <2>1. file \in Manifest /\ file # None
    BY <1>8, InHand DEF Check5
  <2>2. file' = IF file.round6 THEN [file EXCEPT !.version = 7, !.status = "seeding"]
                ELSE [file EXCEPT !.version = 5, !.status = "ready"]
    BY <1>8 DEF Check5
  <2>3. proved'.over5 = proved.over5 /\ proved'.over6 = proved.over6 /\ proved' \in Checked
    BY <1>8 DEF Check5, SealInv, Checked
  <2>4. /\ file'.round4 = file.round4 /\ file'.round6 = file.round6
        /\ file'.round5 = file.round5
    BY <2>1, <2>2 DEF Manifest
  <2> QED
    BY <2>1, <2>3, <2>4 DEF SealInv, SealedOver
<1>9. CASE Seal6
  <2>1. file \in Manifest /\ file # None
    BY <1>9, InHand DEF Seal6
  <2>2. /\ proved'.over5 = proved.over5 /\ proved'.over6 = file.round4
        /\ proved' \in Checked
    BY <1>9, <2>1 DEF Seal6, SealInv, Checked, Manifest
  <2>3. file'.round4 = file.round4 /\ file'.round5 = file.round5
    BY <1>9, <2>1 DEF Seal6, Manifest
  <2> QED
    BY <2>1, <2>2, <2>3 DEF SealInv, SealedOver
<1>10. ASSUME NEW l \in Lane, RecordLane(l) \/ SealLane(l) \/ Unsupported PROVE SealInv'
  <2>1. file \in Manifest /\ file # None
    BY <1>10, InHand DEF RecordLane, SealLane, Unsupported
  <2>2. file'.round4 = file.round4 /\ file'.round5 = file.round5 /\ file'.round6 = file.round6
    BY <1>10, <2>1 DEF RecordLane, SealLane, Unsupported, Enable, Manifest
  <2>3. proved' = proved
    BY <1>10 DEF RecordLane, SealLane, Unsupported
  <2> QED
    BY <2>1, <2>2, <2>3 DEF SealInv, SealedOver
<1>11. Unsupported => SealInv'
  BY <1>10 DEF Lane
<1> QED
  BY <1>1, <1>2, <1>3, <1>4, <1>5, <1>6, <1>7, <1>8, <1>9, <1>10, <1>11 DEF Setup

LEMMA SealStep == Typed /\ SealInv /\ [Next]_vars => SealInv'
<1> SUFFICES ASSUME Typed, SealInv, [Next]_vars PROVE SealInv'
  OBVIOUS
<1>1. CASE Setup
  BY <1>1, SealSetup
<1>2. CASE Cleanup
  <2>1. proved' = proved /\ (file' = file \/ file' = None)
    BY <1>2 DEF Cleanup, CleanBaseline, Verify6, WriteReceipt, Forget, Delete, DestroyOne,
                Destroyed, Unlink
  <2> QED
    BY <2>1 DEF SealInv, SealedOver
<1>3. CASE StartProvision
  <2>1. file' = Fresh /\ proved' = proved
    BY <1>3 DEF StartProvision
  <2>2. SealedOver(Fresh)
    BY DEF SealedOver, Fresh
  <2> QED
    BY <2>1, <2>2 DEF SealInv, SealedOver
<1>4. CASE StartSetup \/ StartResume \/ ProvisionFails \/ Decide \/ App \/ Killed \/ UNCHANGED vars
  <2>1. proved' = proved /\ file' = file
    BY <1>4 DEF StartSetup, StartResume, Decide, App, Creation, CreateApp, AppAppears,
                AppAnswered, AppUnanswered, Adjudicate, ProvisionFails, BoutMakes, BoutCleans,
                Killed, vars
  <2> QED
    BY <2>1 DEF SealInv, SealedOver
<1>5. CASE StartCleanup
  <2>1. file \in Manifest /\ file # None /\ proved' = proved
    BY <1>5 DEF StartCleanup, Typed, InstallTypeOK
  <2>2. PICK b : file' = [file EXCEPT !.role = b] \/ file' = file
    BY <1>5 DEF StartCleanup
  <2> QED
    BY <2>1, <2>2 DEF SealInv, SealedOver, Manifest
<1>6. CASE Refuses \/ Fails
  <2>1. file \in Manifest /\ file # None /\ proved' = proved
    BY <1>6 DEF Refuses, Fails, Refused, At, Idle, Typed, InstallTypeOK
  <2>2. file' = [file EXCEPT !.status = "cleanup_failed"] \/ file' = file
    BY <1>6 DEF Refuses, Fails, Raises
  <2> QED
    BY <2>1, <2>2 DEF SealInv, SealedOver, Manifest
<1> QED
  BY <1>1, <1>2, <1>3, <1>4, <1>5, <1>6 DEF Next, Operator

(* Whatever command resumed them and however often one stopped, the seals  *)
(* of Rounds 5 and 6 that a manifest counts as ready were made over the     *)
(* Round 4 it seals.                                                       *)
THEOREM SealsAgreeAlways == Spec => []SealsAgree
<1>1. Init => SealInv
  BY DEF Init, SealInv, Checked, Unproved
<1>2. SealInv => SealsAgree
  BY DEF SealInv, SealedOver, SealsAgree, Ready5, Ready6
<1> QED
  BY <1>1, <1>2, TypedInvariant, SealStep, PTL DEF Spec

(* Every variable keeps its type.                                          *)
THEOREM InstallTypeCorrect == Spec => []InstallTypeOK
BY TypedInvariant, PTL DEF Typed

-----------------------------------------------------------------------------
(* What stands at every moment of an installation.                         *)

Tracked == cloud \cap Held = state \cap Held
RoleKnown == file # None /\ "role" \in cloud => "role" \in state \/ file.role
NotYet ==
  file = None /\ intent = "install" => cloud \subseteq {"app"} /\ state = {} /\ ~ proved.canary
CanaryLate == file # None /\ file.status = "provisioning" => ~ proved.canary

(* The first stage's manifest is saved anew only once everything is        *)
(* applied, a lane is proved right after its apply, and the whole is       *)
(* applied with a proxy about only where a lane's stage stopped.           *)
FirstApply ==
  file # None /\ file.status = "provisioning" /\ run # <<>> /\ ~ Cleaning =>
    \/ Len(run) >= 2 /\ run[1] = ApplyAll /\ run[2] = MakesProjects
    \/ run[1] = MakesProjects /\ state = Expected(file)
LaneProved ==
  \A i \in 1..Len(run), l \in Lane : run[i] = <<"prove", l>> =>
    \/ i = 1 /\ state = Expected(file)
    \/ i > 1 /\ run[i - 1] = <<"apply", l>>
WholeApply ==
  \A i \in 1..Len(run) : run[i] = ApplyAll =>
    \/ i = 1 /\ ("proxy" \notin cloud \/ LaneStopped(file) \/ Meanwhile)
    \/ i = 2 /\ run[1] = Baseline

(* Until a cleanup takes things down, and none does with a proxy about     *)
(* unless bouts begin beside it, Terraform holds the sealed lanes and what  *)
(* every installation has.                                                 *)
Sturdy ==
  file # None /\ (intent = "install" \/ ("proxy" \in cloud /\ ~ Meanwhile)) =>
    /\ \A l \in file.enabled : file.lane[l] = "sealed" => l \in state
    /\ file.status # "provisioning" => {"guard", "role"} \subseteq state

(* A proxy stands beside its fleet, unless a whole apply that goes on with  *)
(* a stopped lane has taken the fleet down.                                *)
ProxyStands ==
  "proxy" \in cloud /\ ~ Meanwhile =>
    /\ file # None /\ file.status # "provisioning"
    /\ \/ "fleet" \in state
       \/ LaneStopped(file) /\ (Idle \/ At("apply", "all"))

(* The installation has no app left to delete, and none on its way.         *)
Settled == app = "none" \/ (app = "created" /\ "app" \notin cloud)

(* A cleanup under way still has a step for all that bills, what bouts make *)
(* beside it excepted.                                                     *)
Owes ==
  Cleaning =>
    /\ \A x \in {"round4", "projects"} : x \in cloud => Left(<<"delete", x>>)
    /\ Left(<<"delete", "app">>) \/ Settled
    /\ "clone" \in cloud => Meanwhile
    /\ "proxy" \in cloud => Meanwhile \/ Left(Baseline)
    /\ "role" \in cloud => \/ Left(<<"delete", "role">>)
                           \/ /\ "role" \in state /\ Left(<<"destroy", "state">>)
                              /\ ~ Left(<<"forget", "role">>)
    /\ state \cap Held # {} => Left(<<"destroy", "state">>)
    /\ Left(<<"forget", "role">>) => file.role
    /\ Ordered(run)

(* Without a manifest only what a bout made beside a command or a cleanup   *)
(* may be there, and an app: before the first one, whatever is on record of  *)
(* its creation; after a cleanup, one that is not the installation's.       *)
OnlyBoutsLeft ==
  file = None =>
    /\ cloud \cap Billed \subseteq {"clone", "proxy", "app"}
    /\ ~ Meanwhile => cloud \cap Billed \subseteq {"app"}
    /\ intent = "remove" => Settled

(* An app is asked for only while the installation is wanted.               *)
Asked == app = "asking" => intent = "install"

Owned == Tracked /\ LaneIsRecorded /\ RoleKnown /\ NotYet /\ CanaryLate /\ OnlyBoutsLeft
InOrder == FirstApply /\ LaneProved /\ WholeApply
RemovalInv == Typed /\ Owned /\ InOrder /\ Sturdy /\ ProxyStands /\ Owes

LEMMA InitRemoval == Init => RemovalInv
<1> SUFFICES ASSUME Init PROVE RemovalInv
  OBVIOUS
<1>1. Typed
  <2>1. Shape
    BY DEF Init, Shape, Cleaning
  <2>2. 0 \in 0..MaxStops
    BY StopsAssumption
  <2> QED
    BY <2>1, <2>2 DEF Init, Typed, InstallTypeOK, AppRecord
<1>2. Owned
  BY DEF Init, Owned, Tracked, LaneIsRecorded, RoleKnown, NotYet, CanaryLate,
         OnlyBoutsLeft, Unproved
<1>3. InOrder /\ Owes
  BY DEF Init, InOrder, FirstApply, LaneProved, WholeApply, Owes, Cleaning
<1>4. Sturdy /\ ProxyStands
  BY DEF Init, Sturdy, ProxyStands
<1> QED
  BY <1>1, <1>2, <1>3, <1>4 DEF RemovalInv

-----------------------------------------------------------------------------
(* Steps of setup.                                                         *)

LEMMA StepNames ==
  /\ \A l \in Lane : /\ <<"apply", l>> \notin {ApplyAll, MakesProjects, Baseline}
                     /\ <<"prove", l>> \notin {ApplyAll, MakesProjects, Baseline}
                     /\ \A m \in Lane : <<"prove", l>> # <<"apply", m>>
  /\ ApplyAll # MakesProjects /\ ApplyAll # Baseline /\ MakesProjects # Baseline
  /\ ApplyAll[1] = "apply" /\ Baseline[1] = "baseline" /\ MakesProjects[1] = "make"
  /\ ApplyAll \notin CleanStep
  /\ \A l \in Lane : <<"prove", l>> \notin CleanStep
<1>1. /\ ApplyAll[1] = "apply" /\ Baseline[1] = "baseline" /\ MakesProjects[1] = "make"
      /\ ApplyAll[2] = "all"
  BY DEF ApplyAll, Baseline, MakesProjects
<1>2. \A l \in Lane : /\ <<"apply", l>>[1] = "apply" /\ <<"prove", l>>[1] = "prove"
                      /\ <<"apply", l>>[2] = l /\ l # "all"
  BY DEF Lane
<1>3. "apply" \notin CleanVerb /\ "prove" \notin CleanVerb
  BY DEF CleanVerb
<1>4. \A s \in CleanStep : s[1] \in CleanVerb
  BY StepVerbs
<1>5. \A l \in Lane : <<"prove", l>> \notin CleanStep
  BY <1>2, <1>3, <1>4
<1>6. ApplyAll \notin CleanStep
  BY <1>1, <1>3, <1>4
<1>7. \A l \in Lane : /\ <<"apply", l>> \notin {ApplyAll, MakesProjects, Baseline}
                      /\ <<"prove", l>> \notin {ApplyAll, MakesProjects, Baseline}
                      /\ \A m \in Lane : <<"prove", l>> # <<"apply", m>>
  BY <1>1, <1>2
<1> QED
  BY <1>1, <1>5, <1>6, <1>7

(* A cleanup has no step of these kinds.                                    *)
LEMMA CleaningOrder ==
  ASSUME Typed, Cleaning PROVE LaneProved /\ WholeApply /\ FirstApply
<1>1. run \in Seq(CleanStep)
  BY DEF Typed, Shape
<1>2. \A i \in 1..Len(run) : run[i] \in CleanStep
  BY <1>1
<1> QED
  BY <1>2, StepNames DEF LaneProved, WholeApply, FirstApply

(* A step of setup that makes or seals something, none of it Terraform's.   *)
SetupGoes ==
  /\ ~ Cleaning /\ run # <<>> /\ file \in Manifest /\ file # None
  /\ GoOn /\ state' = state /\ intent' = intent
  /\ file' \in Manifest /\ file' # None
  /\ run[1][1] \notin {"apply", "baseline"}
  /\ cloud' \cap (Held \cup {"role"}) = cloud \cap (Held \cup {"role"})
  /\ "proxy" \in cloud' => "proxy" \in cloud
  /\ file.role => file'.role
  /\ file.enabled \subseteq file'.enabled
  /\ \A l \in file'.enabled : file'.lane[l] = "sealed" =>
       (l \in file.enabled /\ file.lane[l] = "sealed") \/ l \in state
  /\ file'.status = "provisioning" => file.status = "provisioning" /\ run[1] # MakesProjects

LEMMA SetupGoesOn ==
  ASSUME RemovalInv, SetupGoes PROVE Owned' /\ InOrder' /\ Sturdy' /\ ProxyStands' /\ Owes'
<1>1. /\ Len(run) \in Nat \ {0} /\ Len(run') = Len(run) - 1
      /\ \A i \in 1..Len(run') : run'[i] = run[i + 1] /\ i + 1 \in 1..Len(run)
      /\ ~ Cleaning'
  BY GoesOn DEF RemovalInv, SetupGoes
<1>2. run[1] # ApplyAll /\ run[1] # Baseline /\ \A l \in Lane : run[1] # <<"apply", l>>
  BY StepNames DEF SetupGoes
<1>3. file.status = "provisioning" => run[1] = MakesProjects /\ state = Expected(file)
  BY <1>2 DEF SetupGoes, RemovalInv, InOrder, FirstApply
<1>4. file'.status # "provisioning"
  BY <1>3 DEF SetupGoes
<1>5. file.status = "provisioning" => {"guard", "role"} \subseteq state
  BY <1>3 DEF Expected, Base
<1>6. Owned'
  <2>1. Tracked'
    BY DEF SetupGoes, RemovalInv, Owned, Tracked
  <2>2. LaneIsRecorded'
    BY DEF SetupGoes, RemovalInv, Owned, LaneIsRecorded
  <2>3. RoleKnown'
    BY DEF SetupGoes, RemovalInv, Owned, RoleKnown
  <2> QED
    BY <1>4, <2>1, <2>2, <2>3 DEF Owned, NotYet, CanaryLate, OnlyBoutsLeft, SetupGoes
<1>7. FirstApply'
  BY <1>4 DEF FirstApply
<1>8. LaneProved'
  <2> SUFFICES ASSUME NEW i \in 1..Len(run'), NEW l \in Lane, run'[i] = <<"prove", l>>
               PROVE  i > 1 /\ run'[i - 1] = <<"apply", l>>
    BY DEF LaneProved
  <2>1. run[i + 1] = <<"prove", l>> /\ i + 1 \in 1..Len(run)
    BY <1>1
  <2>2. i + 1 > 1 /\ run[(i + 1) - 1] = <<"apply", l>>
    BY <1>1, <2>1 DEF RemovalInv, InOrder, LaneProved
  <2>3. i # 1
    BY <1>2, <2>2
  <2>4. i - 1 \in 1..Len(run')
    BY <1>1, <2>3
  <2>5. run'[i - 1] = run[(i - 1) + 1]
    BY <1>1, <2>4
  <2> QED
    BY <1>1, <2>2, <2>3, <2>5
<1>9. WholeApply'
  <2> SUFFICES ASSUME NEW i \in 1..Len(run'), run'[i] = ApplyAll PROVE FALSE
    BY DEF WholeApply
  <2>1. run[i + 1] = ApplyAll /\ i + 1 \in 1..Len(run) /\ i + 1 # 1
    BY <1>1
  <2> QED
    BY <1>2, <2>1 DEF RemovalInv, InOrder, WholeApply
<1>10. Sturdy'
  <2> SUFFICES ASSUME intent' = "install" \/ ("proxy" \in cloud' /\ ~ Meanwhile)
               PROVE  /\ \A l \in file'.enabled : file'.lane[l] = "sealed" => l \in state'
                      /\ {"guard", "role"} \subseteq state'
    BY DEF Sturdy
  <2>1. /\ \A l \in file.enabled : file.lane[l] = "sealed" => l \in state
        /\ file.status # "provisioning" => {"guard", "role"} \subseteq state
    BY DEF SetupGoes, RemovalInv, Sturdy
  <2> QED
    BY <1>5, <2>1 DEF SetupGoes
<1>11. ProxyStands'
  <2>1. ~ At("apply", "all") /\ ~ Idle
    BY <1>2 DEF SetupGoes, At, Idle, ApplyAll
  <2> QED
    BY <1>4, <2>1 DEF SetupGoes, RemovalInv, ProxyStands
<1>12. Owes'
  BY <1>1 DEF Owes
<1> QED
  BY <1>6, <1>7, <1>8, <1>9, <1>10, <1>11, <1>12 DEF InOrder

(* The steps that make, seal or record something are such steps.            *)
LEMMA SetupStepGoes ==
  ASSUME RemovalInv,
         \/ MakeProjects \/ Seed \/ WaitForZero \/ Make4 \/ Seal4At \/ Begin5 \/ Rotate5
         \/ Check5 \/ Begin6 \/ Make6 \/ Seal6 \/ Wipe
         \/ \E l \in Lane : RecordLane(l) \/ SealLane(l)
  PROVE  SetupGoes
<1>t. Typed
  BY DEF RemovalInv
<1>v. {"seed", "zero", "seal", "begin", "check", "finish", "wipe", "make", "record", "prove"}
        \cap (CleanVerb \cup {"apply", "baseline"}) = {}
  BY DEF CleanVerb
<1>1. ASSUME NEW v, NEW x, At(v, x),
             v \in {"seed", "zero", "seal", "begin", "check", "finish", "wipe", "make",
                    "record", "prove"}
      PROVE  /\ ~ Cleaning /\ run # <<>> /\ file \in Manifest /\ file # None
             /\ run[1] = <<v, x>> /\ run[1][1] \notin {"apply", "baseline"}
  BY <1>1, <1>t, <1>v, InHand
<1>2. ASSUME NEW m \in Manifest, Saves(m),
             ~ Cleaning, run # <<>>, file \in Manifest, file # None,
             run[1][1] \notin {"apply", "baseline"},
             m.role = file.role, m.enabled = file.enabled, m.lane = file.lane,
             cloud' \cap (Held \cup {"role"}) = cloud \cap (Held \cup {"role"}),
             "proxy" \in cloud' => "proxy" \in cloud,
             m.status = "provisioning" => file.status = "provisioning" /\ run[1] # MakesProjects
      PROVE  SetupGoes
  BY <1>2, NoFileAssumption DEF SetupGoes, Saves, operator
<1>3. ASSUME NEW s \in Status, s # "provisioning", Saves([file EXCEPT !.status = s]),
             ~ Cleaning, run # <<>>, file \in Manifest, file # None,
             run[1][1] \notin {"apply", "baseline"},
             cloud' \cap (Held \cup {"role"}) = cloud \cap (Held \cup {"role"}),
             "proxy" \in cloud' => "proxy" \in cloud
      PROVE  SetupGoes
  <2>1. PICK m \in Manifest : m = [file EXCEPT !.status = s]
    BY <1>3, Manifests
  <2>2. m.role = file.role /\ m.enabled = file.enabled /\ m.lane = file.lane /\ m.status = s
    BY <1>3, <2>1 DEF Manifest
  <2> QED
    BY <1>2, <1>3, <2>1, <2>2
<1>4. CASE MakeProjects
  <2>1. cloud' \cap (Held \cup {"role"}) = cloud \cap (Held \cup {"role"})
        /\ ("proxy" \in cloud' => "proxy" \in cloud)
    BY <1>4, Sets DEF MakeProjects
  <2> QED
    BY <1>1, <1>3, <1>4, <2>1 DEF MakeProjects, Status
<1>5. CASE Seed
  BY <1>1, <1>3, <1>5 DEF Seed, Status
<1>6. CASE WaitForZero
  BY <1>1, <1>3, <1>6 DEF WaitForZero, Status
<1>7. CASE Make4
  <2>1. cloud' \cap (Held \cup {"role"}) = cloud \cap (Held \cup {"role"})
        /\ ("proxy" \in cloud' => "proxy" \in cloud)
    BY <1>7, Sets DEF Make4
  <2>2. At("make", "round4") /\ Saves(file)
    BY <1>7 DEF Make4
  <2>3. /\ ~ Cleaning /\ run # <<>> /\ file \in Manifest /\ file # None
        /\ run[1] = <<"make", "round4">> /\ run[1][1] \notin {"apply", "baseline"}
    BY <1>1, <2>2
  <2>4. run[1] # MakesProjects
    BY <2>3 DEF MakesProjects
  <2> QED
    BY <1>2, <2>1, <2>2, <2>3, <2>4
<1>8. CASE Seal4At
  <2>1. /\ ~ Cleaning /\ run # <<>> /\ file \in Manifest /\ file # None
        /\ run[1][1] \notin {"apply", "baseline"}
    BY <1>1, <1>8 DEF Seal4At
  <2>2. PICK seal \in Seal4 : Saves([CommitReseal4(file, seal) EXCEPT !.status = "waiting_for_zero"])
    BY <1>8 DEF Seal4At
  <2>3. PICK c \in Manifest : c = CommitReseal4(file, seal)
    BY <2>1, Manifests
  <2>4. c.role = file.role /\ c.enabled = file.enabled /\ c.lane = file.lane
    BY <2>1, <2>3 DEF CommitReseal4, Manifest
  <2>5. PICK m \in Manifest : m = [c EXCEPT !.status = "waiting_for_zero"]
    BY Manifests DEF Status
  <2>6. /\ m.role = file.role /\ m.enabled = file.enabled /\ m.lane = file.lane
        /\ m.status = "waiting_for_zero"
    BY <2>4, <2>5 DEF Manifest
  <2>7. Saves(m) /\ cloud' = cloud
    BY <1>8, <2>2, <2>3, <2>5 DEF Seal4At
  <2> QED
    BY <1>2, <2>1, <2>6, <2>7
<1>9. CASE Begin5
  <2>1. /\ ~ Cleaning /\ run # <<>> /\ file \in Manifest /\ file # None
        /\ run[1] = <<"begin", "round5">> /\ run[1][1] \notin {"apply", "baseline"}
    BY <1>1, <1>9 DEF Begin5
  <2>2. run[1] # MakesProjects /\ cloud' = cloud
    BY <1>9, <2>1 DEF MakesProjects, Begin5
  <2>3. CASE Ready5(file)
    BY <1>2, <1>9, <2>1, <2>2, <2>3 DEF Begin5
  <2>4. CASE ~ Ready5(file)
    BY <1>3, <1>9, <2>1, <2>2, <2>4 DEF Begin5, Status
  <2> QED
    BY <2>3, <2>4
<1>10. CASE Rotate5
  <2>1. /\ ~ Cleaning /\ run # <<>> /\ file \in Manifest /\ file # None
        /\ run[1][1] \notin {"apply", "baseline"}
    BY <1>1, <1>10 DEF Rotate5
  <2>2. PICK m \in Manifest : m = [file EXCEPT !.round5 = TRUE, !.status = "seeding"]
    BY <2>1, Manifests
  <2>3. /\ m.role = file.role /\ m.enabled = file.enabled /\ m.lane = file.lane
        /\ m.status = "seeding"
    BY <2>1, <2>2 DEF Manifest
  <2>4. Saves(m) /\ cloud' = cloud
    BY <1>10, <2>2 DEF Rotate5
  <2> QED
    BY <1>2, <2>1, <2>3, <2>4
<1>11. CASE Check5
  <2>1. /\ ~ Cleaning /\ run # <<>> /\ file \in Manifest /\ file # None
        /\ run[1][1] \notin {"apply", "baseline"}
    BY <1>1, <1>11 DEF Check5
  <2>2. PICK m \in Manifest : m = IF file.round6 THEN [file EXCEPT !.version = 7, !.status = "seeding"]
                                  ELSE [file EXCEPT !.version = 5, !.status = "ready"]
    BY <2>1, Manifests
  <2>3. /\ m.role = file.role /\ m.enabled = file.enabled /\ m.lane = file.lane
        /\ m.status # "provisioning"
    BY <2>1, <2>2 DEF Manifest
  <2>4. Saves(m) /\ cloud' = cloud
    BY <1>11, <2>2 DEF Check5
  <2> QED
    BY <1>2, <2>1, <2>3, <2>4
<1>12. CASE Begin6
  BY <1>1, <1>3, <1>12 DEF Begin6, Status
<1>13. CASE Make6
  <2>1. cloud' \cap (Held \cup {"role"}) = cloud \cap (Held \cup {"role"})
        /\ ("proxy" \in cloud' => "proxy" \in cloud)
    BY <1>13, Sets DEF Make6
  <2>2. At("make", "round6") /\ Saves(file)
    BY <1>13 DEF Make6
  <2>3. /\ ~ Cleaning /\ run # <<>> /\ file \in Manifest /\ file # None
        /\ run[1] = <<"make", "round6">> /\ run[1][1] \notin {"apply", "baseline"}
    BY <1>1, <2>2
  <2>4. run[1] # MakesProjects
    BY <2>3 DEF MakesProjects
  <2> QED
    BY <1>2, <2>1, <2>2, <2>3, <2>4
<1>14. CASE Seal6
  <2>1. /\ ~ Cleaning /\ run # <<>> /\ file \in Manifest /\ file # None
        /\ run[1][1] \notin {"apply", "baseline"}
    BY <1>1, <1>14 DEF Seal6
  <2>2. PICK m \in Manifest : m = [file EXCEPT !.round6 = TRUE, !.version = 7, !.status = "ready"]
    BY <2>1, Manifests
  <2>3. /\ m.role = file.role /\ m.enabled = file.enabled /\ m.lane = file.lane
        /\ m.status = "ready"
    BY <2>1, <2>2 DEF Manifest
  <2>4. Saves(m) /\ cloud' = cloud
    BY <1>14, <2>2 DEF Seal6
  <2> QED
    BY <1>2, <2>1, <2>3, <2>4
<1>15. CASE Wipe
  <2>1. cloud' \cap (Held \cup {"role"}) = cloud \cap (Held \cup {"role"})
        /\ ("proxy" \in cloud' => "proxy" \in cloud)
    BY <1>15, Sets DEF Wipe
  <2> QED
    BY <1>1, <1>3, <1>15, <2>1 DEF Wipe, Status
<1>16. ASSUME NEW l \in Lane, RecordLane(l) PROVE SetupGoes
  <2>1. At("record", l)
    BY <1>16 DEF RecordLane
  <2>2. /\ ~ Cleaning /\ run # <<>> /\ file \in Manifest /\ file # None
        /\ run[1] = <<"record", l>> /\ run[1][1] \notin {"apply", "baseline"}
    BY <1>1, <2>1
  <2>3. run[1] # MakesProjects
    BY <2>2 DEF MakesProjects
  <2>4. cloud' \cap (Held \cup {"role"}) = cloud \cap (Held \cup {"role"})
        /\ ("proxy" \in cloud' => "proxy" \in cloud)
    BY <1>16, Sets DEF RecordLane
  <2>5. PICK other \in BOOLEAN : Saves(IF other THEN Enable(file, l) ELSE file)
    BY <1>16 DEF RecordLane
  <2>6. PICK m \in Manifest : m = IF other THEN Enable(file, l) ELSE file
    BY <2>2, Manifests
  <2>7. /\ m.role = file.role /\ file.enabled \subseteq m.enabled /\ m.status = file.status
        /\ \A k \in m.enabled : m.lane[k] = "sealed" =>
             k \in file.enabled /\ file.lane[k] = "sealed"
    BY <2>2, <2>6 DEF Enable, Manifest
  <2> QED
    BY <2>2, <2>3, <2>4, <2>5, <2>6, <2>7, NoFileAssumption DEF SetupGoes, Saves, operator
<1>17. ASSUME NEW l \in Lane, SealLane(l) PROVE SetupGoes
  <2>1. At("prove", l)
    BY <1>17 DEF SealLane
  <2>2. /\ ~ Cleaning /\ run # <<>> /\ file \in Manifest /\ file # None
        /\ run[1] = <<"prove", l>> /\ run[1][1] \notin {"apply", "baseline"}
    BY <1>1, <2>1
  <2>3. run[1] # MakesProjects
    BY <2>2 DEF MakesProjects
  <2>4. 1 \in 1..Len(run)
    BY <1>t, <2>1, InHand
  <2>5. state = Expected(file)
    BY <2>2, <2>4 DEF RemovalInv, InOrder, LaneProved
  <2>6. PICK m \in Manifest : m = [file EXCEPT !.lane[l] = "sealed"]
    BY <2>2, Manifests
  <2>7. /\ m.role = file.role /\ m.enabled = file.enabled /\ m.status = file.status
        /\ \A k \in m.enabled : k \in state
    BY <2>2, <2>5, <2>6 DEF Manifest, Expected
  <2>8. Saves(m) /\ cloud' = cloud
    BY <1>17, <2>6 DEF SealLane
  <2> QED
    BY <2>2, <2>3, <2>7, <2>8, NoFileAssumption DEF SetupGoes, Saves, operator
<1> QED
  BY <1>4, <1>5, <1>6, <1>7, <1>8, <1>9, <1>10, <1>11, <1>12, <1>13, <1>14, <1>15, <1>16, <1>17

(* One address is built, and none is taken down.                            *)
LEMMA ApplyAdds ==
  ASSUME RemovalInv, NEW scope \in Scope, ApplyOne(scope)
  PROVE  \E a \in Expected(file) :
           /\ state' = state \cup {a} /\ cloud' = cloud \cup ({a} \ {"guard"})
           /\ ~ Cleaning /\ run # <<>> /\ file # None /\ run[1] = <<"apply", scope>>
<1>1. At("apply", scope) /\ Typed /\ "apply" \notin CleanVerb
  BY DEF ApplyOne, RemovalInv, CleanVerb
<1>2. ~ Cleaning /\ run # <<>> /\ file \in Manifest /\ file # None /\ run[1] = <<"apply", scope>>
  BY <1>1, InHand
<1>3. PICK a \in Changes : state' = Flip(state, {a}) /\ cloud' = Flip(cloud, {a} \ {"guard"})
  BY DEF ApplyOne
<1>4. /\ a \in Address /\ (a \in Expected(file)) # (a \in state)
      /\ a = "role" => "role" \notin cloud \ state
  BY <1>3 DEF Changes
<1>5. a \in Expected(file) /\ a \notin state
  <2>1. CASE a \in Base
    BY <1>4, <2>1 DEF Expected
  <2>2. CASE a \in Lane
    BY <1>2, <1>4, <2>2 DEF Expected, RemovalInv, Owned, LaneIsRecorded
  <2> QED
    BY <1>4, <2>1, <2>2 DEF Address
<1>6. a # "guard" => a \notin cloud
  BY <1>4, <1>5 DEF RemovalInv, Owned, Tracked, Held, Address, Base
<1> QED
  BY <1>2, <1>3, <1>5, <1>6 DEF Flip

LEMMA ApplyOneKeeps ==
  ASSUME RemovalInv, NEW scope \in Scope, ApplyOne(scope)
  PROVE  Owned' /\ InOrder' /\ Sturdy' /\ ProxyStands' /\ Owes'
<1>1. PICK a \in Expected(file) :
        /\ state' = state \cup {a} /\ cloud' = cloud \cup ({a} \ {"guard"})
        /\ ~ Cleaning /\ run # <<>> /\ file # None /\ run[1] = <<"apply", scope>>
  BY ApplyAdds
<1>2. /\ run' = run /\ file' = file /\ intent' = intent /\ proved' = proved
      /\ ~ Cleaning'
  BY <1>1 DEF ApplyOne, operator, Cleaning
<1>3. /\ a \in Address /\ a # "proxy" /\ (a \in Lane => a \in file.enabled)
      /\ (a \in Held \cup {"guard", "role"})
  <2>1. file.enabled \subseteq Lane
    BY <1>1 DEF RemovalInv, Typed, InstallTypeOK, Manifest
  <2>2. a \in Base \cup file.enabled /\ Base \cap Lane = {} /\ Base = {"fleet", "guard", "role"}
    BY DEF Expected, Base, Lane
  <2>3. "proxy" \notin Base \cup Lane
    BY DEF Base, Lane
  <2> QED
    BY <2>1, <2>2, <2>3 DEF Address, Held
<1>4. run[1][1] = "apply"
  BY <1>1
<1>5. Owned'
  <2>1. Tracked'
    BY <1>1, <1>3, Sets DEF Tracked, RemovalInv, Owned
  <2>2. LaneIsRecorded' /\ RoleKnown'
    BY <1>1, <1>2, <1>3 DEF RemovalInv, Owned, LaneIsRecorded, RoleKnown
  <2> QED
    BY <1>1, <1>2, <2>1, <2>2 DEF RemovalInv, Owned, NotYet, CanaryLate, OnlyBoutsLeft
<1>6. FirstApply'
  BY <1>1, <1>2, <1>4, StepNames DEF RemovalInv, InOrder, FirstApply
<1>7. LaneProved'
  <2>1. \A l \in Lane : run[1] # <<"prove", l>>
    BY <1>4
  <2> QED
    BY <1>2, <2>1 DEF RemovalInv, InOrder, LaneProved
<1>8. WholeApply'
  BY <1>1, <1>2, <1>3 DEF RemovalInv, InOrder, WholeApply
<1>9. Sturdy'
  BY <1>1, <1>2, <1>3 DEF RemovalInv, Sturdy
<1>10. ProxyStands'
  BY <1>1, <1>2, <1>3 DEF RemovalInv, ProxyStands, Idle, At
<1> QED
  BY <1>2, <1>5, <1>6, <1>7, <1>8, <1>9, <1>10 DEF InOrder, Owes

LEMMA AppliedKeeps ==
  ASSUME RemovalInv, NEW scope \in Scope, Applied(scope)
  PROVE  Owned' /\ InOrder' /\ Sturdy' /\ ProxyStands' /\ Owes'
<1>1. At("apply", scope) /\ Typed /\ "apply" \notin CleanVerb
  BY DEF Applied, RemovalInv, CleanVerb
<1>2. /\ ~ Cleaning /\ run # <<>> /\ file \in Manifest /\ file # None
      /\ run[1] = <<"apply", scope>> /\ run[1][1] = "apply"
  BY <1>1, InHand
<1>3. /\ Len(run) \in Nat \ {0} /\ Len(run') = Len(run) - 1
      /\ \A i \in 1..Len(run') : run'[i] = run[i + 1] /\ i + 1 \in 1..Len(run)
      /\ ~ Cleaning'
  BY <1>1, <1>2, GoesOn DEF Applied
<1>4. /\ file'.enabled = file.enabled /\ file'.lane = file.lane /\ file'.status = file.status
      /\ file.role => file'.role
  BY <1>2 DEF Applied, Manifest
<1>5. state' = state /\ cloud' = cloud /\ intent' = intent /\ proved' = proved
  BY DEF Applied, operator
<1>6. state = Expected(file) /\ Expected(file)' = Expected(file) /\ file' # None
  <2>1. file' \in Manifest
    BY <1>2, Manifests DEF Applied
  <2> QED
    BY <1>4, <2>1, NoFileAssumption DEF Applied, Expected
<1>7. run[1] # Baseline /\ run[1] # MakesProjects
  BY <1>2, StepNames
<1>8. Owned'
  BY <1>2, <1>4, <1>5, <1>6 DEF RemovalInv, Owned, Tracked, LaneIsRecorded, RoleKnown, NotYet,
                               CanaryLate, OnlyBoutsLeft
<1>9. FirstApply'
  <2> SUFFICES ASSUME file.status = "provisioning"
               PROVE  run' # <<>> => run'[1] = MakesProjects
    BY <1>4, <1>5, <1>6 DEF FirstApply
  <2>1. Len(run) >= 2 /\ run[2] = MakesProjects
    BY <1>2, <1>7 DEF RemovalInv, InOrder, FirstApply
  <2>2. 1 \in 1..Len(run')
    BY <1>3, <2>1
  <2>3. run'[1] = run[1 + 1]
    BY <1>3, <2>2
  <2> QED
    BY <2>1, <2>3
<1>10. LaneProved'
  <2> SUFFICES ASSUME NEW i \in 1..Len(run'), NEW l \in Lane, run'[i] = <<"prove", l>>, i # 1
               PROVE  i > 1 /\ run'[i - 1] = <<"apply", l>>
    BY <1>3, <1>5, <1>6 DEF LaneProved
  <2>1. run[i + 1] = <<"prove", l>> /\ i + 1 \in 1..Len(run)
    BY <1>3
  <2>2. run[(i + 1) - 1] = <<"apply", l>>
    BY <1>3, <2>1 DEF RemovalInv, InOrder, LaneProved
  <2>3. i - 1 \in 1..Len(run')
    BY <1>3
  <2>4. run'[i - 1] = run[(i - 1) + 1]
    BY <1>3, <2>3
  <2> QED
    BY <1>3, <2>2, <2>4
<1>11. WholeApply'
  <2> SUFFICES ASSUME NEW i \in 1..Len(run'), run'[i] = ApplyAll PROVE FALSE
    BY DEF WholeApply
  <2>1. run[i + 1] = ApplyAll /\ i + 1 \in 1..Len(run) /\ i + 1 # 1
    BY <1>3
  <2> QED
    BY <1>7, <2>1 DEF RemovalInv, InOrder, WholeApply
<1>12. Sturdy' /\ ProxyStands'
  BY <1>2, <1>4, <1>5, <1>6 DEF RemovalInv, Sturdy, ProxyStands, Expected, Base
<1> QED
  BY <1>3, <1>8, <1>9, <1>10, <1>11, <1>12 DEF InOrder, Owes

(* The steps a seal expands to are plain ones.                              *)
LEMMA UnlessReadyKeeps ==
  ASSUME RemovalInv, UnlessReady
  PROVE  Owned' /\ InOrder' /\ Sturdy' /\ ProxyStands' /\ Owes'
<1>1. PICK take \in BOOLEAN, steps \in {Reseal5, Reseal6} : Expands(take, steps)
  BY DEF UnlessReady, Ready5, Ready6
<1>2. \/ At("unless ready", "round5") \/ At("unless ready", "round6")
      \/ At("if ready", "round5")
  BY DEF UnlessReady
<1>3. /\ Typed /\ "unless ready" \notin CleanVerb /\ "if ready" \notin CleanVerb
      /\ {"unless ready", "if ready"} \cap {"apply", "baseline", "make"} = {}
  BY DEF RemovalInv, CleanVerb
<1>4. /\ ~ Cleaning /\ run # <<>> /\ file # None
      /\ run[1][1] \notin {"apply", "baseline", "make"}
  <2>1. PICK v \in {"unless ready", "if ready"}, x \in {"round5", "round6"} : At(v, x)
    BY <1>2
  <2>2. /\ run # <<>> /\ file # None /\ run[1] = <<v, x>>
        /\ Cleaning => v \in CleanVerb
    BY <1>3, <2>1, InHand
  <2>3. v \notin {"apply", "baseline", "make"} /\ v \notin CleanVerb
    BY <1>3
  <2>4. <<v, x>>[1] = v
    OBVIOUS
  <2>5. run[1][1] = v
    BY <2>2, <2>4
  <2> QED
    BY <2>2, <2>3, <2>5
<1>5. /\ file' = file /\ state' = state /\ cloud' = cloud /\ intent' = intent
      /\ proved' = proved /\ run' = (IF take THEN steps ELSE <<>>) \o Tail(run)
  BY <1>1 DEF Expands, operator
<1>6. PICK q \in Seq(PlainStep) : q = IF take THEN steps ELSE <<>>
  <2>1. <<>> \in Seq(PlainStep)
    OBVIOUS
  <2> QED
    BY <2>1, PlainSequences
<1>7. /\ run \in Seq(SetupStep) /\ Tail(run) \in Seq(SetupStep) /\ q \in Seq(SetupStep)
      /\ Len(Tail(run)) = Len(run) - 1
      /\ \A i \in 1..Len(Tail(run)) : Tail(run)[i] = run[i + 1]
  <2>1. run \in Seq(SetupStep)
    BY <1>3, <1>4 DEF Typed, Shape
  <2>2. q \in Seq(SetupStep)
    BY DEF SetupStep
  <2> QED
    BY <1>4, <2>1, <2>2, HeadTailProperties
<1>8. /\ run' \in Seq(SetupStep) /\ Len(run') = Len(q) + Len(Tail(run))
      /\ \A i \in 1..Len(q) + Len(Tail(run)) :
           run'[i] = IF i <= Len(q) THEN q[i] ELSE Tail(run)[i - Len(q)]
  BY <1>5, <1>6, <1>7, ConcatProperties
<1>9. Len(q) \in Nat /\ Len(run) \in Nat
  BY <1>7
<1>10. ASSUME NEW i \in 1..Len(run')
       PROVE  \/ i <= Len(q) /\ run'[i] \in PlainStep
              \/ /\ i > Len(q) /\ i - Len(q) \in 1..Len(Tail(run))
                 /\ run'[i] = run[(i - Len(q)) + 1]
                 /\ (i - Len(q)) + 1 \in 2..Len(run)
  <2>0. /\ i \in 1..Len(q) + Len(Tail(run)) /\ i \in Nat /\ Len(Tail(run)) \in Nat
        /\ run'[i] = IF i <= Len(q) THEN q[i] ELSE Tail(run)[i - Len(q)]
    <3>1. Len(Tail(run)) \in Nat
      BY <1>7
    <3>2. i \in 1..Len(q) + Len(Tail(run))
      BY <1>8
    <3> QED
      BY <1>8, <1>9, <3>1, <3>2
  <2>1. CASE i <= Len(q)
    <3>1. i \in 1..Len(q) /\ run'[i] = q[i]
      BY <1>9, <2>0, <2>1
    <3> QED
      BY <2>1, <3>1
  <2>2. CASE i > Len(q)
    <3>1. i - Len(q) \in 1..Len(Tail(run)) /\ run'[i] = Tail(run)[i - Len(q)]
      BY <1>9, <2>0, <2>2
    <3>2. (i - Len(q)) + 1 \in 2..Len(run) /\ Tail(run)[i - Len(q)] = run[(i - Len(q)) + 1]
      BY <1>7, <1>9, <3>1
    <3> QED
      BY <2>2, <3>1, <3>2
  <2> QED
    BY <1>9, <2>0, <2>1, <2>2
<1>11. \A s \in PlainStep : s # ApplyAll /\ \A l \in Lane : s # <<"prove", l>>
  <2>1. \A s \in PlainStep : s[1] \notin {"apply", "prove"}
    BY DEF PlainStep
  <2> QED
    BY <2>1 DEF ApplyAll
<1>12. ~ Cleaning'
  <2>1. run' # <<>> => run'[Len(run')] \in SetupStep
    BY <1>8
  <2> QED
    BY <2>1, StepVerbs DEF Cleaning, Unlinks
<1>13. FirstApply'
  <2>1. run[1] # ApplyAll /\ run[1] # MakesProjects
    BY <1>4, StepNames
  <2> QED
    BY <1>4, <1>5, <2>1 DEF RemovalInv, InOrder, FirstApply
<1>14. LaneProved'
  <2> SUFFICES ASSUME NEW i \in 1..Len(run'), NEW l \in Lane, run'[i] = <<"prove", l>>
               PROVE  i > 1 /\ run'[i - 1] = <<"apply", l>>
    BY DEF LaneProved
  <2>1. /\ i > Len(q) /\ run[(i - Len(q)) + 1] = <<"prove", l>>
        /\ (i - Len(q)) + 1 \in 2..Len(run)
    BY <1>10, <1>11
  <2>2. PICK k \in 1..Len(run) : k = (i - Len(q)) + 1 /\ k # 1 /\ run[k] = <<"prove", l>>
    BY <1>9, <2>1
  <2>3. run[i - Len(q)] = <<"apply", l>>
    <3>1. run[k - 1] = <<"apply", l>>
      BY <2>2 DEF RemovalInv, InOrder, LaneProved
    <3>2. k - 1 = i - Len(q)
      BY <1>9, <2>2
    <3> QED
      BY <3>1, <3>2
  <2>4. i - Len(q) # 1
    BY <1>4, <2>3
  <2>5. i - 1 \in 1..Len(run') /\ i - 1 > Len(q) /\ i > 1
    BY <1>9, <2>1, <2>4
  <2>6. PICK j \in 1..Len(run') : j = i - 1 /\ j > Len(q)
    BY <2>5
  <2>7. run'[j] = run[(j - Len(q)) + 1]
    <3>1. j <= Len(q) \/ run'[j] = run[(j - Len(q)) + 1]
      BY <1>10
    <3>2. ~ (j <= Len(q))
      BY <1>9, <2>6
    <3> QED
      BY <3>1, <3>2
  <2>8. (j - Len(q)) + 1 = i - Len(q)
    BY <1>9, <2>6
  <2> QED
    BY <2>3, <2>5, <2>6, <2>7, <2>8
<1>15. WholeApply'
  <2> SUFFICES ASSUME NEW i \in 1..Len(run'), run'[i] = ApplyAll PROVE FALSE
    BY DEF WholeApply
  <2>1. run[(i - Len(q)) + 1] = ApplyAll /\ (i - Len(q)) + 1 \in 2..Len(run)
    BY <1>10, <1>11
  <2>2. run[1] = Baseline
    BY <1>9, <2>1 DEF RemovalInv, InOrder, WholeApply
  <2> QED
    BY <1>4, <2>2, StepNames
<1>16. Owned' /\ Sturdy'
  BY <1>4, <1>5 DEF RemovalInv, Owned, Tracked, LaneIsRecorded, RoleKnown, NotYet, CanaryLate,
              OnlyBoutsLeft, Sturdy
<1>17. ProxyStands'
  <2>1. ~ At("apply", "all") /\ ~ Idle
    BY <1>4, StepNames DEF At, Idle, ApplyAll
  <2> QED
    BY <1>5, <2>1 DEF RemovalInv, ProxyStands
<1> QED
  BY <1>12, <1>13, <1>14, <1>15, <1>16, <1>17 DEF InOrder, Owes

-----------------------------------------------------------------------------
(* A command that stops.                                                   *)

(* It stops with the fleet down only in a whole apply, and a cleanup only   *)
(* has its status to save.                                                 *)
StopsShort ==
  /\ run # <<>> /\ file \in Manifest /\ file # None
  /\ run' = <<>> /\ intent' = intent /\ proved' = proved
  /\ file' \in Manifest /\ file' # None
  /\ file'.role = file.role /\ file'.enabled = file.enabled
  /\ \A l \in file.enabled : file'.lane[l] = "sealed" => file.lane[l] = "sealed"
  /\ file'.status \in {file.status, "cleanup_failed"}
  /\ Cleaning \/ At("apply", "all") => file'.status = "cleanup_failed" \/ file' = file
  /\ ~ Cleaning => file'.status = file.status
  /\ At("apply", "all") => file' = file
  /\ \E down \in SUBSET {"fleet"} :
       /\ state' = state \ down /\ cloud' = cloud \ down
       /\ down # {} => At("apply", "all")

LEMMA StopsKeeps ==
  ASSUME RemovalInv, StopsShort
  PROVE  Owned' /\ InOrder' /\ Sturdy' /\ ProxyStands' /\ Owes'
<1>1. PICK down \in SUBSET {"fleet"} :
        /\ state' = state \ down /\ cloud' = cloud \ down
        /\ down # {} => At("apply", "all")
  BY DEF StopsShort
<1>2. "proxy" \in cloud' <=> "proxy" \in cloud
  BY <1>1
<1>3. "fleet" \notin Lane \cup {"guard", "role"}
  BY DEF Lane
<1>4. Owned'
  <2>1. Tracked'
    BY <1>1 DEF RemovalInv, Owned, Tracked
  <2>2. LaneIsRecorded' /\ RoleKnown'
    BY <1>1 DEF StopsShort, RemovalInv, Owned, LaneIsRecorded, RoleKnown
  <2>3. CanaryLate'
    BY DEF StopsShort, RemovalInv, Owned, CanaryLate
  <2> QED
    BY <2>1, <2>2, <2>3 DEF StopsShort, Owned, NotYet, OnlyBoutsLeft
<1>5. InOrder' /\ Owes'
  BY DEF StopsShort, InOrder, FirstApply, LaneProved, WholeApply, Owes, Cleaning
<1>6. Sturdy'
  <2> SUFFICES ASSUME intent = "install" \/ ("proxy" \in cloud /\ ~ Meanwhile)
               PROVE  /\ \A l \in file'.enabled : file'.lane[l] = "sealed" => l \in state'
                      /\ file'.status # "provisioning" => {"guard", "role"} \subseteq state'
    BY <1>2 DEF Sturdy, StopsShort
  <2>1. /\ \A l \in file.enabled : file.lane[l] = "sealed" => l \in state
        /\ file.status # "provisioning" => {"guard", "role"} \subseteq state
    BY DEF StopsShort, RemovalInv, Sturdy
  <2>2. file.enabled \subseteq Lane
    BY DEF StopsShort, Manifest
  <2>3. file'.status # "provisioning" => file.status # "provisioning"
    <3>1. CASE Cleaning
      <4>1. intent = "remove"
        BY <3>1 DEF RemovalInv, Typed, Shape
      <4> QED
        BY <4>1 DEF RemovalInv, ProxyStands
    <3>2. CASE ~ Cleaning
      BY <3>2 DEF StopsShort
    <3> QED
      BY <3>1, <3>2
  <2> QED
    BY <1>1, <1>3, <2>1, <2>2, <2>3 DEF StopsShort
<1>7. ProxyStands'
  <2> SUFFICES ASSUME "proxy" \in cloud, ~ Meanwhile
               PROVE  /\ file'.status # "provisioning"
                      /\ "fleet" \in state' \/ LaneStopped(file')
    BY <1>2 DEF ProxyStands, StopsShort, Idle
  <2>1. file.status # "provisioning" /\ ("fleet" \in state \/ (LaneStopped(file) /\ At("apply", "all")))
    BY DEF RemovalInv, ProxyStands, Idle, StopsShort
  <2>2. CASE At("apply", "all")
    <3>1. run[1] = ApplyAll /\ 1 \in 1..Len(run)
      BY <2>2, InHand DEF ApplyAll, RemovalInv
    <3>2. LaneStopped(file)
      BY <3>1, StepNames DEF RemovalInv, InOrder, WholeApply
    <3> QED
      BY <2>1, <2>2, <3>2 DEF StopsShort
  <2>3. CASE ~ At("apply", "all")
    BY <1>1, <2>1, <2>3 DEF StopsShort
  <2> QED
    BY <2>2, <2>3
<1> QED
  BY <1>4, <1>5, <1>6, <1>7

LEMMA RaisesStops ==
  ASSUME RemovalInv, run # <<>>, Raises, intent' = intent, proved' = proved,
         \E down \in SUBSET {"fleet"} :
           /\ state' = state \ down /\ cloud' = cloud \ down
           /\ down # {} => At("apply", "all")
  PROVE  StopsShort
<1>1. file \in Manifest /\ file # None
  BY DEF RemovalInv, Typed, InstallTypeOK
<1>2. At("apply", "all") => ~ Cleaning
  <2>1. "apply" \notin CleanVerb
    BY DEF CleanVerb
  <2> QED
    BY <2>1, InHand DEF RemovalInv
<1>3. file' = IF Cleaning THEN [file EXCEPT !.status = "cleanup_failed"] ELSE file
  BY DEF Raises
<1>4. /\ file' \in Manifest /\ file'.role = file.role /\ file'.enabled = file.enabled
      /\ file'.lane = file.lane
  BY <1>1, <1>3 DEF Manifest, Status
<1>5. /\ ~ Cleaning => file' = file
      /\ Cleaning => file'.status = "cleanup_failed"
  BY <1>1, <1>3 DEF Manifest
<1> QED
  BY <1>1, <1>2, <1>4, <1>5, NoFileAssumption DEF StopsShort, Raises

LEMMA AccidentKeeps ==
  ASSUME RemovalInv, Refuses \/ Fails \/ Killed \/ Unsupported
  PROVE  Owned' /\ InOrder' /\ Sturdy' /\ ProxyStands' /\ Owes'
<1>1. CASE Refuses
  <2>1. run # <<>>
    BY <1>1 DEF Refuses, Refused, At
  <2>2. state' = state \ {} /\ cloud' = cloud \ {}
    BY <1>1 DEF Refuses
  <2>3. StopsShort
    BY <1>1, <2>1, <2>2, RaisesStops DEF Refuses
  <2> QED
    BY <2>3, StopsKeeps
<1>2. CASE Fails
  <2>1. PICK down \in {{}} \cup (IF At("apply", "all") THEN {{"fleet"} \cap state} ELSE {}) :
          state' = state \ down /\ cloud' = cloud \ down
    BY <1>2 DEF Fails
  <2>2. down \in SUBSET {"fleet"} /\ (down # {} => At("apply", "all"))
    BY <2>1
  <2>3. StopsShort
    BY <1>2, <2>1, <2>2, RaisesStops DEF Fails, Idle
  <2> QED
    BY <2>3, StopsKeeps
<1>3. CASE Killed
  <2>1. file \in Manifest /\ file # None /\ run # <<>>
    BY <1>3 DEF Killed, Cleaning, RemovalInv, Typed, InstallTypeOK
  <2>2. state' = state \ {} /\ cloud' = cloud \ {}
    BY <1>3 DEF Killed
  <2>3. file' = file /\ run' = <<>> /\ intent' = intent /\ proved' = proved
    BY <1>3 DEF Killed, operator
  <2>4. StopsShort
    BY <2>1, <2>2, <2>3 DEF StopsShort
  <2> QED
    BY <2>4, StopsKeeps
<1>4. CASE Unsupported
  <2>1. PICK v \in {"record", "prove"} : At(v, "lane6")
    BY <1>4 DEF Unsupported
  <2>2. "record" \notin CleanVerb /\ "prove" \notin CleanVerb
    BY DEF CleanVerb
  <2>3. file \in Manifest /\ file # None /\ run # <<>> /\ ~ Cleaning /\ ~ At("apply", "all")
    BY <2>1, <2>2, InHand DEF RemovalInv, At
  <2>4. /\ file' = [file EXCEPT !.lane["lane6"] = "unsupported"] /\ run' = <<>>
        /\ intent' = intent /\ proved' = proved
    BY <1>4 DEF Unsupported, operator
  <2>5. file' \in Manifest /\ file' # None
    BY <2>3, <2>4, Manifests, NoFileAssumption DEF Lane
  <2>6. /\ file'.role = file.role /\ file'.enabled = file.enabled /\ file'.status = file.status
        /\ \A l \in file.enabled : file'.lane[l] = "sealed" => file.lane[l] = "sealed"
    BY <2>3, <2>4 DEF Manifest
  <2>7. state' = state \ {} /\ cloud' = cloud \ {}
    BY <1>4 DEF Unsupported
  <2>8. StopsShort
    BY <2>3, <2>4, <2>5, <2>6, <2>7 DEF StopsShort
  <2> QED
    BY <2>8, StopsKeeps
<1> QED
  BY <1>1, <1>2, <1>3, <1>4

-----------------------------------------------------------------------------
(* Steps of cleanup.                                                       *)

(* The same lemma of the next state: a cleanup has no step of setup's.      *)
LEMMA CleaningOrderNext ==
  ASSUME Typed', Cleaning' PROVE InOrder'
<1>1. run' \in Seq(CleanStep)
  BY DEF Typed, Shape
<1>2. \A i \in 1..Len(run') : run'[i] \in CleanStep
  BY <1>1
<1>3. LaneProved'
  BY <1>2, StepNames DEF LaneProved
<1>4. WholeApply'
  BY <1>2, StepNames DEF WholeApply
<1>5. FirstApply'
  BY DEF FirstApply
<1> QED
  BY <1>3, <1>4, <1>5 DEF InOrder

(* What a run still has to do once its step in hand is done.                *)
LEMMA LeftAfter ==
  ASSUME Typed, run # <<>>, GoOn
  PROVE  /\ \A s : Left(s) /\ s # run[1] => Left(s)'
         /\ \A s : Left(s)' => Left(s)
         /\ Ordered(run) => Ordered(run)'
<1>1. /\ Len(run) \in Nat \ {0} /\ Len(run') = Len(run) - 1
      /\ \A i \in 1..Len(run') : run'[i] = run[i + 1] /\ i + 1 \in 1..Len(run)
  BY GoesOn
<1>2. ASSUME NEW s, Left(s), s # run[1] PROVE Left(s)'
  <2>1. PICK i \in 1..Len(run) : run[i] = s
    BY <1>2 DEF Left, Has
  <2>2. i # 1
    BY <1>2, <2>1
  <2>3. i - 1 \in 1..Len(run') /\ (i - 1) + 1 = i
    BY <1>1, <2>2
  <2>4. run'[i - 1] = s
    BY <1>1, <2>1, <2>3
  <2> QED
    BY <2>3, <2>4 DEF Left, Has
<1>3. ASSUME NEW s, Left(s)' PROVE Left(s)
  BY <1>1, <1>3 DEF Left, Has
<1>4. ASSUME Ordered(run) PROVE Ordered(run)'
  <2> SUFFICES ASSUME NEW i \in 1..Len(run'), run'[i] = Baseline, NEW j \in 1..(i - 1)
               PROVE  run'[j][1] \notin {"forget", "destroy"}
    BY DEF Ordered
  <2>1. run[i + 1] = Baseline /\ i + 1 \in 1..Len(run)
    BY <1>1
  <2>2. j + 1 \in 1..((i + 1) - 1) /\ j \in 1..Len(run')
    BY <1>1
  <2>3. run[j + 1][1] \notin {"forget", "destroy"}
    BY <1>4, <2>1, <2>2 DEF Ordered
  <2> QED
    BY <1>1, <2>2, <2>3
<1> QED
  BY <1>2, <1>3, <1>4

(* Nothing is taken down while the baseline is still to be looked at.       *)
LEMMA BaselineFirst ==
  ASSUME Typed, run # <<>>, Ordered(run), run[1][1] \in {"forget", "destroy"}
  PROVE  ~ Left(Baseline)
<1> SUFFICES ASSUME Left(Baseline) PROVE FALSE
  OBVIOUS
<1>1. PICK i \in 1..Len(run) : run[i] = Baseline
  BY DEF Left, Has
<1>2. i # 1
  BY <1>1, StepNames
<1>3. 1 \in 1..(i - 1)
  <2>1. i \in Nat /\ i >= 1
    BY <1>1, RunIsSeq
  <2> QED
    BY <1>2, <2>1
<1> QED
  BY <1>1, <1>3 DEF Ordered

Swept == {"round4", "projects", "role"}

(* A step a cleanup takes: what it takes away is what it was to delete.     *)
CleanupGoes ==
  /\ Cleaning /\ run # <<>> /\ run[1] # Unlinks
  /\ GoOn /\ file' = file /\ intent' = intent /\ proved' = proved
  /\ app' = app /\ (run[1] = <<"delete", "app">> => Settled')
  /\ \/ run[1][1] = "forget" /\ run[1] \in {<<"forget", "guard">>, <<"forget", "role">>}
        /\ state' = state \ {run[1][2]} /\ cloud' = cloud
     \/ run[1][1] = "delete" /\ state' = state /\ cloud' \subseteq cloud
        /\ cloud' \cap Held = cloud \cap Held
        /\ run[1][2] \notin cloud' \cap Swept
     \/ run[1] = <<"destroy", "state">> /\ state = {} /\ state' = state /\ cloud' = cloud
     \/ run[1] = Baseline /\ "proxy" \notin cloud /\ state' = state /\ cloud' = cloud
     \/ run[1][1] \in {"verify", "receipt"} /\ state' = state /\ cloud' = cloud

LEMMA CleanupGoesOn ==
  ASSUME RemovalInv, Typed', CleanupGoes
  PROVE  Owned' /\ InOrder' /\ Sturdy' /\ ProxyStands' /\ Owes'
<1>1. /\ Typed /\ Cleaning /\ Cleaning' /\ run # <<>> /\ intent = "remove" /\ file # None
      /\ file' = file /\ intent' = intent /\ proved' = proved
  <2>1. Typed /\ Cleaning /\ run # <<>>
    BY DEF RemovalInv, CleanupGoes
  <2>2. Cleaning'
    BY <2>1, GoesOn DEF CleanupGoes
  <2>3. intent = "remove" /\ file # None
    BY <2>1 DEF Typed, Shape
  <2> QED
    BY <2>1, <2>2, <2>3 DEF CleanupGoes
<1>2. /\ \A s : Left(s) /\ s # run[1] => Left(s)'
      /\ \A s : Left(s)' => Left(s)
      /\ Ordered(run) => Ordered(run)'
  BY <1>1, LeftAfter DEF CleanupGoes
<1>3. /\ \A x \in {"round4", "projects"} : x \in cloud => Left(<<"delete", x>>)
      /\ Left(<<"delete", "app">>) \/ Settled
      /\ "clone" \in cloud => Meanwhile
      /\ "proxy" \in cloud => Meanwhile \/ Left(Baseline)
      /\ "role" \in cloud => \/ Left(<<"delete", "role">>)
                             \/ /\ "role" \in state /\ Left(<<"destroy", "state">>)
                                /\ ~ Left(<<"forget", "role">>)
      /\ state \cap Held # {} => Left(<<"destroy", "state">>)
      /\ Left(<<"forget", "role">>) => file.role
      /\ Ordered(run)
  BY <1>1 DEF RemovalInv, Owes
<1>4. InOrder'
  BY <1>1, CleaningOrderNext
<1>5. /\ cloud' \subseteq cloud /\ state' \subseteq state
      /\ cloud' \cap Held = cloud \cap Held /\ state' \cap Held = state \cap Held
  <2>1. <<"forget", "guard">>[2] \notin Held /\ <<"forget", "role">>[2] \notin Held
    BY DEF Held, Lane
  <2> QED
    BY <2>1 DEF CleanupGoes
<1>6. state' # state => run[1][1] = "forget" /\ ("proxy" \in cloud => Meanwhile)
  <2> SUFFICES ASSUME state' # state
               PROVE  run[1][1] = "forget" /\ ("proxy" \in cloud => Meanwhile)
    OBVIOUS
  <2>1. run[1][1] = "forget"
    BY DEF CleanupGoes
  <2> QED
    BY <1>1, <1>3, <2>1, BaselineFirst
<1>7. \A x \in {"round4", "projects", "role"} :
        x \in cloud' /\ Left(<<"delete", x>>) => Left(<<"delete", x>>)'
  <2> SUFFICES ASSUME NEW x \in {"round4", "projects", "role"}, x \in cloud',
                      run[1] = <<"delete", x>>
               PROVE  FALSE
    BY <1>2
  <2>1. run[1][1] = "delete" /\ run[1][2] = x
    OBVIOUS
  <2>2. <<"destroy", "state">>[1] = "destroy"
    OBVIOUS
  <2> QED
    BY <2>1, <2>2, StepNames DEF CleanupGoes, Swept
<1>8. (state # {} /\ Left(<<"destroy", "state">>)) => Left(<<"destroy", "state">>)'
  <2> SUFFICES ASSUME state # {}, run[1] = <<"destroy", "state">> PROVE FALSE
    BY <1>2
  <2>1. run[1][1] = "destroy"
    OBVIOUS
  <2> QED
    BY <2>1, StepNames DEF CleanupGoes
<1>9. "proxy" \in cloud' => Meanwhile \/ Left(Baseline)'
  <2> SUFFICES ASSUME "proxy" \in cloud', run[1] = Baseline PROVE FALSE
    BY <1>2, <1>3, <1>5
  <2>1. run[1][1] = "baseline"
    BY StepNames
  <2>2. <<"destroy", "state">>[1] = "destroy"
    OBVIOUS
  <2> QED
    BY <1>5, <2>1, <2>2 DEF CleanupGoes
<1>10. "role" \in cloud' => \/ Left(<<"delete", "role">>)'
                            \/ /\ "role" \in state' /\ Left(<<"destroy", "state">>)'
                               /\ ~ Left(<<"forget", "role">>)'
  <2> SUFFICES ASSUME "role" \in cloud', ~ Left(<<"delete", "role">>)
               PROVE  /\ "role" \in state' /\ Left(<<"destroy", "state">>)'
                      /\ ~ Left(<<"forget", "role">>)'
    BY <1>7
  <2>1. "role" \in state /\ Left(<<"destroy", "state">>) /\ ~ Left(<<"forget", "role">>)
    BY <1>3, <1>5
  <2>2. run[1] # <<"forget", "role">>
    <3>1. 1 \in 1..Len(run)
      BY <1>1, RunIsSeq
    <3> QED
      BY <2>1, <3>1 DEF Left, Has
  <2>3. "role" \in state'
    <3>1. <<"forget", "guard">>[2] = "guard"
      OBVIOUS
    <3> QED
      BY <2>1, <2>2, <3>1 DEF CleanupGoes
  <2> QED
    BY <1>2, <1>8, <2>1, <2>3
<1>11. Owes'
  <2>1. \A x \in {"round4", "projects"} : x \in cloud' => Left(<<"delete", x>>)'
    BY <1>3, <1>5, <1>7
  <2>2. state' \cap Held # {} => Left(<<"destroy", "state">>)'
    BY <1>3, <1>5, <1>8
  <2>3. Left(<<"forget", "role">>)' => file'.role
    BY <1>1, <1>2, <1>3
  <2>4. ("clone" \in cloud' => Meanwhile) /\ Ordered(run)'
    BY <1>2, <1>3, <1>5
  <2>5. Left(<<"delete", "app">>)' \/ Settled'
    <3>1. CASE run[1] = <<"delete", "app">>
      BY <3>1 DEF CleanupGoes
    <3>2. CASE run[1] # <<"delete", "app">>
      BY <1>2, <1>3, <1>5, <3>2 DEF CleanupGoes, Settled
    <3> QED
      BY <3>1, <3>2
  <2> QED
    BY <1>9, <1>10, <2>1, <2>2, <2>3, <2>4, <2>5 DEF Owes
<1>12. Owned'
  <2>1. Tracked'
    BY <1>5 DEF Tracked, RemovalInv, Owned
  <2>2. LaneIsRecorded' /\ CanaryLate'
    BY <1>1, <1>5 DEF RemovalInv, Owned, LaneIsRecorded, CanaryLate
  <2>3. RoleKnown'
    <3> SUFFICES ASSUME "role" \in cloud', "role" \notin state' PROVE file.role
      BY <1>1 DEF RoleKnown
    <3>1. "role" \in cloud
      BY <1>5
    <3>2. "role" \in state \/ file.role
      BY <1>1, <3>1 DEF RemovalInv, Owned, RoleKnown
    <3>3. CASE "role" \in state
      <4>1. state' # state /\ run[1] = <<"forget", "role">>
        <5>1. <<"forget", "guard">>[2] = "guard"
          OBVIOUS
        <5> QED
          BY <3>3, <5>1 DEF CleanupGoes
      <4>2. Left(<<"forget", "role">>)
        <5>1. 1 \in 1..Len(run)
          BY <1>1, RunIsSeq
        <5> QED
          BY <4>1, <5>1 DEF Left, Has
      <4> QED
        BY <1>3, <4>2
    <3> QED
      BY <3>2, <3>3
  <2> QED
    BY <1>1, <2>1, <2>2, <2>3 DEF Owned, NotYet, OnlyBoutsLeft
<1>13. Sturdy'
  BY <1>1, <1>5, <1>6 DEF RemovalInv, Sturdy
<1>14. ProxyStands'
  <2> SUFFICES ASSUME "proxy" \in cloud', ~ Meanwhile
               PROVE  file.status # "provisioning" /\ "fleet" \in state'
    BY <1>1 DEF ProxyStands
  <2>1. "proxy" \in cloud /\ state' = state
    BY <1>5, <1>6
  <2>2. ~ Idle /\ ~ At("apply", "all")
    <3>1. "apply" \notin CleanVerb
      BY DEF CleanVerb
    <3> QED
      BY <1>1, <3>1, InHand DEF Idle
  <2> QED
    BY <2>1, <2>2 DEF RemovalInv, ProxyStands
<1> QED
  BY <1>4, <1>11, <1>12, <1>13, <1>14

(* Setup looks at the baseline before it applies the whole.                 *)
LEMMA BaselineKeeps ==
  ASSUME RemovalInv, CleanBaseline, ~ Cleaning
  PROVE  Owned' /\ InOrder' /\ Sturdy' /\ ProxyStands' /\ Owes'
<1>1. At("baseline", "round5") /\ "proxy" \notin cloud /\ GoOn /\ Typed
  BY DEF CleanBaseline, Refused, RemovalInv
<1>2. run # <<>> /\ file # None /\ run[1] = Baseline
  BY <1>1, InHand DEF Baseline
<1>3. /\ Len(run) \in Nat \ {0} /\ Len(run') = Len(run) - 1
      /\ \A i \in 1..Len(run') : run'[i] = run[i + 1] /\ i + 1 \in 1..Len(run)
      /\ ~ Cleaning'
  BY <1>1, <1>2, GoesOn
<1>4. /\ file' = file /\ state' = state /\ cloud' = cloud /\ intent' = intent
      /\ proved' = proved
  BY DEF CleanBaseline, operator
<1>5. FirstApply'
  <2>1. file.status # "provisioning"
    BY <1>2, StepNames DEF RemovalInv, InOrder, FirstApply
  <2> QED
    BY <1>4, <2>1 DEF FirstApply
<1>6. LaneProved'
  <2> SUFFICES ASSUME NEW i \in 1..Len(run'), NEW l \in Lane, run'[i] = <<"prove", l>>
               PROVE  i > 1 /\ run'[i - 1] = <<"apply", l>>
    BY DEF LaneProved
  <2>1. run[i + 1] = <<"prove", l>> /\ i + 1 \in 1..Len(run)
    BY <1>3
  <2>2. i + 1 > 1 /\ run[(i + 1) - 1] = <<"apply", l>>
    BY <1>3, <2>1 DEF RemovalInv, InOrder, LaneProved
  <2>3. i # 1
    BY <1>2, <2>2, StepNames
  <2>4. i - 1 \in 1..Len(run') /\ (i - 1) + 1 = i /\ (i + 1) - 1 = i
    BY <1>3, <2>3
  <2>5. run'[i - 1] = run[i]
    BY <1>3, <2>4
  <2> QED
    BY <2>2, <2>3, <2>4, <2>5
<1>7. WholeApply'
  <2> SUFFICES ASSUME NEW i \in 1..Len(run'), run'[i] = ApplyAll PROVE i = 1
    BY <1>1, <1>4 DEF WholeApply
  <2>1. run[i + 1] = ApplyAll /\ i + 1 \in 1..Len(run)
    BY <1>3
  <2>2. i + 1 = 1 \/ i + 1 = 2
    BY <2>1 DEF RemovalInv, InOrder, WholeApply
  <2> QED
    BY <1>3, <2>2
<1>8. Owned' /\ Sturdy' /\ ProxyStands'
  BY <1>1, <1>2, <1>4 DEF RemovalInv, Owned, Tracked, LaneIsRecorded, RoleKnown, NotYet,
                          CanaryLate, OnlyBoutsLeft, Sturdy, ProxyStands
<1> QED
  BY <1>3, <1>5, <1>6, <1>7, <1>8 DEF InOrder, Owes

(* One of the addresses Terraform holds is destroyed.                       *)
LEMMA DestroyOneKeeps ==
  ASSUME RemovalInv, DestroyOne, Typed'
  PROVE  Owned' /\ InOrder' /\ Sturdy' /\ ProxyStands' /\ Owes'
<1>1. PICK a \in state : state' = state \ {a} /\ cloud' = cloud \ {a}
  BY DEF DestroyOne
<1>2. At("destroy", "state") /\ Typed
  BY DEF DestroyOne, RemovalInv
<1>3. /\ run # <<>> /\ file # None /\ run[1] = <<"destroy", "state">> /\ Cleaning
      /\ 1 \in 1..Len(run)
  <2>1. "destroy" \notin SetupVerb
    BY DEF SetupVerb
  <2> QED
    BY <1>2, <2>1, InHand
<1>4. /\ run' = run /\ file' = file /\ intent' = intent /\ proved' = proved
      /\ Cleaning' /\ intent = "remove"
  BY <1>2, <1>3 DEF DestroyOne, operator, Cleaning, Typed, Shape
<1>5. "proxy" \in cloud => Meanwhile
  <2>1. run[1][1] = "destroy"
    BY <1>3
  <2> QED
    BY <1>2, <1>3, <2>1, BaselineFirst DEF RemovalInv, Owes
<1>6. Left(<<"destroy", "state">>)
  BY <1>3 DEF Left, Has
<1>7. InOrder'
  BY <1>4, CleaningOrderNext
<1>8. Owned'
  BY <1>1, <1>3, <1>4 DEF RemovalInv, Owned, Tracked, LaneIsRecorded, RoleKnown, NotYet,
                          CanaryLate, OnlyBoutsLeft
<1>9. Sturdy' /\ ProxyStands'
  BY <1>1, <1>4, <1>5 DEF Sturdy, ProxyStands
<1>10. Owes'
  <2>1. \A s : Left(s)' <=> Left(s)
    BY <1>4 DEF Left
  <2>2. /\ \A x \in {"round4", "projects"} : x \in cloud => Left(<<"delete", x>>)
        /\ Left(<<"delete", "app">>) \/ Settled
        /\ "clone" \in cloud => Meanwhile
        /\ "role" \in cloud => \/ Left(<<"delete", "role">>)
                               \/ /\ "role" \in state /\ Left(<<"destroy", "state">>)
                                  /\ ~ Left(<<"forget", "role">>)
        /\ Left(<<"forget", "role">>) => file.role
        /\ Ordered(run)
    BY <1>3 DEF RemovalInv, Owes
  <2>3. Ordered(run)'
    BY <1>4, <2>2
  <2>4. Left(<<"delete", "app">>)' \/ Settled'
    BY <1>1, <2>1, <2>2 DEF DestroyOne, Settled
  <2> QED
    BY <1>1, <1>4, <1>5, <1>6, <2>1, <2>2, <2>3, <2>4 DEF Owes
<1> QED
  BY <1>7, <1>8, <1>9, <1>10

(* The manifest goes once nothing that bills is left.                       *)
LEMMA UnlinkKeeps ==
  ASSUME RemovalInv, Unlink
  PROVE  Owned' /\ InOrder' /\ Sturdy' /\ ProxyStands' /\ Owes'
<1>1. At("unlink", "file") /\ GoOn /\ Typed /\ "unlink" \notin SetupVerb
  BY DEF Unlink, RemovalInv, SetupVerb
<1>2. run # <<>> /\ run[1] = Unlinks /\ Cleaning
  BY <1>1, InHand DEF Unlinks
<1>3. run' = <<>> /\ Len(run) = 1 /\ intent = "remove" /\ Ordered(run)
  BY <1>1, <1>2, GoesOn DEF Typed, Shape, RemovalInv, Owes
<1>4. ASSUME NEW s, s[1] # "unlink" PROVE ~ Left(s)
  <2>1. Unlinks[1] = "unlink"
    BY DEF Unlinks
  <2>2. \A i \in 1..1 : i = 1
    OBVIOUS
  <2> QED
    BY <1>2, <1>3, <1>4, <2>1, <2>2 DEF Left, Has
<1>5. /\ \A x : ~ Left(<<"delete", x>>)
      /\ ~ Left(<<"destroy", "state">>) /\ ~ Left(Baseline)
  <2>1. \A x : <<"delete", x>>[1] = "delete"
    OBVIOUS
  <2>2. <<"destroy", "state">>[1] = "destroy"
    OBVIOUS
  <2> QED
    BY <1>4, <2>1, <2>2, StepNames
<1>6. /\ {"round4", "projects", "role"} \cap cloud = {}
      /\ {"clone", "proxy"} \cap cloud = {} \/ Meanwhile
      /\ cloud \cap Held = {}
  BY <1>2, <1>5 DEF RemovalInv, Owes, Owned, Tracked
<1>7. /\ cloud \cap Billed \subseteq {"clone", "proxy", "app"}
      /\ cloud \cap Billed \subseteq {"app"} \/ Meanwhile
  BY <1>6 DEF Billed, Held
<1>8. /\ file' = None /\ state' = state /\ cloud' = cloud /\ intent' = intent
      /\ proved' = proved
  BY DEF Unlink, operator
<1>9. Tracked'
  BY <1>8 DEF RemovalInv, Owned, Tracked
<1>10. Owned'
  <2>1. Settled'
    BY <1>2, <1>5 DEF RemovalInv, Owes, Settled, Unlink
  <2> QED
    BY <1>3, <1>7, <1>8, <1>9, <2>1 DEF Owned, LaneIsRecorded, RoleKnown, NotYet, CanaryLate,
                                        OnlyBoutsLeft
<1>11. InOrder' /\ Owes'
  BY <1>3 DEF InOrder, FirstApply, LaneProved, WholeApply, Owes, Cleaning
<1>12. Sturdy' /\ ProxyStands'
  BY <1>6, <1>8 DEF Sturdy, ProxyStands
<1> QED
  BY <1>10, <1>11, <1>12

LEMMA CleanupKeeps ==
  ASSUME RemovalInv, Asked, Cleanup, Typed'
  PROVE  Owned' /\ InOrder' /\ Sturdy' /\ ProxyStands' /\ Owes'
<1>1. Typed
  BY DEF RemovalInv
<1>2. ASSUME NEW v \in {"verify", "receipt", "forget", "delete", "destroy"}, NEW x, At(v, x)
      PROVE  /\ Cleaning /\ run # <<>> /\ file # None /\ run[1] = <<v, x>> /\ run[1] # Unlinks
             /\ run[1][1] = v /\ run[1][2] = x
             /\ v = "delete" => x \in Deleted
  <2>1. v \notin SetupVerb /\ v # "unlink" /\ Unlinks[1] = "unlink"
    BY DEF SetupVerb, Unlinks
  <2>2. /\ Cleaning /\ run # <<>> /\ file # None /\ run[1] = <<v, x>>
        /\ v = "delete" => x \in Deleted
    BY <1>1, <1>2, <2>1, InHand
  <2>3. run[1][1] = v /\ run[1][2] = x
    BY <2>2
  <2> QED
    BY <2>1, <2>2, <2>3
<1>3. CASE CleanBaseline
  <2>1. CASE Cleaning
    <3>1. At("baseline", "round5")
      BY <1>3 DEF CleanBaseline
    <3>2. run # <<>> /\ run[1] = Baseline
      BY <1>1, <3>1, InHand DEF Baseline
    <3>3. run[1] # Unlinks
      BY <3>2, StepNames DEF Unlinks
    <3>4. "proxy" \notin cloud
      BY <1>3, <3>1 DEF CleanBaseline, Refused
    <3>5. CleanupGoes
      BY <1>3, <2>1, <3>2, <3>3, <3>4, StepNames DEF CleanupGoes, CleanBaseline, operator
    <3> QED
      BY <3>5, CleanupGoesOn
  <2>2. CASE ~ Cleaning
    BY <1>3, <2>2, BaselineKeeps
  <2> QED
    BY <2>1, <2>2
<1>4. CASE Verify6
  <2>1. At("verify", "round6")
    BY <1>4 DEF Verify6
  <2>2. CleanupGoes
    BY <1>2, <1>4, <2>1 DEF CleanupGoes, Verify6, operator
  <2> QED
    BY <2>2, CleanupGoesOn
<1>5. CASE WriteReceipt
  <2>1. At("receipt", "round6")
    BY <1>5 DEF WriteReceipt
  <2>2. CleanupGoes
    BY <1>2, <1>5, <2>1 DEF CleanupGoes, WriteReceipt, operator
  <2> QED
    BY <2>2, CleanupGoesOn
<1>6. ASSUME NEW thing \in {"guard", "role"}, Forget(thing)
      PROVE  Owned' /\ InOrder' /\ Sturdy' /\ ProxyStands' /\ Owes'
  <2>1. At("forget", thing)
    BY <1>6 DEF Forget
  <2>2. /\ Cleaning /\ run # <<>> /\ run[1] # Unlinks
        /\ run[1] = <<"forget", thing>> /\ run[1][1] = "forget" /\ run[1][2] = thing
    BY <1>2, <2>1
  <2>3. /\ state' = state \ {thing} /\ cloud' = cloud /\ GoOn /\ file' = file
        /\ intent' = intent /\ proved' = proved /\ app' = app
    BY <1>6 DEF Forget, Forgets, operator
  <2>4. <<"delete", "app">>[1] = "delete"
    OBVIOUS
  <2>5. CleanupGoes
    BY <2>2, <2>3, <2>4 DEF CleanupGoes
  <2> QED
    BY <2>5, CleanupGoesOn
<1>7. ASSUME NEW thing \in Thing, Delete(thing)
      PROVE  Owned' /\ InOrder' /\ Sturdy' /\ ProxyStands' /\ Owes'
  <2>1. At("delete", thing)
    BY <1>7 DEF Delete
  <2>2. /\ Cleaning /\ run # <<>> /\ run[1] # Unlinks /\ thing \in Deleted
        /\ run[1][1] = "delete" /\ run[1][2] = thing
    BY <1>2, <2>1
  <2>3. /\ cloud' = cloud \ Deletes(thing, file) /\ state' = state /\ GoOn /\ file' = file
        /\ intent' = intent /\ proved' = proved
    BY <1>7 DEF Delete, operator
  <2>4. thing # "app" => thing \in Deletes(thing, file)
    BY DEF Deletes
  <2>5. Deletes(thing, file) \cap Held = {}
    BY <2>2 DEF Deletes, Deleted, Held, Lane
  <2>6. cloud' \subseteq cloud /\ cloud' \cap Held = cloud \cap Held /\ thing \notin cloud' \cap Swept
    BY <2>3, <2>4, <2>5 DEF Swept
  <2>7. app' = app /\ (thing = "app" => Settled')
    <3>1. app' = app /\ (thing = "app" => app # "pending")
      BY <1>7, <2>1 DEF Delete, Refused, Unresolved
    <3>2. intent = "remove" /\ app \in AppRecord
      BY <1>1, <2>2 DEF Typed, Shape, InstallTypeOK
    <3>3. thing = "app" /\ app = "created" => "app" \notin cloud'
      BY <2>3 DEF Deletes
    <3> QED
      BY <3>1, <3>2, <3>3 DEF Asked, Settled, AppRecord
  <2>8. run[1] = <<"delete", "app">> => thing = "app"
    BY <2>2
  <2>9. CleanupGoes
    BY <2>2, <2>3, <2>6, <2>7, <2>8 DEF CleanupGoes
  <2> QED
    BY <2>9, CleanupGoesOn
<1>8. CASE DestroyOne
  BY <1>8, DestroyOneKeeps
<1>9. CASE Destroyed
  <2>1. At("destroy", "state")
    BY <1>9 DEF Destroyed
  <2>2. CleanupGoes
    BY <1>2, <1>9, <2>1 DEF CleanupGoes, Destroyed, operator
  <2> QED
    BY <2>2, CleanupGoesOn
<1>10. CASE Unlink
  BY <1>10, UnlinkKeeps
<1> QED
  BY <1>3, <1>4, <1>5, <1>6, <1>7, <1>8, <1>9, <1>10 DEF Cleanup

-----------------------------------------------------------------------------
(* What the operator starts.                                               *)

(* A command of setup begins: nothing is made yet.                          *)
LEMMA BeginsSetup ==
  ASSUME RemovalInv, Idle, NEW m \in Manifest, NEW r, NEW p, Opens(r, p),
         run' = r \o Lanes, file' = m, intent' = intent, proved' = proved,
         UNCHANGED <<state, cloud>>, ~ Cleaning',
         m.status = "provisioning" => p = <<ApplyAll, MakesProjects>>,
         \/ file = None /\ intent = "install" /\ m = Fresh
         \/ m = file /\ MayOpen(m, p)
  PROVE  Owned' /\ InOrder' /\ Sturdy' /\ ProxyStands' /\ Owes'
<1>1. /\ Len(run') = Len(r) + 6 /\ Len(p) <= Len(r)
      /\ \A i \in 1..Len(p) : run'[i] = p[i]
      /\ \A i \in 1..Len(run') : run'[i] = ApplyAll => i <= Len(p) /\ run'[i] = p[i]
      /\ \A i \in 1..Len(run'), l \in Lane : run'[i] = <<"prove", l>> =>
           i > 1 /\ run'[i - 1] = <<"apply", l>>
      /\ run' \in Seq(SetupStep)
  <2>1. PICK w : w = r \o Lanes
    OBVIOUS
  <2>2. SetsUp(r, p, w)
    BY <2>1, SetupRun
  <2>3. Len(p) <= Len(r)
    BY DEF Opens
  <2>4. run' = w
    BY <2>1
  <2> QED
    BY <2>2, <2>3, <2>4 DEF SetsUp
<1>2. p \in Opening /\ Len(r) \in Nat /\ file' # None
  BY NoFileAssumption DEF Opens
<1>3. CASE file = None
  <2>1. m = Fresh /\ intent = "install"
    BY <1>3, NoFileAssumption
  <2>2. cloud \subseteq {"app"} /\ state = {} /\ ~ proved.canary
    BY <1>3, <2>1 DEF RemovalInv, Owned, NotYet
  <2>3. /\ m.enabled = {} /\ m.status = "provisioning"
    BY <2>1 DEF Fresh
  <2>4. Owned'
    BY <1>2, <2>2, <2>3 DEF Owned, Tracked, LaneIsRecorded, RoleKnown, NotYet, CanaryLate,
                            OnlyBoutsLeft, Held, Lane
  <2>5. Sturdy' /\ ProxyStands'
    BY <2>2, <2>3 DEF Sturdy, ProxyStands
  <2>6. "proxy" \notin cloud'
    BY <2>2
  <2>7. WholeApply'
    <3> SUFFICES ASSUME NEW i \in 1..Len(run'), run'[i] = ApplyAll PROVE i = 1
      BY <2>6 DEF WholeApply
    <3>1. p = <<ApplyAll, MakesProjects>>
      BY <2>3
    <3>2. i <= 2 /\ p[i] = ApplyAll
      BY <1>1, <3>1
    <3> QED
      BY <3>1, <3>2, StepNames
  <2>8. p = <<ApplyAll, MakesProjects>> /\ Len(p) = 2 /\ p[1] = ApplyAll /\ p[2] = MakesProjects
    BY <2>3
  <2>9. Len(run') >= 2 /\ run'[1] = ApplyAll /\ run'[2] = MakesProjects
    BY <1>1, <1>2, <2>8
  <2>10. FirstApply' /\ LaneProved'
    BY <1>1, <2>9 DEF FirstApply, LaneProved
  <2> QED
    BY <2>4, <2>5, <2>7, <2>10 DEF InOrder, Owes
<1>4. CASE file # None
  <2>1. m = file /\ MayOpen(m, p)
    BY <1>4
  <2>2. Owned' /\ Sturdy'
    BY <1>4, <2>1 DEF RemovalInv, Owned, Tracked, LaneIsRecorded, RoleKnown, NotYet,
                      CanaryLate, OnlyBoutsLeft, Sturdy
  <2>3. FirstApply'
    <3> SUFFICES ASSUME m.status = "provisioning"
                 PROVE  Len(run') >= 2 /\ run'[1] = ApplyAll /\ run'[2] = MakesProjects
      BY DEF FirstApply
    <3>1. p = <<ApplyAll, MakesProjects>> /\ Len(p) = 2 /\ p[1] = ApplyAll
          /\ p[2] = MakesProjects
      OBVIOUS
    <3> QED
      BY <1>1, <1>2, <3>1
  <2>4. LaneProved'
    BY <1>1 DEF LaneProved
  <2>5. WholeApply'
    <3> SUFFICES ASSUME NEW i \in 1..Len(run'), run'[i] = ApplyAll
                 PROVE  \/ i = 1 /\ ("proxy" \notin cloud \/ LaneStopped(file) \/ Meanwhile)
                        \/ i = 2 /\ run'[1] = Baseline
      BY <2>1 DEF WholeApply
    <3>1. i <= Len(p) /\ p[i] = ApplyAll /\ i \in Nat /\ i >= 1
      BY <1>1
    <3>2. CASE p = <<>>
      <4>1. Len(p) = 0
        BY <3>2
      <4> QED
        BY <3>1, <4>1
    <3>3. CASE p = <<ApplyAll>>
      <4>1. Len(p) = 1
        BY <3>3
      <4>2. LaneStopped(file)
        BY <2>1, <3>3 DEF MayOpen
      <4> QED
        BY <3>1, <4>1, <4>2
    <3>4. CASE p = <<Baseline, ApplyAll>>
      <4>1. Len(p) = 2 /\ p[1] = Baseline
        BY <3>4
      <4>2. run'[1] = Baseline
        BY <1>1, <4>1
      <4>3. i = 2
        BY <3>1, <4>1, StepNames
      <4> QED
        BY <4>2, <4>3
    <3>5. CASE p = <<ApplyAll, MakesProjects>>
      <4>1. Len(p) = 2 /\ p[2] = MakesProjects
        BY <3>5
      <4>2. i = 1
        BY <3>1, <4>1, StepNames
      <4>3. file.status = "provisioning"
        BY <2>1, <3>5 DEF MayOpen
      <4> QED
        BY <4>2, <4>3 DEF RemovalInv, ProxyStands
    <3> QED
      BY <1>2, <3>2, <3>3, <3>4, <3>5 DEF Opening
  <2>6. ProxyStands'
    <3> SUFFICES ASSUME "proxy" \in cloud, ~ Meanwhile, "fleet" \notin state,
                        LaneStopped(file)
                 PROVE  At("apply", "all")'
      BY <2>1 DEF RemovalInv, ProxyStands
    <3>1. p = <<ApplyAll>>
      BY <2>1 DEF MayOpen
    <3>2. Len(p) = 1 /\ p[1] = ApplyAll
      BY <3>1
    <3>3. run'[1] = ApplyAll /\ Len(run') >= 1
      BY <1>1, <1>2, <3>2
    <3>4. run' # <<>>
      BY <3>3
    <3> QED
      BY <3>3, <3>4 DEF At, ApplyAll
  <2> QED
    BY <2>2, <2>3, <2>4, <2>5, <2>6 DEF InOrder, Owes
<1> QED
  BY <1>3, <1>4

LEMMA StartsKeep ==
  ASSUME RemovalInv, StartProvision \/ StartSetup \/ StartResume
  PROVE  Owned' /\ InOrder' /\ Sturdy' /\ ProxyStands' /\ Owes'
<1>0. ASSUME NEW r, NEW p, Opens(r, p), run' = r \o Lanes PROVE ~ Cleaning'
  <2>1. run' \in Seq(SetupStep)
    <3>1. PICK w : w = r \o Lanes
      OBVIOUS
    <3> QED
      BY <1>0, <3>1, SetupRun DEF SetsUp
  <2>2. run' # <<>> => run'[Len(run')] \in SetupStep
    BY <2>1
  <2> QED
    BY <2>2, StepVerbs DEF Cleaning, Unlinks
<1>1. CASE StartProvision
  <2>1. Fresh \in Manifest /\ Fresh.status = "provisioning"
    BY Manifests DEF Fresh
  <2>2. Opens(ResumeSteps(Fresh), <<ApplyAll, MakesProjects>>)
    BY <2>1, ResumeOpens
  <2>3. /\ Idle /\ run' = ResumeSteps(Fresh) \o Lanes /\ file' = Fresh /\ file = None
        /\ intent = "install" /\ intent' = intent /\ proved' = proved
        /\ UNCHANGED <<state, cloud>>
    BY <1>1 DEF StartProvision, Starts, operator
  <2>4. ~ Cleaning'
    BY <1>0, <2>2, <2>3
  <2>5. PICK r, p : /\ r = ResumeSteps(Fresh) /\ p = <<ApplyAll, MakesProjects>>
    OBVIOUS
  <2> QED
    BY <2>1, <2>2, <2>3, <2>4, <2>5, BeginsSetup
<1>2. ASSUME StartSetup \/ StartResume
      PROVE  /\ file \in Manifest /\ file # None /\ Idle /\ file' = file
             /\ intent' = intent /\ proved' = proved /\ UNCHANGED <<state, cloud>>
             /\ \E r, p : Opens(r, p) /\ MayOpen(file, p) /\ run' = r \o Lanes
  <2>1. /\ file \in Manifest /\ file # None /\ Idle /\ file' = file
        /\ intent' = intent /\ proved' = proved /\ UNCHANGED <<state, cloud>>
    BY <1>2 DEF StartSetup, StartResume, MayGoOn, RemovalInv, Typed, InstallTypeOK
  <2>2. CASE StartSetup
    BY <2>1, <2>2, SetupOpens DEF StartSetup, Starts
  <2>3. CASE StartResume
    BY <2>1, <2>3, ResumeRun DEF StartResume, Starts
  <2> QED
    BY <1>2, <2>1, <2>2, <2>3
<1>3. CASE StartSetup \/ StartResume
  <2>1. PICK r, p : Opens(r, p) /\ MayOpen(file, p) /\ run' = r \o Lanes
    BY <1>2, <1>3
  <2>2. ~ Cleaning'
    BY <1>0, <2>1
  <2>3. file.status = "provisioning" => p = <<ApplyAll, MakesProjects>>
    BY <2>1 DEF MayOpen
  <2> QED
    BY <1>2, <1>3, <2>1, <2>2, <2>3, BeginsSetup
<1> QED
  BY <1>1, <1>3

(* With a proxy about, what Terraform holds is complete, lanes that did not *)
(* finish aside, and a cleanup that begins looks at the baseline.           *)
LEMMA ProxyIsSeen ==
  ASSUME RemovalInv, StartCleanup, run' # run, "proxy" \in cloud, ~ Meanwhile
  PROVE  CompleteForCleanup(file, state) /\ "fleet" \in state
<1>1. file \in Manifest /\ file # None /\ Idle
  BY DEF StartCleanup, RemovalInv, Typed, InstallTypeOK
<1>2. /\ file.status # "provisioning"
      /\ "fleet" \in state \/ LaneStopped(file)
  BY DEF RemovalInv, ProxyStands
<1>3. /\ \A l \in file.enabled : file.lane[l] = "sealed" => l \in state
      /\ {"guard", "role"} \subseteq state
  BY <1>1, <1>2 DEF RemovalInv, Sturdy
<1>4. file.enabled \subseteq Lane /\ state \subseteq Address /\ state \cap Lane \subseteq file.enabled
  BY <1>1 DEF RemovalInv, Owned, LaneIsRecorded, Typed, InstallTypeOK, Manifest
<1>5. Base = {"fleet", "guard", "role"} /\ Address = Base \cup Lane
  BY DEF Base, Address
<1>6. "fleet" \in state => CompleteForCleanup(file, state)
  <2> SUFFICES ASSUME "fleet" \in state PROVE CompleteForCleanup(file, state)
    OBVIOUS
  <2>1. Base \subseteq state /\ state \subseteq Expected(file)
    BY <1>3, <1>4, <1>5 DEF Expected
  <2>2. Expected(file) \ Unfinished(file) \subseteq state
    BY <1>3, <2>1 DEF Expected, Unfinished
  <2> QED
    BY <2>1, <2>2 DEF CompleteForCleanup
<1>7. state = {} \/ CompleteForCleanup(file, state) \/ PartialIsOurs(file)
  BY DEF StartCleanup
<1>8. LaneStopped(file) => ~ PartialIsOurs(file)
  BY DEF LaneStopped, PartialIsOurs, Ready6, Ready5
<1>9. CompleteForCleanup(file, state)
  BY <1>2, <1>3, <1>6, <1>7, <1>8
<1>10. "fleet" \in Expected(file) \ Unfinished(file)
  BY <1>4, <1>5 DEF Expected, Unfinished, Lane
<1> QED
  BY <1>9, <1>10 DEF CompleteForCleanup

LEMMA StartCleanupKeeps ==
  ASSUME RemovalInv, StartCleanup, Typed'
  PROVE  Owned' /\ InOrder' /\ Sturdy' /\ ProxyStands' /\ Owes'
<1>1. /\ file \in Manifest /\ file # None /\ Idle /\ intent = "remove" /\ ~ Cleaning
      /\ intent' = intent /\ proved' = proved /\ state' = state /\ cloud' = cloud
      /\ "clone" \notin cloud
  BY DEF StartCleanup, RemovalInv, Typed, InstallTypeOK, Idle, Cleaning
<1>2. CASE file' = file /\ run' = run
  BY <1>1, <1>2 DEF RemovalInv, Owned, Tracked, LaneIsRecorded, RoleKnown, NotYet, CanaryLate,
                    OnlyBoutsLeft, InOrder, FirstApply, LaneProved, WholeApply, Cleaning,
                    Sturdy, ProxyStands, Idle, At, Owes
<1>3. CASE ~ (file' = file /\ run' = run)
  <2>0. PICK complete \in BOOLEAN, forced \in BOOLEAN :
          /\ complete = CompleteForCleanup(file, state)
          /\ file' = [file EXCEPT !.role = @ \/ complete]
          /\ run' = CleanupSteps([file EXCEPT !.role = @ \/ complete], complete, forced)
    BY <1>3 DEF StartCleanup, CompleteForCleanup
  <2>1. PICK known \in Manifest :
          /\ complete = CompleteForCleanup(file, state)
          /\ known = [file EXCEPT !.role = @ \/ complete]
          /\ file' = known /\ run' = CleanupSteps(known, complete, forced)
    <3>1. [file EXCEPT !.role = @ \/ complete] \in Manifest
      BY <1>1, Manifests
    <3> QED
      BY <2>0, <3>1
  <2>2. /\ known \in Manifest /\ known.role = (file.role \/ complete)
        /\ known.enabled = file.enabled /\ known.lane = file.lane
        /\ known.status = file.status /\ file' # None
    BY <1>1, <2>1, NoFileAssumption DEF Manifest
  <2>3. /\ run' # <<>> /\ run'[Len(run')] = Unlinks
        /\ Ordered(run')
        /\ \A x \in {"app", "round4", "projects"} : Has(run', <<"delete", x>>)
        /\ Has(run', <<"destroy", "state">>)
        /\ complete => Has(run', Baseline)
        /\ known.role => Has(run', <<"delete", "role">>)
        /\ Has(run', <<"forget", "role">>) => known.role
    <3>1. CleansUp(run', known, complete)
      BY <2>1, CleanRun
    <3> QED
      BY <3>1 DEF CleansUp
  <2>4. Cleaning'
    BY <2>3 DEF Cleaning, Unlinks
  <2>5. InOrder'
    BY <2>4, CleaningOrderNext
  <2>6. run' # run
    BY <1>1, <2>3 DEF Idle
  <2>7. "proxy" \in cloud /\ ~ Meanwhile => complete /\ "fleet" \in state
    BY <2>1, <2>6, ProxyIsSeen
  <2>8. Owned'
    BY <1>1, <2>1, <2>2 DEF RemovalInv, Owned, Tracked, LaneIsRecorded, RoleKnown, NotYet,
                            CanaryLate, OnlyBoutsLeft
  <2>9. Sturdy'
    BY <1>1, <2>1, <2>2 DEF RemovalInv, Sturdy
  <2>10. ProxyStands'
    BY <1>1, <2>1, <2>2, <2>7 DEF RemovalInv, ProxyStands
  <2>11. "role" \in cloud => \/ Has(run', <<"delete", "role">>)
                             \/ /\ "role" \in state /\ Has(run', <<"destroy", "state">>)
                                /\ ~ Has(run', <<"forget", "role">>)
    <3>1. "role" \in cloud => "role" \in state \/ file.role
      BY <1>1 DEF RemovalInv, Owned, RoleKnown
    <3> QED
      BY <2>2, <2>3, <3>1
  <2>12. Owes'
    BY <1>1, <2>1, <2>3, <2>7, <2>11 DEF Owes, Left
  <2> QED
    BY <2>5, <2>8, <2>9, <2>10, <2>12
<1> QED
  BY <1>2, <1>3

(* What the app makes, beside a command or not.                             *)
LEMMA AppKeeps ==
  ASSUME RemovalInv, Asked, App \/ Decide \/ ProvisionFails \/ UNCHANGED vars
  PROVE  Owned' /\ InOrder' /\ Sturdy' /\ ProxyStands' /\ Owes'
<1>1. /\ file' = file /\ state' = state /\ run' = run /\ proved' = proved
  BY DEF App, Creation, CreateApp, AppAppears, AppAnswered, AppUnanswered, Adjudicate,
         ProvisionFails, BoutMakes, BoutCleans, Decide, vars
<1>2. CASE Creation
  <2>1. intent' = intent /\ cloud' \in {cloud, cloud \cup {"app"}, cloud \ {"app"}}
    BY <1>2 DEF Creation, CreateApp, AppAppears, AppAnswered, AppUnanswered, Adjudicate,
                operator
  <2>2. /\ Cleaning' <=> Cleaning
        /\ \A s : Left(s)' <=> Left(s)
        /\ Ordered(run)' <=> Ordered(run)
    BY <1>1 DEF Cleaning, Left
  <2>3. /\ Tracked'
        /\ \A x : x # "app" => (x \in cloud' <=> x \in cloud)
    <3>1. \A x : x # "app" => (x \in cloud' <=> x \in cloud)
      BY <2>1
    <3>2. "app" \notin Held
      BY DEF Held, Lane
    <3> QED
      BY <1>1, <3>1, <3>2 DEF RemovalInv, Owned, Tracked
  <2>4. intent = "remove" /\ Settled => Settled'
    BY <1>2 DEF Settled, Creation, CreateApp, AppAppears, AppAnswered, AppUnanswered,
                Adjudicate, Asked, Unresolved
  <2>5. Owned'
    BY <1>1, <2>1, <2>3, <2>4 DEF RemovalInv, Owned, LaneIsRecorded, RoleKnown, NotYet,
                                  CanaryLate, OnlyBoutsLeft
  <2>6. InOrder'
    BY <1>1, <2>2, <2>3 DEF RemovalInv, InOrder, FirstApply, LaneProved, WholeApply
  <2>7. Cleaning => intent = "remove"
    BY DEF RemovalInv, Typed, Shape
  <2>8. Owes'
    BY <1>1, <2>2, <2>3, <2>4, <2>7 DEF RemovalInv, Owes
  <2>9. Sturdy' /\ ProxyStands'
    BY <1>1, <2>1, <2>3 DEF RemovalInv, Sturdy, ProxyStands, Idle, At
  <2> QED
    BY <2>5, <2>6, <2>8, <2>9
<1>3. ASSUME NEW thing \in {"clone", "proxy"}, BoutMakes(thing)
      PROVE  Owned' /\ InOrder' /\ Sturdy' /\ ProxyStands' /\ Owes'
  <2>1. /\ "fleet" \in cloud /\ proved.canary /\ (Meanwhile \/ (Idle /\ intent = "install"))
        /\ cloud' = cloud \cup {thing} /\ intent' = intent
    BY <1>3 DEF BoutMakes, operator
  <2>2. file # None /\ file.status # "provisioning" /\ "fleet" \in state
    <3>1. /\ "fleet" \in cloud \cap Billed /\ "fleet" \in Held
          /\ "fleet" \notin {"clone", "proxy", "app"}
      BY <2>1 DEF Held, Billed
    <3>2. file # None
      BY <3>1 DEF RemovalInv, Owned, OnlyBoutsLeft
    <3>3. file.status # "provisioning"
      BY <2>1, <3>2 DEF RemovalInv, Owned, CanaryLate
    <3>4. "fleet" \in state
      BY <3>1 DEF RemovalInv, Owned, Tracked
    <3> QED
      BY <3>2, <3>3, <3>4
  <2>3. \A s : Left(s)' <=> Left(s)
    BY <1>1 DEF Left
  <2>4. Tracked'
    BY <1>1, <2>1, Sets DEF RemovalInv, Owned, Tracked
  <2>5. Owned'
    BY <1>1, <2>1, <2>2, <2>4 DEF RemovalInv, Owned, LaneIsRecorded, RoleKnown, NotYet,
                                  CanaryLate, OnlyBoutsLeft
  <2>6. (Cleaning' <=> Cleaning) /\ (Ordered(run)' <=> Ordered(run))
    BY <1>1 DEF Cleaning
  <2>7. FirstApply' /\ LaneProved'
    BY <1>1, <2>6 DEF RemovalInv, InOrder, FirstApply, LaneProved
  <2>8. WholeApply'
    <3>1. CASE Meanwhile
      BY <1>1, <3>1 DEF RemovalInv, InOrder, WholeApply
    <3>2. CASE Idle
      BY <1>1, <3>2 DEF WholeApply, Idle
    <3> QED
      BY <2>1, <3>1, <3>2
  <2>9. Owes'
    <3>0. Settled => Settled'
      BY <1>3 DEF BoutMakes, Settled
    <3>1. CASE Meanwhile
      BY <1>1, <2>1, <2>3, <2>6, <3>0, <3>1 DEF RemovalInv, Owes
    <3>2. CASE Idle
      BY <1>1, <3>2 DEF Owes, Cleaning, Idle
    <3> QED
      BY <2>1, <3>1, <3>2
  <2>10. Sturdy' /\ ProxyStands'
    BY <1>1, <2>1, <2>2 DEF RemovalInv, Sturdy, ProxyStands
  <2> QED
    BY <2>5, <2>7, <2>8, <2>9, <2>10 DEF InOrder
<1>4. ASSUME NEW gone \in SUBSET {"clone", "proxy"}, cloud' = cloud \ gone, app' = app,
             intent' = intent \/ (intent' = "remove" /\ file # None)
      PROVE  Owned' /\ InOrder' /\ Sturdy' /\ ProxyStands' /\ Owes'
  <2>1. Cleaning' <=> Cleaning
    BY <1>1 DEF Cleaning
  <2>2. \A s : Left(s)' <=> Left(s)
    BY <1>1 DEF Left
  <2>3. Tracked'
    BY <1>1, <1>4, Sets DEF RemovalInv, Owned, Tracked
  <2>4. Owned'
    BY <1>1, <1>4, <2>3 DEF RemovalInv, Owned, LaneIsRecorded, RoleKnown, NotYet, CanaryLate,
                            OnlyBoutsLeft, Settled
  <2>5. FirstApply' /\ LaneProved'
    BY <1>1, <2>1 DEF RemovalInv, InOrder, FirstApply, LaneProved
  <2>6. WholeApply'
    BY <1>1, <1>4 DEF RemovalInv, InOrder, WholeApply
  <2>7. Sturdy'
    BY <1>1, <1>4 DEF RemovalInv, Sturdy
  <2>8. ProxyStands'
    BY <1>1, <1>4 DEF RemovalInv, ProxyStands, Idle, At
  <2>9. Ordered(run)' <=> Ordered(run)
    BY <1>1
  <2>10. Settled => Settled'
    BY <1>4 DEF Settled
  <2>11. Owes'
    BY <1>1, <1>4, <2>1, <2>2, <2>9, <2>10 DEF RemovalInv, Owes
  <2> QED
    BY <2>4, <2>5, <2>6, <2>7, <2>8, <2>11 DEF InOrder
<1>5. ASSUME NEW thing \in {"clone", "proxy"}, BoutCleans(thing)
      PROVE  Owned' /\ InOrder' /\ Sturdy' /\ ProxyStands' /\ Owes'
  <2>1. cloud' = cloud \ {thing} /\ intent' = intent /\ app' = app
    BY <1>5 DEF BoutCleans, operator
  <2> QED
    BY <1>4, <2>1
<1>6. CASE Decide \/ ProvisionFails \/ UNCHANGED vars
  <2>1. /\ cloud' = cloud \ {} /\ app' = app
        /\ intent' = intent \/ (intent' = "remove" /\ file # None)
    BY <1>6 DEF Decide, ProvisionFails, vars, operator
  <2> QED
    BY <1>4, <2>1
<1> QED
  BY <1>2, <1>3, <1>5, <1>6 DEF App

LEMMA RemovalStep ==
  ASSUME RemovalInv, Asked, [Next]_vars PROVE RemovalInv'
<1>1. Typed'
  BY TypedStep DEF RemovalInv
<1>2. CASE Setup
  <2>1. ASSUME NEW scope \in Scope, ApplyOne(scope) \/ Applied(scope)
        PROVE  Owned' /\ InOrder' /\ Sturdy' /\ ProxyStands' /\ Owes'
    BY <2>1, ApplyOneKeeps, AppliedKeeps
  <2>2. CASE UnlessReady
    BY <1>1, <2>2, UnlessReadyKeeps DEF RemovalInv
  <2>3. CASE Unsupported
    BY <1>1, <2>3, AccidentKeeps DEF RemovalInv
  <2>4. CASE \/ MakeProjects \/ Seed \/ WaitForZero \/ Make4 \/ Seal4At \/ Begin5 \/ Rotate5
             \/ Check5 \/ Begin6 \/ Make6 \/ Seal6 \/ Wipe
             \/ \E l \in Lane : RecordLane(l) \/ SealLane(l)
    <3>1. SetupGoes
      BY <2>4, SetupStepGoes
    <3> QED
      BY <1>1, <3>1, SetupGoesOn DEF RemovalInv
  <2> QED
    BY <1>1, <1>2, <2>1, <2>2, <2>3, <2>4 DEF Setup, RemovalInv
<1>3. CASE Cleanup
  BY <1>1, <1>3, CleanupKeeps DEF RemovalInv
<1>4. CASE StartProvision \/ StartSetup \/ StartResume
  BY <1>1, <1>4, StartsKeep DEF RemovalInv
<1>5. CASE StartCleanup
  BY <1>1, <1>5, StartCleanupKeeps DEF RemovalInv
<1>6. CASE App \/ Decide \/ ProvisionFails \/ UNCHANGED vars
  BY <1>1, <1>6, AppKeeps DEF RemovalInv
<1>7. CASE Refuses \/ Fails \/ Killed
  BY <1>1, <1>7, AccidentKeeps DEF RemovalInv
<1> QED
  BY <1>2, <1>3, <1>4, <1>5, <1>6, <1>7 DEF Next, Operator

(* No command changes what is on record of the app, and none makes one.     *)
LEMMA OnlyCreationMakesApps ==
  ASSUME [Next]_vars, ~ Creation
  PROVE  app' = app /\ ("app" \in cloud' => "app" \in cloud)
<1>1. CASE \E scope \in Scope : ApplyOne(scope) \/ Applied(scope)
  BY <1>1 DEF ApplyOne, Applied, Flip, Changes, Address, Base, Lane
<1>2. CASE Setup /\ ~ (\E scope \in Scope : ApplyOne(scope) \/ Applied(scope))
  BY <1>2 DEF Setup, Saves, MakeProjects, Seed, WaitForZero, Make4, Seal4At, UnlessReady,
              Expands, Begin5, Rotate5, Check5, Begin6, Make6, Seal6, RecordLane, SealLane,
              Unsupported, Wipe
<1>3. CASE Cleanup
  BY <1>3 DEF Cleanup, CleanBaseline, Verify6, WriteReceipt, Forget, Delete, DestroyOne,
              Destroyed, Unlink
<1>4. CASE Operator
  BY <1>4 DEF Operator, StartProvision, ProvisionFails, StartSetup, StartResume, Decide,
              StartCleanup
<1>5. CASE App
  BY <1>5 DEF App, BoutMakes, BoutCleans
<1>6. CASE Refuses \/ Fails \/ Killed \/ UNCHANGED vars
  BY <1>6 DEF Refuses, Fails, Killed, vars
<1> QED
  BY <1>1, <1>2, <1>3, <1>4, <1>5, <1>6 DEF Next

(* And but for the operator, who does not while an app is asked for, nobody *)
(* gives an installation up.                                               *)
LEMMA OnlyDecideRemoves ==
  ASSUME [Next]_vars, ~ Decide
  PROVE  intent' = intent
<1> USE DEF operator
<1>1. CASE Setup
  BY <1>1 DEF Setup, ApplyOne, Applied, Saves, MakeProjects, Seed, WaitForZero, Make4, Seal4At,
              UnlessReady, Expands, Begin5, Rotate5, Check5, Begin6, Make6, Seal6, RecordLane,
              SealLane, Unsupported, Wipe
<1>2. CASE Cleanup
  BY <1>2 DEF Cleanup, CleanBaseline, Verify6, WriteReceipt, Forget, Delete, DestroyOne,
              Destroyed, Unlink
<1>3. CASE Operator
  BY <1>3 DEF Operator, StartProvision, ProvisionFails, StartSetup, StartResume, StartCleanup
<1>4. CASE App
  BY <1>4 DEF App, Creation, CreateApp, AppAppears, AppAnswered, AppUnanswered, Adjudicate,
              BoutMakes, BoutCleans
<1>5. CASE Refuses \/ Fails \/ Killed \/ UNCHANGED vars
  BY <1>5 DEF Refuses, Fails, Killed, vars
<1> QED
  BY <1>1, <1>2, <1>3, <1>4, <1>5 DEF Next

LEMMA AskedStep ==
  ASSUME Asked, [Next]_vars PROVE Asked'
<1>1. CASE Creation
  BY <1>1 DEF Asked, Creation, CreateApp, AppAppears, AppAnswered, AppUnanswered, Adjudicate,
              operator
<1>2. CASE ~ Creation
  BY <1>2, OnlyCreationMakesApps, OnlyDecideRemoves DEF Asked, Decide
<1> QED
  BY <1>1, <1>2

LEMMA RemovalInvariant == Spec => [](RemovalInv /\ Asked)
<1>1. Init => Asked
  BY DEF Init, Asked
<1>2. RemovalInv /\ Asked /\ [Next]_vars => RemovalInv' /\ Asked'
  BY RemovalStep, AskedStep
<1> QED
  BY <1>1, <1>2, InitRemoval, PTL DEF Spec

(* When a cleanup has taken the manifest away nothing is left that bills,   *)
(* but for an app no record calls this installation's, wherever the install *)
(* or the app's creation stopped, at whatever step a cleanup was killed, and *)
(* however often it was retried, if no bout begins beside a command or once  *)
(* the installation is to be removed.                                      *)
THEOREM NothingBillsAfterRemoval ==
  ASSUME Meanwhile = FALSE PROVE Spec => []NothingBillsAfter
<1>1. RemovalInv => NothingBillsAfter
  BY DEF RemovalInv, Owned, OnlyBoutsLeft, Settled, NothingBillsAfter, Removed, NotOurs
<1> QED
  BY <1>1, RemovalInvariant, PTL

(* And if bouts do, nothing that setup made or an apply built: only what a  *)
(* bout made, and an app that is not on record as ours.                     *)
OnlyBoutsOutlive == Removed => cloud \cap Billed \subseteq {"clone", "proxy"} \cup NotOurs

THEOREM OnlyBoutsOutliveIt == Spec => []OnlyBoutsOutlive
<1>1. RemovalInv => OnlyBoutsOutlive
  BY DEF RemovalInv, Owned, OnlyBoutsLeft, Settled, OnlyBoutsOutlive, Removed, NotOurs
<1> QED
  BY <1>1, RemovalInvariant, PTL

-----------------------------------------------------------------------------
(* The lanes, whatever the bouts do.                                       *)

LaneInv == LaneIsRecorded /\ (file = None /\ intent = "install" => state = {})

LEMMA LaneStays ==
  ASSUME Typed, LaneInv, [Next]_vars PROVE LaneInv'
<1>1. CASE \E scope \in Scope : ApplyOne(scope)
  <2>1. PICK scope \in Scope, a \in Changes : At("apply", scope) /\ state' = Flip(state, {a})
    BY <1>1 DEF ApplyOne
  <2>2. file # None /\ file' = file
    BY <1>1, <2>1, InHand DEF ApplyOne
  <2>3. ASSUME NEW l \in state' \cap Lane PROVE l \in file.enabled
    <3>1. CASE l \in state
      BY <2>2, <2>3, <3>1 DEF LaneInv, LaneIsRecorded
    <3>2. CASE l \notin state
      <4>1. l = a /\ a \in Expected(file)
        BY <2>1, <2>3, <3>2 DEF Flip, Changes
      <4> QED
        BY <2>3, <4>1 DEF Expected, Base, Lane
    <3> QED
      BY <3>1, <3>2
  <2> QED
    BY <2>2, <2>3 DEF LaneInv, LaneIsRecorded
<1>2. ASSUME state' \subseteq state, file # None, file' \in Manifest,
             file.enabled \subseteq file'.enabled
      PROVE  LaneInv'
  BY <1>2, NoFileAssumption DEF LaneInv, LaneIsRecorded
<1>3. ASSUME state' \subseteq state, file' = file, intent' = "install" => intent = "install"
      PROVE  LaneInv'
  BY <1>3 DEF LaneInv, LaneIsRecorded
<1>4. ASSUME NEW v, NEW x, At(v, x) PROVE file # None /\ file \in Manifest
  BY <1>4, InHand
<1>5. CASE Setup
  <2>1. CASE \E scope \in Scope : ApplyOne(scope)
    BY <1>1, <2>1
  <2>2. CASE \E scope \in Scope : Applied(scope)
    <3>1. file # None /\ file \in Manifest /\ state' = state
      BY <1>4, <2>2 DEF Applied
    <3>2. file' \in {file, [file EXCEPT !.role = TRUE]}
      BY <2>2 DEF Applied
    <3>3. file' \in Manifest
      BY <3>1, <3>2, Manifests
    <3>4. file'.enabled = file.enabled
      BY <3>1, <3>2 DEF Manifest
    <3> QED
      BY <1>2, <3>1, <3>3, <3>4
  <2>3. CASE UnlessReady
    BY <1>3, <2>3 DEF UnlessReady, Expands, operator
  <2>4. CASE MakeProjects \/ Seed \/ WaitForZero \/ Make4 \/ Begin5 \/ Begin6 \/ Make6 \/ Wipe
    <3>1. file # None /\ file \in Manifest /\ state' = state
      BY <1>4, <2>4 DEF MakeProjects, Seed, WaitForZero, Make4, Begin5, Begin6, Make6, Wipe, Saves
    <3>2. PICK s \in Status : file' \in {file, [file EXCEPT !.status = s]}
      BY <2>4 DEF MakeProjects, Seed, WaitForZero, Make4, Begin5, Begin6, Make6, Wipe, Saves,
                  Status
    <3>3. file' \in Manifest /\ file'.enabled = file.enabled
      BY <3>1, <3>2 DEF Manifest
    <3> QED
      BY <1>2, <3>1, <3>3
  <2>5. CASE Rotate5 \/ Check5 \/ Seal6
    <3>1. file # None /\ file \in Manifest /\ state' = state
      BY <1>4, <2>5 DEF Rotate5, Check5, Seal6, Saves
    <3>2. file' \in Manifest
      BY <2>5, <3>1, Manifests DEF Rotate5, Check5, Seal6, Saves
    <3>3. file'.enabled = file.enabled
      BY <2>5, <3>1 DEF Rotate5, Check5, Seal6, Saves, Manifest
    <3> QED
      BY <1>2, <3>1, <3>2, <3>3
  <2>6. CASE Seal4At
    <3>1. file # None /\ file \in Manifest /\ state' = state
      BY <1>4, <2>6 DEF Seal4At, Saves
    <3>2. PICK seal \in Seal4 :
            file' = [CommitReseal4(file, seal) EXCEPT !.status = "waiting_for_zero"]
      BY <2>6 DEF Seal4At, Saves
    <3>3. PICK c \in Manifest : c = CommitReseal4(file, seal)
      BY <3>1, Manifests
    <3>4. c.enabled = file.enabled
      BY <3>1, <3>3 DEF CommitReseal4, Manifest
    <3>5. file' \in Manifest /\ file'.enabled = file.enabled
      BY <3>2, <3>3, <3>4 DEF Manifest, Status
    <3> QED
      BY <1>2, <3>1, <3>5
  <2>7. ASSUME NEW l \in Lane, RecordLane(l) \/ SealLane(l) PROVE LaneInv'
    <3>1. file # None /\ file \in Manifest /\ state' = state
      BY <1>4, <2>7 DEF RecordLane, SealLane, Saves
    <3>2. file' \in Manifest
      BY <2>7, <3>1, Manifests DEF RecordLane, SealLane, Saves
    <3>3. file.enabled \subseteq file'.enabled
      <4>1. \/ file' = file \/ file' = Enable(file, l)
            \/ file' = [file EXCEPT !.lane[l] = "sealed"]
        BY <2>7 DEF RecordLane, SealLane, Saves
      <4>2. Enable(file, l).enabled = file.enabled \cup {l}
        BY <3>1 DEF Enable, Manifest
      <4>3. [file EXCEPT !.lane[l] = "sealed"].enabled = file.enabled
        BY <3>1 DEF Manifest
      <4> QED
        BY <4>1, <4>2, <4>3
    <3> QED
      BY <1>2, <3>1, <3>2, <3>3
  <2>8. CASE Unsupported
    <3>1. file # None /\ file \in Manifest /\ state' = state
      BY <1>4, <2>8 DEF Unsupported
    <3>2. file' \in Manifest /\ file'.enabled = file.enabled
      BY <2>8, <3>1 DEF Unsupported, Manifest
    <3> QED
      BY <1>2, <3>1, <3>2
  <2> QED
    BY <1>5, <2>1, <2>2, <2>3, <2>4, <2>5, <2>6, <2>7, <2>8 DEF Setup
<1>6. CASE Unlink
  <2>1. At("unlink", "file") /\ "unlink" \notin SetupVerb
    BY <1>6 DEF Unlink, SetupVerb
  <2>2. intent = "remove"
    BY <2>1, InHand DEF Typed, Shape
  <2> QED
    BY <1>6, <2>2 DEF Unlink, operator, LaneInv, LaneIsRecorded
<1>7. CASE Cleanup /\ ~ Unlink
  <2>1. state' \subseteq state /\ file' = file /\ intent' = intent
    BY <1>7 DEF Cleanup, CleanBaseline, Verify6, WriteReceipt, Forget, Delete, DestroyOne,
                Destroyed, operator
  <2> QED
    BY <1>3, <2>1
<1>8. CASE StartProvision
  BY <1>8 DEF StartProvision, LaneInv, LaneIsRecorded
<1>9. CASE StartSetup \/ StartResume \/ ProvisionFails \/ Decide \/ App \/ Killed \/ UNCHANGED vars
  <2>1. state' = state /\ file' = file /\ (intent' = "install" => intent = "install")
    BY <1>9 DEF StartSetup, StartResume, Decide, App, Creation, CreateApp, AppAppears,
                AppAnswered, AppUnanswered, Adjudicate, ProvisionFails, BoutMakes, BoutCleans,
                Killed, vars, operator
  <2> QED
    BY <1>3, <2>1
<1>10. CASE StartCleanup
  <2>1. file # None /\ file \in Manifest /\ state' = state /\ intent' = intent
    BY <1>10 DEF StartCleanup, Typed, InstallTypeOK
  <2>2. PICK b \in BOOLEAN : file' = file \/ file' = [file EXCEPT !.role = @ \/ b]
    BY <1>10 DEF StartCleanup, CompleteForCleanup
  <2>3. file' \in Manifest /\ file'.enabled = file.enabled
    BY <2>1, <2>2 DEF Manifest
  <2> QED
    BY <1>2, <2>1, <2>3
<1>11. CASE Refuses \/ Fails
  <2>1. file # None /\ file \in Manifest /\ state' \subseteq state
    BY <1>11 DEF Refuses, Fails, Refused, At, Idle, Typed, InstallTypeOK
  <2>2. file' \in {file, [file EXCEPT !.status = "cleanup_failed"]}
    BY <1>11 DEF Refuses, Fails, Raises
  <2>3. file' \in Manifest /\ file'.enabled = file.enabled
    BY <2>1, <2>2 DEF Manifest, Status
  <2> QED
    BY <1>2, <2>1, <2>3
<1> QED
  BY <1>5, <1>6, <1>7, <1>8, <1>9, <1>10, <1>11 DEF Next, Operator

(* A lane Terraform holds any of is one the manifest enables: wherever its  *)
(* stage stopped, no later plan takes the lane down.                        *)
THEOREM LaneIsAlwaysRecorded == Spec => []LaneIsRecorded
<1>1. Init => LaneInv
  BY DEF Init, LaneInv, LaneIsRecorded
<1>2. Typed /\ LaneInv /\ [Next]_vars => LaneInv'
  BY LaneStays
<1>3. LaneInv => LaneIsRecorded
  BY DEF LaneInv
<1> QED
  BY <1>1, <1>2, <1>3, TypedInvariant, PTL DEF Spec

-----------------------------------------------------------------------------
(* The lock that admits one command at a time (GenerationLock): what it     *)
(* promises, for any number of shells, commands and probes, however many of *)
(* them are killed.                                                        *)
USE RoleAssumption, NobodyAssumption

HasLock(p) == at[p] \in {"locked", "mutating", "closing", "probing"}

(* Whoever took the lock has it while its descriptor is open, and a child  *)
(* of a shell keeps its shell's alive: both have a descriptor of it.       *)
Keeps ==
  \A p \in Process :
    /\ HasLock(p) => lock = p /\ p \in fd[p]
    /\ env[p] # Nobody /\ Alive(p) => lock = env[p] /\ env[p] \in fd[p]
    /\ at[p] = "joined" => env[p] # Nobody
    /\ at[p] = "absent" => env[p] = Nobody

LockInv == LockTypeOK /\ Keeps /\ HolderOnRecord

-----------------------------------------------------------------------------
LEMMA LeavesType ==
  ASSUME LockTypeOK, NEW p \in Process, Leaves(p)
  PROVE  /\ lock' \in Process \cup {Nobody}
         /\ fd' \in [Process -> SUBSET Process]
BY DEF Leaves, LockTypeOK

(* Every step keeps the state well typed.                                  *)
LEMMA LockTypeStep ==
  LockTypeOK /\ [LockNext]_lockVars => LockTypeOK'
<1> SUFFICES ASSUME LockTypeOK, [LockNext]_lockVars PROVE LockTypeOK'
  OBVIOUS
<1> USE DEF LockTypeOK, Process, Move, Stage
<1>1. ASSUME NEW p \in Shell \cup Command, Claims(p) PROVE LockTypeOK'
  <2>1. CASE Launch(p)
    BY <1>1, <2>1 DEF Launch
  <2>2. CASE Locks(p)
    BY <1>1, <2>2 DEF Locks, Take
  <2>3. CASE FindsBusy(p)
    BY <1>1, <2>3 DEF FindsBusy
  <2>4. CASE Joins(p)
    BY <1>1, <2>4 DEF Joins, Presents
  <2>5. CASE TurnedAway(p)
    BY <1>1, <2>5, LeavesType DEF TurnedAway
  <2>6. CASE Writes(p)
    BY <1>1, <2>6 DEF Writes
  <2>7. CASE Finishes(p)
    BY <1>1, <2>7 DEF Finishes
  <2>8. CASE Closes(p)
    BY <1>1, <2>8, LeavesType DEF Closes
  <2> QED
    BY <1>1, <2>1, <2>2, <2>3, <2>4, <2>5, <2>6, <2>7, <2>8 DEF Claims
<1>2. ASSUME NEW s \in Shell, NEW c \in Command, Spawn(s, c) PROVE LockTypeOK'
  BY <1>2 DEF Spawn, Inherits
<1>3. ASSUME NEW p \in Prober, ProbesFree(p) \/ ProbesHeld(p) \/ ProbeEnds(p)
      PROVE  LockTypeOK'
  <2>1. CASE ProbesFree(p)
    BY <2>1 DEF ProbesFree, Take
  <2>2. CASE ProbesHeld(p)
    BY <2>2 DEF ProbesHeld
  <2>3. CASE ProbeEnds(p)
    BY <2>3, LeavesType DEF ProbeEnds
  <2> QED
    BY <1>3, <2>1, <2>2, <2>3
<1>4. ASSUME NEW p \in Process, Dies(p) PROVE LockTypeOK'
  BY <1>4, LeavesType DEF Dies
<1>5. CASE UNCHANGED lockVars
  BY <1>5 DEF lockVars
<1> QED
  BY <1>1, <1>2, <1>3, <1>4, <1>5 DEF LockNext

(* A process that ends takes nobody else's lock with it.                   *)
LEMMA LeavesKeeps ==
  ASSUME LockInv, NEW p \in Process, Leaves(p), at' = [at EXCEPT ![p] = "ended"],
         UNCHANGED <<record, env>>
  PROVE  Keeps' /\ HolderOnRecord'
<1>1. ASSUME NEW q \in Process, q # p
      PROVE  at'[q] = at[q] /\ fd'[q] = fd[q] /\ (lock \in fd[q] /\ lock \in Process => lock' = lock)
  BY <1>1 DEF LockInv, LockTypeOK, Leaves
<1>2. at'[p] = "ended"
  BY DEF LockInv, LockTypeOK
<1>3. HolderOnRecord'
  BY <1>1, <1>2 DEF LockInv, HolderOnRecord
<1>4. ASSUME NEW q \in Process
      PROVE  /\ HasLock(q)' => lock' = q /\ q \in fd'[q]
             /\ env'[q] # Nobody /\ Alive(q)' => lock' = env'[q] /\ env'[q] \in fd'[q]
             /\ at'[q] = "joined" => env'[q] # Nobody
             /\ at'[q] = "absent" => env'[q] = Nobody
  <2>1. CASE q = p
    BY <1>2, <2>1 DEF HasLock, Alive
  <2>2. CASE q # p
    <3>1. env[q] \in Process \cup {Nobody}
      BY DEF LockInv, LockTypeOK, Process
    <3> QED
      BY <1>1, <2>2, <3>1 DEF LockInv, Keeps, HasLock, Alive
  <2> QED
    BY <2>1, <2>2
<1> QED
  BY <1>3, <1>4 DEF Keeps

LEMMA LockInvStep ==
  LockInv /\ [LockNext]_lockVars => LockInv'
<1> SUFFICES ASSUME LockInv, [LockNext]_lockVars PROVE LockInv'
  OBVIOUS
<1>0. LockTypeOK'
  BY LockTypeStep DEF LockInv
<1> SUFFICES Keeps' /\ HolderOnRecord'
  BY <1>0 DEF LockInv
<1>1. ASSUME NEW p \in Shell \cup Command, Claims(p) PROVE Keeps' /\ HolderOnRecord'
  <2>0. p \in Process
    BY DEF Process
  <2> USE DEF LockInv, LockTypeOK, Move, HasLock, Alive
  <2>1. CASE Launch(p)
    BY <2>0, <2>1 DEF Launch, Keeps, HolderOnRecord
  <2>2. CASE Locks(p)
    BY <2>0, <2>2 DEF Locks, Take, Keeps, HolderOnRecord
  <2>3. CASE FindsBusy(p)
    BY <2>0, <2>3 DEF FindsBusy, Keeps, HolderOnRecord
  <2>4. CASE Joins(p)
    BY <2>0, <2>4 DEF Joins, Presents, Keeps, HolderOnRecord
  <2>5. CASE TurnedAway(p)
    BY <2>0, <2>5, LeavesKeeps DEF TurnedAway
  <2>6. CASE Writes(p)
    BY <2>0, <2>6 DEF Writes, Keeps, HolderOnRecord
  <2>7. CASE Finishes(p)
    BY <2>0, <2>7 DEF Finishes, Keeps, HolderOnRecord
  <2>8. CASE Closes(p)
    BY <2>0, <2>8, LeavesKeeps DEF Closes
  <2> QED
    BY <1>1, <2>1, <2>2, <2>3, <2>4, <2>5, <2>6, <2>7, <2>8 DEF Claims
<1>2. ASSUME NEW s \in Shell, NEW c \in Command, Spawn(s, c)
      PROVE  Keeps' /\ HolderOnRecord'
  <2>1. s \in Process /\ c \in Process /\ s # Nobody
    BY DEF Process
  <2>2. lock = s /\ s \in fd[s]
    BY <1>2, <2>1 DEF Spawn, LockInv, Keeps, HasLock
  <2> QED
    BY <1>2, <2>1, <2>2
       DEF LockInv, LockTypeOK, Spawn, Inherits, Move, Keeps, HasLock, Alive, HolderOnRecord
<1>3. ASSUME NEW p \in Prober, ProbesFree(p) \/ ProbesHeld(p) \/ ProbeEnds(p)
      PROVE  Keeps' /\ HolderOnRecord'
  <2>0. p \in Process
    BY DEF Process
  <2> USE DEF LockInv, LockTypeOK, Move, HasLock, Alive
  <2>1. CASE ProbesFree(p)
    BY <2>0, <2>1 DEF ProbesFree, Take, Keeps, HolderOnRecord
  <2>2. CASE ProbesHeld(p)
    BY <2>0, <2>2 DEF ProbesHeld, Keeps, HolderOnRecord
  <2>3. CASE ProbeEnds(p)
    BY <2>0, <2>3, LeavesKeeps DEF ProbeEnds
  <2> QED
    BY <1>3, <2>1, <2>2, <2>3
<1>4. ASSUME NEW p \in Process, Dies(p) PROVE Keeps' /\ HolderOnRecord'
  BY <1>4, LeavesKeeps DEF Dies, Move
<1>5. CASE UNCHANGED lockVars
  BY <1>5 DEF LockInv, lockVars, Keeps, HasLock, Alive, HolderOnRecord
<1> QED
  BY <1>1, <1>2, <1>3, <1>4, <1>5 DEF LockNext

LEMMA LockInvariant ==
  LockSpec => []LockInv
<1>1. LockInit => LockInv
  BY DEF LockInit, LockInv, LockTypeOK, Stage, Process, Keeps, HasLock, Alive, HolderOnRecord
<1> QED
  BY <1>1, LockInvStep, PTL DEF LockSpec

(* Whoever mutates has its operation's lock.                               *)
LEMMA WorkingHolds ==
  ASSUME LockInv, NEW p \in Process, Working(p)
  PROVE  lock = Operation(p) /\ lock # Nobody
<1>1. CASE at[p] = "mutating"
  <2>1. lock = p
    BY <1>1 DEF LockInv, Keeps, HasLock
  <2>2. env[p] # Nobody => lock = env[p]
    BY <1>1 DEF LockInv, Keeps, Alive
  <2> QED
    BY <2>1, <2>2 DEF Operation
<1>2. CASE at[p] = "joined"
  BY <1>2 DEF LockInv, Keeps, Alive, Operation
<1> QED
  BY <1>1, <1>2 DEF Working

-----------------------------------------------------------------------------
(* The lock, its record and its processes keep their types and roles.      *)
THEOREM LockTypeCorrect ==
  LockSpec => []LockTypeOK
BY LockInvariant, PTL DEF LockInv

(* Two mutations of one generation are never under way, whatever is killed *)
(* in between: a command whose shell was killed still excludes others.     *)
THEOREM LockExcludes ==
  LockSpec => []OneOperationMutates
<1>1. LockInv => OneOperationMutates
  BY WorkingHolds DEF OneOperationMutates
<1> QED
  BY <1>1, LockInvariant, PTL

(* The record of a holder at work is its own.                              *)
THEOREM RecordIsHolders ==
  LockSpec => []HolderOnRecord
BY LockInvariant, PTL DEF LockInv

(* A lock that a probe found free was held by nobody who mutates.          *)
THEOREM FreeIsAbandoned ==
  LockSpec => FreeMeansAbandoned
<1>1. LockInv /\ [LockNext]_lockVars =>
        [\A p \in Prober : at[p] = "absent" /\ at'[p] = "probing" =>
           \A q \in Process : ~Working(q)]_lockVars
  <2> SUFFICES ASSUME LockInv, LockNext, NEW p \in Prober,
                      at[p] = "absent", at'[p] = "probing",
                      NEW q \in Process, Working(q)
               PROVE  FALSE
    BY DEF lockVars
  <2>1. lock # Nobody
    BY WorkingHolds
  <2>2. ASSUME NEW x \in Process, NEW from, NEW to, Move(x, from, to)
        PROVE  p = x /\ to = "probing"
    BY <2>2 DEF Move, LockInv, LockTypeOK, Process
  <2>3. CASE \E x \in Shell \cup Command : Claims(x)
    BY <2>2, <2>3 DEF Claims, Launch, Locks, FindsBusy, Joins, TurnedAway, Writes, Finishes,
                      Closes, Process
  <2>4. CASE \E s \in Shell, c \in Command : Spawn(s, c)
    BY <2>2, <2>4 DEF Spawn, Process
  <2>5. CASE \E x \in Prober : ProbesFree(x) \/ ProbesHeld(x) \/ ProbeEnds(x)
    BY <2>1, <2>2, <2>5 DEF ProbesFree, Take, ProbesHeld, ProbeEnds, Process
  <2>6. CASE \E x \in Process : Dies(x)
    BY <2>2, <2>6 DEF Dies
  <2> QED
    BY <2>3, <2>4, <2>5, <2>6 DEF LockNext
<1> QED
  BY <1>1, LockInvariant, PTL DEF LockSpec, FreeMeansAbandoned
=============================================================================
