---------------------------- MODULE SpikeBoutProofs ----------------------------
(***************************************************************************)
(* Theorems of SpikeBout, for any number of processes, bouts, bells and     *)
(* faults.                                                                 *)
(***************************************************************************)
EXTENDS SpikeBout, TLAPS

LaneAt == {"idle", "setup", "burst", "valid", "bad", "invalid"}
JobAt == {"none", "staged", "released", "settled"}
Card ==
  [home : Process \cup {None},
   state : {"DRAFT", "CHECKING", "ARMED", "RUNNING", "VERIFIED", "FAILED", "TOWELLED"},
   sealed : BOOLEAN, ring : Phase, clean : Phase, held : 0..MaxBout,
   open : BOOLEAN, owed : BOOLEAN,
   run : {"none", "arm", "setup", "burst", "verdict", "readback", "failing", "stopping"},
   failing : BOOLEAN, off : {"none", "cancel", "fence"},
   work : {"none", "look", "lease", "fence", "converge", "main", "back"},
   loop : BOOLEAN, late : BOOLEAN, lost : BOOLEAN, passed : BOOLEAN]

(* A bout that never was, or whose process died, has nothing to do.         *)
Lives(r) ==
  r.home = None =>
    /\ r.state = "DRAFT" /\ r.ring = "none" /\ r.clean = "none" /\ r.held = 0
    /\ r.run = "none" /\ r.off = "none" /\ r.work = "none"
    /\ ~r.sealed /\ ~r.owed /\ ~r.loop /\ ~r.failing /\ ~r.late

(* What a bout's record says of itself: an outcome ends the run, and only a *)
(* bout that has one, or was given up before its bell, is cleaned up.       *)
Ends(r) ==
  /\ r.sealed => r.state \in Terminal
  /\ r.run = "arm" => r.state = "CHECKING"
  /\ r.state = "ARMED" => r.run = "none" /\ ~r.failing
  /\ r.run = "readback" => ~r.sealed /\ r.ring = "cooldown" /\ r.state \in Terminal
  /\ r.failing => r.run \in {"none", "stopping"}
  /\ ~r.sealed /\ r.state \in Terminal => r.run \in {"none", "readback"} /\ ~r.failing

(* ... by one of the handoff, the worker and the loop, until it is done.    *)
Attends(r) ==
  /\ r.off # "none" \/ r.work # "none" \/ r.loop \/ r.late \/ r.clean = "round5_cleanup" =>
       r.sealed \/ (r.state = "FAILED" /\ r.run = "none")
  /\ r.off # "none" => r.work = "none" /\ ~r.loop
  /\ r.owed <=> r.loop
  /\ r.work = "back" => r.ring = "none"
  /\ r.sealed /\ r.off = "none" /\ r.work = "none" /\ ~r.loop => r.ring = "none"

(* No lane is being set up before the bell, nor once the handoff has        *)
(* stopped the bout's work.                                                 *)
LanesFit(r, ln) ==
  /\ r.state \in {"DRAFT", "CHECKING", "ARMED"} => \A l \in Lanes : ln[l] = "idle"
  /\ r.run \in {"verdict", "readback"} => \A l \in Lanes : ln[l] # "setup"
  /\ r.run = "readback" /\ r.state = "VERIFIED" => \A l \in Lanes : ln[l] = "valid"
  /\ r.state \in Terminal /\ r.off # "cancel" /\ ~r.late => \A l \in Lanes : ln[l] # "setup"

CardFits(r, ln) == Lives(r) /\ Ends(r) /\ Attends(r) /\ LanesFit(r, ln)

(* What it has to do with the slot, the cleanup ring and the runners.       *)
Quiet(r, ln) == r.run # "arm" /\ \A l \in Lanes : ln[l] # "setup"

BoutFits(b, r, ln, jb) ==
  r.home # None =>
    /\ r.held <= bouts
    /\ r.held # b \/ r.work \in {"main", "back"} => slot.claim # b
    /\ ~r.passed => leader \in {r.home, None}
    /\ ~r.passed /\ r.clean = "round5_cleanup" => back = Row(b, "round5_cleanup")
    /\ ~r.passed /\ ~r.late /\ (slot.claim # b \/ slot.state = "cleaning") => Quiet(r, ln)
    /\ ~r.passed /\ ~r.late /\ slot.claim # b => \A l \in Lanes : jb[l] \in {"none", "settled"}

(* Whoever's worker is about to fence the claim of another has its cleanup  *)
(* ring, or that other is over.                                             *)
Lapsed(c) == back.bout # c \/ (card[c].state \in Terminal /\ card[c].run # "readback")
Adopts(b, r) ==
  r.home # None /\ ~r.passed /\ r.work = "fence" /\ r.held \notin {0, b} /\ slot.claim = r.held
    => Lapsed(r.held)

(* The claim on the slot is of the process that whoever has coordinated it  *)
(* throughout belongs to.                                                   *)
Akin(b, r) ==
  r.home # None /\ ~r.passed /\ slot.claim \notin {0, b} => card[slot.claim].home = r.home

SpikeInv ==
  /\ SpikeTypeOK
  /\ slot.claim <= bouts /\ (slot.state \in {"warming", "ready"} <=> slot.claim = 0)
  /\ \A b \in Bouts : b > bouts => /\ card[b] = Draft
                                   /\ \A l \in Lanes : lane[b][l] = "idle" /\ job[b][l] = "none"
  /\ \A b \in Bouts : CardFits(card[b], lane[b])
  /\ \A b \in Bouts : BoutFits(b, card[b], lane[b], job[b])
  /\ \A b \in Bouts : Adopts(b, card[b]) /\ Akin(b, card[b])

-----------------------------------------------------------------------------
LEMMA Initially ==
  ASSUME Init PROVE SpikeInv
<1> USE NamesAssumption, BoundsAssumption
<1>1. SpikeTypeOK
  <2>1. Draft \in Card
    BY DEF Draft, Card, Phase
  <2>2. leader \in Process
    BY DEF Init
  <2> QED BY <2>1, <2>2 DEF Init, SpikeTypeOK, Gone, Phase, Card
<1>2. slot.claim <= bouts /\ (slot.state \in {"warming", "ready"} <=> slot.claim = 0)
  BY DEF Init
<1>3. ASSUME NEW b \in Bouts
      PROVE /\ card[b] = Draft
            /\ \A l \in Lanes : lane[b][l] = "idle" /\ job[b][l] = "none"
  BY DEF Init
<1>4. ASSUME NEW b \in Bouts
      PROVE CardFits(card[b], lane[b])
  <2>1. Ends(Draft)
    BY DEF Ends, Draft, Terminal
  <2>2. Attends(Draft)
    BY DEF Attends, Draft, Terminal
  <2>3. LanesFit(Draft, lane[b])
    BY <1>3 DEF LanesFit, Draft, Terminal
  <2>4. Lives(Draft)
    BY DEF Lives, Draft
  <2> QED BY <1>3, <2>1, <2>2, <2>3, <2>4 DEF CardFits
<1>5. ASSUME NEW b \in Bouts
      PROVE /\ BoutFits(b, card[b], lane[b], job[b])
            /\ Adopts(b, card[b]) /\ Akin(b, card[b])
  BY <1>3 DEF BoutFits, Adopts, Akin, Draft
<1> QED BY <1>1, <1>2, <1>3, <1>4, <1>5 DEF SpikeInv

(* What the invariant says of one bout, and of the rest.                    *)
Rings == [bout : 0..MaxBout, phase : Phase]

LEMMA OfBout ==
  ASSUME SpikeInv, NEW b \in Bouts
  PROVE /\ card[b] \in Card /\ lane[b] \in [Lanes -> LaneAt] /\ job[b] \in [Lanes -> JobAt]
        /\ card = [card EXCEPT ![b] = card[b]]
        /\ lane = [lane EXCEPT ![b] = lane[b]] /\ job = [job EXCEPT ![b] = job[b]]
        /\ CardFits(card[b], lane[b])
        /\ BoutFits(b, card[b], lane[b], job[b])
        /\ Adopts(b, card[b]) /\ Akin(b, card[b])
        /\ bouts \in Nat /\ b \in Nat /\ b # 0 /\ slot.claim \in Nat
  BY BoundsAssumption DEF SpikeInv, SpikeTypeOK, Bouts, Card, LaneAt, JobAt

LEMMA OfRest ==
  ASSUME SpikeInv
  PROVE /\ main \in Rings /\ back \in Rings /\ Gone \in Rings
        /\ \A b \in 1..bouts : b \in Bouts /\ \A phase \in Phase : Row(b, phase) \in Rings
        /\ faults \in 0..MaxFaults /\ (Fault => faults' \in 0..MaxFaults)
  BY BoundsAssumption DEF SpikeInv, SpikeTypeOK, Bouts, Rings, Row, Gone, Phase, Fault

(* A bout whose slot another has taken is what it was in every other way.   *)
Takes(r) == [r EXCEPT !.passed = TRUE]

LEMMA TakenStands ==
  ASSUME NEW c \in Bouts, NEW r \in Card, NEW ln \in [Lanes -> LaneAt],
         NEW jb \in [Lanes -> JobAt]
  PROVE /\ Takes(r) \in Card /\ Takes(r).passed
        /\ Takes(r).state = r.state /\ Takes(r).run = r.run /\ Takes(r).home = r.home
        /\ CardFits(r, ln) => CardFits(Takes(r), ln)
        /\ BoutFits(c, r, ln, jb) => BoutFits(c, Takes(r), ln, jb)
        /\ Adopts(c, Takes(r))
<1>1. PICK q : q = Takes(r)
  OBVIOUS
<1>2. /\ q.home = r.home /\ q.state = r.state /\ q.sealed = r.sealed /\ q.ring = r.ring
      /\ q.clean = r.clean /\ q.held = r.held /\ q.open = r.open /\ q.owed = r.owed
      /\ q.run = r.run /\ q.failing = r.failing /\ q.off = r.off /\ q.work = r.work
      /\ q.loop = r.loop /\ q.late = r.late /\ q.passed = TRUE
  BY <1>1 DEF Takes, Card
<1>3. q \in Card
  BY <1>1 DEF Takes, Card
<1>4. CardFits(r, ln) => CardFits(q, ln)
  BY <1>2 DEF CardFits, Lives, Ends, Attends, LanesFit
<1>5. BoutFits(c, r, ln, jb) => BoutFits(c, q, ln, jb)
  BY <1>2 DEF BoutFits
<1>6. Adopts(c, q)
  BY <1>2 DEF Adopts
<1> QED BY <1>1, <1>2, <1>3, <1>4, <1>5, <1>6

(* A step of one bout, which may move the slot that it holds, or take it    *)
(* from another.                                                            *)
LEMMA OneBout ==
  ASSUME SpikeInv, NEW b \in 1..bouts, NEW w \in Card,
         NEW v \in [Lanes -> LaneAt], NEW j \in [Lanes -> JobAt],
         card' \in [Bouts -> Card], card'[b] = w,
         \A c \in Bouts : c # b => \/ card'[c] = card[c]
                                   \/ c <= bouts /\ card'[c] = Takes(card[c]),
         lane' = [lane EXCEPT ![b] = v], job' = [job EXCEPT ![b] = j],
         slot' \in [state : {"warming", "ready", "claimed", "running", "cleaning"},
                    claim : 0..MaxBout],
         slot'.claim = slot.claim,
         slot' # slot => /\ slot.claim # 0 /\ slot'.state \in {"running", "cleaning"}
                         /\ slot.claim # b => card'[slot.claim].passed,
         UNCHANGED <<leader, bouts>>, faults' \in 0..MaxFaults,
         main' \in Rings, back' \in Rings,
         back' # back => back.bout \in {0, b} /\ back'.bout \in {0, b},
         Lapsed(b) => back'.bout # b \/ (w.state \in Terminal /\ w.run # "readback"),
         w.home = card[b].home, w.passed = card[b].passed,
         CardFits(w, v), BoutFits(b, w, v, j)', Adopts(b, w)
  PROVE SpikeInv'
<1> USE NamesAssumption, BoundsAssumption
<1>t. /\ bouts \in 0..MaxBout /\ b \in Bouts /\ SpikeTypeOK
      /\ card \in [Bouts -> Card] /\ lane \in [Bouts -> [Lanes -> LaneAt]]
      /\ job \in [Bouts -> [Lanes -> JobAt]]
  <2>1. b \in Bouts /\ SpikeTypeOK
    BY OfRest DEF SpikeInv
  <2> QED BY <2>1 DEF SpikeTypeOK, Card, LaneAt, JobAt
<1>s. \A c \in Bouts : /\ lane'[c] = IF c = b THEN v ELSE lane[c]
                       /\ job'[c] = IF c = b THEN j ELSE job[c]
  BY <1>t
<1>o. \A c \in Bouts : c # b => \/ card'[c] = card[c]
                                \/ c <= bouts /\ card'[c] = Takes(card[c])
  OBVIOUS
<1>u. leader' = leader /\ bouts' = bouts
  OBVIOUS
<1>1. SpikeTypeOK'
  <2>1. /\ lane' \in [Bouts -> [Lanes -> LaneAt]]
        /\ job' \in [Bouts -> [Lanes -> JobAt]]
    BY <1>t
  <2> QED BY <1>t, <1>u, <2>1 DEF SpikeTypeOK, Card, LaneAt, JobAt, Rings
<1>2. (slot.claim <= bouts /\ (slot.state \in {"warming", "ready"} <=> slot.claim = 0))'
  BY DEF SpikeInv
<1>3. ASSUME NEW c \in Bouts, c > bouts'
      PROVE (card[c] = Draft /\ \A l \in Lanes : lane[c][l] = "idle" /\ job[c][l] = "none")'
  <2>1. c > bouts /\ c # b /\ ~(c <= bouts)
    BY <1>3, <1>t, <1>u DEF Bouts
  <2>2. card'[c] = card[c]
    BY <2>1, <1>o
  <2> QED BY <2>1, <2>2, <1>s, <1>t DEF SpikeInv
<1>l. ASSUME NEW h \in Bouts, h # b
      PROVE /\ card'[h].state = card[h].state /\ card'[h].run = card[h].run
            /\ card'[h].home = card[h].home /\ (card[h].passed => card'[h].passed)
  BY <1>l, <1>t, <1>o, TakenStands
<1>4. ASSUME NEW c \in Bouts
      PROVE CardFits(card[c], lane[c])'
  <2>1. CardFits(card[c], lane[c]) /\ card[c] \in Card /\ lane[c] \in [Lanes -> LaneAt]
    BY <1>t DEF SpikeInv
  <2>2. CASE c = b
    <3>1. card'[c] = w /\ lane'[c] = v
      BY <2>2, <1>s
    <3> QED BY <3>1 DEF CardFits, Lives, Ends, Attends, LanesFit
  <2>3. CASE c # b
    <3>1. lane'[c] = lane[c] /\ (card'[c] = card[c] \/ card'[c] = Takes(card[c]))
      BY <2>3, <1>s, <1>o
    <3>2. CardFits(card'[c], lane[c])
      <4>1. job[c] \in [Lanes -> JobAt]
        BY <1>t
      <4> QED BY <3>1, <4>1, <2>1, TakenStands
    <3> QED BY <3>1, <3>2 DEF CardFits, Lives, Ends, Attends, LanesFit
  <2> QED BY <2>2, <2>3
<1>5. ASSUME NEW c \in Bouts
      PROVE BoutFits(c, card[c], lane[c], job[c])'
  <2>2. CASE c = b
    <3>1. card'[c] = w /\ lane'[c] = v /\ job'[c] = j
      BY <2>2, <1>s
    <3> QED BY <3>1, <2>2 DEF BoutFits, Quiet, Row
  <2>3. CASE c # b
    <3>1. lane'[c] = lane[c] /\ job'[c] = job[c]
      BY <2>3, <1>s
    <3>2. back = Row(c, "round5_cleanup") => back' = back
      <4>1. c \notin {0, b}
        BY <2>3 DEF Bouts
      <4> QED BY <4>1 DEF Row
    <3>3. BoutFits(c, card'[c], lane[c], job[c])
      <4>1. /\ card[c] \in Card /\ lane[c] \in [Lanes -> LaneAt] /\ job[c] \in [Lanes -> JobAt]
            /\ BoutFits(c, card[c], lane[c], job[c])
        BY <1>t DEF SpikeInv
      <4> QED BY <4>1, <2>3, <1>o, TakenStands
    <3>4. slot' # slot => slot.claim # c \/ card'[c].passed
      BY <2>3
    <3> QED BY <3>1, <3>2, <3>3, <3>4, <1>u DEF BoutFits, Quiet, Row
  <2> QED BY <2>2, <2>3
<1>l2. ASSUME NEW h \in Bouts, Lapsed(h)
       PROVE Lapsed(h)'
  <2>1. CASE h = b
    BY <2>1, <1>l2 DEF Lapsed, Terminal
  <2>2. CASE h # b
    <3>1. h \notin {0, b}
      BY <2>2 DEF Bouts
    <3>2. back.bout # h => back'.bout # h
      BY <3>1
    <3> QED BY <1>l, <1>l2, <2>2, <3>2 DEF Lapsed, Terminal
  <2> QED BY <2>1, <2>2
<1>6. ASSUME NEW c \in Bouts
      PROVE Adopts(c, card[c])'
  <2>1. card'[c] \in Card /\ Adopts(c, card'[c])
    <3>1. CASE c = b
      BY <3>1
    <3>2. CASE c # b
      <4>1. /\ card[c] \in Card /\ Adopts(c, card[c])
            /\ lane[c] \in [Lanes -> LaneAt] /\ job[c] \in [Lanes -> JobAt]
        BY <1>t DEF SpikeInv
      <4> QED BY <4>1, <3>2, <1>o, TakenStands
    <3> QED BY <3>1, <3>2
  <2>2. card'[c].held # 0 => card'[c].held \in Bouts
    BY <2>1 DEF Card, Bouts
  <2> QED BY <2>1, <2>2, <1>l2 DEF Adopts
<1>7. ASSUME NEW c \in Bouts
      PROVE Akin(c, card[c])'
  <2>1. /\ card'[c].home = card[c].home
        /\ slot.claim # 0 => card'[slot.claim].home = card[slot.claim].home
        /\ card[c].passed => card'[c].passed
    <3>1. \A h \in Bouts : /\ card'[h].home = card[h].home
                           /\ card[h].passed => card'[h].passed
      BY <1>l
    <3>2. slot.claim # 0 => slot.claim \in Bouts
      BY <1>t DEF SpikeTypeOK, Bouts
    <3> QED BY <3>1, <3>2
  <2>2. Akin(c, card[c])
    BY DEF SpikeInv
  <2> QED BY <2>1, <2>2 DEF Akin
<1> QED BY <1>1, <1>2, <1>3, <1>4, <1>5, <1>6, <1>7 DEF SpikeInv

(* A step of one bout alone.                                                *)
LEMMA OneRow ==
  ASSUME SpikeInv, NEW b \in 1..bouts, NEW w \in Card,
         NEW v \in [Lanes -> LaneAt], NEW j \in [Lanes -> JobAt],
         card' = [card EXCEPT ![b] = w],
         lane' = [lane EXCEPT ![b] = v], job' = [job EXCEPT ![b] = j],
         slot' = slot \/ \E x \in {"running", "cleaning"} :
                           slot' = [slot EXCEPT !.state = x] /\ slot.claim = b,
         UNCHANGED <<leader, bouts>>, faults' \in 0..MaxFaults,
         main' \in Rings, back' \in Rings,
         back' # back => back.bout \in {0, b} /\ back'.bout \in {0, b},
         Lapsed(b) => back'.bout # b \/ (w.state \in Terminal /\ w.run # "readback"),
         w.home = card[b].home, w.passed = card[b].passed,
         CardFits(w, v), BoutFits(b, w, v, j)', Adopts(b, w)
  PROVE SpikeInv'
<1>1. b \in Bouts /\ b # 0 /\ card \in [Bouts -> Card]
  BY OfRest DEF SpikeInv, SpikeTypeOK, Card, Bouts
<1>2. /\ card' \in [Bouts -> Card] /\ card'[b] = w
      /\ \A c \in Bouts : c # b => card'[c] = card[c]
  BY <1>1
<1>3. slot \in [state : {"warming", "ready", "claimed", "running", "cleaning"},
                claim : 0..MaxBout]
  BY DEF SpikeInv, SpikeTypeOK
<1>4. /\ slot' \in [state : {"warming", "ready", "claimed", "running", "cleaning"},
                    claim : 0..MaxBout]
      /\ slot'.claim = slot.claim
      /\ slot' # slot => slot.claim = b /\ slot'.state \in {"running", "cleaning"}
  BY <1>3
<1> QED BY <1>1, <1>2, <1>4, OneBout

(* A step of one bout's cleanup that fences the slot, whoever's claim it is. *)
LEMMA OneFence ==
  ASSUME SpikeInv, NEW b \in 1..bouts, NEW w \in Card, FencedBy(b, w),
         slot' = [slot EXCEPT !.state = "cleaning"], slot.claim # 0,
         UNCHANGED <<leader, bouts, lane, job>>, faults' \in 0..MaxFaults,
         main' \in Rings, back' \in Rings,
         back' # back => back.bout \in {0, b} /\ back'.bout \in {0, b},
         Lapsed(b) => back'.bout # b \/ (w.state \in Terminal /\ w.run # "readback"),
         w.home = card[b].home, w.passed = card[b].passed,
         CardFits(w, lane[b]), BoutFits(b, w, lane[b], job[b])', Adopts(b, w)
  PROVE SpikeInv'
<1>1. b \in Bouts /\ card \in [Bouts -> Card] /\ slot.claim <= bouts
      /\ bouts \in 0..MaxBout /\ slot.claim \in 0..MaxBout
  BY OfRest DEF SpikeInv, SpikeTypeOK, Card
<1>2. /\ lane[b] \in [Lanes -> LaneAt] /\ job[b] \in [Lanes -> JobAt]
      /\ lane' = [lane EXCEPT ![b] = lane[b]] /\ job' = [job EXCEPT ![b] = job[b]]
  BY <1>1, OfBout
<1>3. ASSUME NEW c \in Bouts, c # b
      PROVE IF c = slot.claim /\ slot.state # "cleaning"
            THEN card'[c] = Takes(card[c]) ELSE card'[c] = card[c]
  <2>1. card[c] \in Card
    BY <1>1
  <2>2. card'[c] = [card[c] EXCEPT !.passed =
                      card[c].passed \/ (c = slot.claim /\ slot.state # "cleaning")]
    BY <1>3 DEF FencedBy
  <2>3. CASE c = slot.claim /\ slot.state # "cleaning"
    <3>1. (card[c].passed \/ (c = slot.claim /\ slot.state # "cleaning")) = TRUE
      BY <2>3
    <3> QED BY <2>2, <3>1, <2>3 DEF Takes
  <2>4. CASE ~(c = slot.claim /\ slot.state # "cleaning")
    <3>1. card[c].passed \in BOOLEAN
      BY <2>1 DEF Card
    <3>2. (card[c].passed \/ (c = slot.claim /\ slot.state # "cleaning")) = card[c].passed
      BY <2>4, <3>1
    <3>3. card[c] = [card[c] EXCEPT !.passed = card[c].passed]
      BY <2>1 DEF Card
    <3> QED BY <2>2, <3>2, <3>3, <2>4
  <2> QED BY <2>3, <2>4
<1>4. card'[b] = w
  BY <1>1 DEF FencedBy
<1>5. card' \in [Bouts -> Card]
  <2>1. ASSUME NEW c \in Bouts
        PROVE card'[c] \in Card
    <3>1. CASE c = b
      BY <3>1, <1>4
    <3>2. CASE c # b
      <4>1. card[c] \in Card /\ lane[c] \in [Lanes -> LaneAt] /\ job[c] \in [Lanes -> JobAt]
        BY OfBout
      <4> QED BY <3>2, <4>1, <1>3, TakenStands
    <3> QED BY <3>1, <3>2
  <2>2. DOMAIN card' = Bouts /\ card' = [c \in Bouts |-> card'[c]]
    BY DEF FencedBy
  <2> QED BY <2>1, <2>2
<1>6. \A c \in Bouts : c # b => \/ card'[c] = card[c]
                                \/ c <= bouts /\ card'[c] = Takes(card[c])
  BY <1>1, <1>3
<1>7. /\ slot' \in [state : {"warming", "ready", "claimed", "running", "cleaning"},
                    claim : 0..MaxBout]
      /\ slot'.claim = slot.claim
      /\ slot' # slot => slot'.state = "cleaning" /\ slot.state # "cleaning"
  <2>1. slot \in [state : {"warming", "ready", "claimed", "running", "cleaning"},
                  claim : 0..MaxBout]
    BY DEF SpikeInv, SpikeTypeOK
  <2> QED BY <2>1
<1>8. slot' # slot => /\ slot.claim # 0 /\ slot'.state \in {"running", "cleaning"}
                      /\ slot.claim # b => card'[slot.claim].passed
  <2>1. slot.claim # b => slot.claim \in Bouts
    BY <1>1 DEF Bouts
  <2>2. ASSUME slot' # slot, slot.claim # b
        PROVE card'[slot.claim].passed
    <3>1. card'[slot.claim] = Takes(card[slot.claim])
      BY <1>3, <1>7, <2>1, <2>2
    <3> QED BY <3>1, <2>1, <2>2, OfBout, TakenStands
  <2> QED BY <1>7, <2>2
<1> QED BY <1>1, <1>2, <1>4, <1>5, <1>6, <1>7, <1>8, OneBout

(* A step of one bout that leaves the slot and the cleanup ring as well.    *)
LEMMA OneCard ==
  ASSUME SpikeInv, NEW b \in 1..bouts, NEW w \in Card,
         NEW v \in [Lanes -> LaneAt], NEW j \in [Lanes -> JobAt],
         card' = [card EXCEPT ![b] = w],
         lane' = [lane EXCEPT ![b] = v], job' = [job EXCEPT ![b] = j],
         UNCHANGED <<slot, leader, bouts, back>>, faults' \in 0..MaxFaults,
         main' \in Rings,
         Lapsed(b) => back.bout # b \/ (w.state \in Terminal /\ w.run # "readback"),
         w.home = card[b].home, w.passed = card[b].passed,
         CardFits(w, v), BoutFits(b, w, v, j), Adopts(b, w)
  PROVE SpikeInv'
<1>1. back' \in Rings
  BY OfRest
<1>2. slot' = slot /\ leader' = leader /\ bouts' = bouts /\ back' = back
  OBVIOUS
<1>3. BoutFits(b, w, v, j)'
  BY <1>2 DEF BoutFits, Quiet, Row
<1> QED BY <1>1, <1>2, <1>3, OneRow

(* A bout that still runs, or has a failure to publish, is not cleaned up.  *)
LEMMA Unhanded ==
  ASSUME NEW r \in Card, Ends(r), Attends(r), ~r.sealed, r.run # "none" \/ r.failing
  PROVE /\ r.off = "none" /\ r.work = "none" /\ ~r.loop /\ ~r.owed /\ ~r.late
        /\ r.clean # "round5_cleanup"
<1>1. r.state = "FAILED" => r.run # "none"
  BY DEF Ends, Terminal
<1>2. ~(r.sealed \/ (r.state = "FAILED" /\ r.run = "none"))
  BY <1>1
<1>3. ~(r.off # "none" \/ r.work # "none" \/ r.loop \/ r.late \/ r.clean = "round5_cleanup")
  BY <1>2 DEF Attends
<1>4. r.owed <=> r.loop
  BY DEF Attends
<1> QED BY <1>3, <1>4

-----------------------------------------------------------------------------
(* Each step of a bout keeps the invariant.  In every case w is the record  *)
(* it leaves, v and j what it leaves of the lanes and of the jobs when it   *)
(* moves them; the parts of the invariant are shown of w, and OneCard,      *)
(* OneRow or OneFence carries them to all of it.                            *)

(* The arm of a bout.                                                       *)
LEMMA ArmKeeps ==
  ASSUME SpikeInv, NEW b \in 1..bouts, Arm(b)
  PROVE SpikeInv'
<1>b. b \in Bouts
  BY OfRest
<1>c. card[b] \in Card
  BY <1>b, OfBout
<1>z. 0 \in 0..MaxBout /\ slot.claim \in 0..MaxBout /\ slot.claim <= bouts
  BY BoundsAssumption DEF SpikeInv, SpikeTypeOK
<1>o. /\ card[b] \in Card /\ lane[b] \in [Lanes -> LaneAt] /\ job[b] \in [Lanes -> JobAt]
      /\ card = [card EXCEPT ![b] = card[b]]
      /\ lane = [lane EXCEPT ![b] = lane[b]] /\ job = [job EXCEPT ![b] = job[b]]
      /\ CardFits(card[b], lane[b])
      /\ BoutFits(b, card[b], lane[b], job[b]) /\ Adopts(b, card[b])
      /\ bouts \in Nat /\ b \in Nat /\ b # 0 /\ slot.claim \in Nat
  BY <1>b, OfBout
<1> USE <1>b
<1>1. CASE ArmStages(b)
  <2>1. PICK w : w = card[b]
    OBVIOUS
  <2>h. card[b].home # None
    BY <1>1, <1>o DEF ArmStages, CardFits, Lives, Card
  <2>j. PICK j : j = [job[b] EXCEPT ![Lakebase] = "staged"]
    OBVIOUS
  <2>u. j \in [Lanes -> JobAt]
    BY <2>j, <1>o DEF JobAt, Lanes
  <2>l. Lives(w)
    BY <2>h, <2>1, <1>o DEF Lives, Card
  <2>2. w \in Card
    BY <2>1, <1>c, <1>z DEF Card, Phase
  <2>e. w.home = card[b].home /\ w.passed = card[b].passed
    BY <2>1, <1>c DEF Card
  <2>3. Ends(w)
    BY <1>1, <2>1, <2>h, <1>o, <2>j DEF ArmStages, CardFits, Ends, Card, Terminal
  <2>4. Attends(w)
    BY <1>1, <2>1, <2>h, <1>o, <2>j DEF ArmStages, CardFits, Ends, Attends, Card, Terminal
  <2>5. LanesFit(w, lane[b])
    BY <1>1, <2>1, <2>h, <1>o, <2>j DEF ArmStages, CardFits, Ends, Attends, LanesFit, Card,
       Terminal
  <2>6. BoutFits(b, w, lane[b], j) /\ Adopts(b, w)
    BY <1>1, <2>1, <2>h, <1>o, <2>j DEF ArmStages, CardFits, Ends, Attends, LanesFit,
       BoutFits, Adopts, Quiet, Card, Terminal
  <2>7. Lapsed(b) => back.bout # b \/ (w.state \in Terminal /\ w.run # "readback")
    BY <1>1, <2>1, <2>h, <1>o, <2>j DEF ArmStages, CardFits, Ends, Attends, Lapsed, Card,
       Terminal
  <2>9. UNCHANGED <<slot, leader, bouts, back>> /\ faults' \in 0..MaxFaults /\ main' \in Rings
    BY <1>1, OfRest DEF ArmStages, Phase
  <2>8. /\ card' = [card EXCEPT ![b] = w]
        /\ lane' = [lane EXCEPT ![b] = lane[b]] /\ job' = [job EXCEPT ![b] = j]
    BY <1>1, <2>1, <2>h, <1>o, <2>j DEF ArmStages, Put
  <2> QED BY <2>u, <2>2, <2>3, <2>4, <2>5, <2>6, <2>7, <2>8, <2>9, <2>e, <2>l, <1>o,
         OneCard DEF CardFits
<1>2. CASE ArmDone(b)
  <2>1. PICK w : w = [card[b] EXCEPT !.state = "ARMED", !.ring = "armed", !.clean = "armed",
                           !.run = "none"]
    OBVIOUS
  <2>h. card[b].home # None
    BY <1>2, <1>o DEF ArmDone, OwnsBack, CardFits, Lives, Card
  <2>l. Lives(w)
    BY <2>h, <2>1, <1>o DEF Lives, Card
  <2>2. w \in Card
    BY <2>1, <1>c, <1>z, ZenonT(60) DEF Card, Phase
  <2>e. w.home = card[b].home /\ w.passed = card[b].passed
    BY <2>1, <1>c DEF Card
  <2>3. Ends(w)
    BY <1>2, <2>1, <2>h, <1>o DEF ArmDone, OwnsBack, CardFits, Ends, Card, Terminal
  <2>4. Attends(w)
    BY <1>2, <2>1, <2>h, <1>o DEF ArmDone, OwnsBack, CardFits, Ends, Attends, Card, Terminal
  <2>5. LanesFit(w, lane[b])
    BY <1>2, <2>1, <2>h, <1>o DEF ArmDone, OwnsBack, CardFits, Ends, Attends, LanesFit,
       Card, Terminal
  <2>f. w.clean = "armed" /\ w.passed = card[b].passed /\ w.held = card[b].held
        /\ w.work = card[b].work /\ w.home = card[b].home /\ w.late = card[b].late
        /\ w.run = "none"
    BY <2>1, <1>c DEF Card
  <2>s. slot' = slot
    BY <1>2, OfRest DEF ArmDone, OwnsBack
  <2>9. /\ UNCHANGED <<leader, bouts>> /\ faults' \in 0..MaxFaults
        /\ main' \in Rings /\ back' \in Rings
    BY <1>2, OfRest DEF ArmDone, OwnsBack, Phase
  <2>a. back' # back => back.bout \in {0, b} /\ back'.bout \in {0, b}
    BY <1>2, OfRest DEF ArmDone, OwnsBack, Row, Rings, Gone
  <2>6. BoutFits(b, w, lane[b], job[b])'
    BY <1>2, <2>1, <2>h, <1>o, <2>f, <2>s, <2>9 DEF ArmDone, OwnsBack, CardFits, Ends,
       Attends, LanesFit, BoutFits, Quiet, Terminal, Row
  <2>b. Adopts(b, w)
    BY <1>2, <2>1, <2>h, <1>o DEF ArmDone, OwnsBack, CardFits, Attends, Adopts, Card
  <2>7. Lapsed(b) => back'.bout # b \/ (w.state \in Terminal /\ w.run # "readback")
    BY <1>2, <2>1, <2>h, <1>o DEF ArmDone, OwnsBack, CardFits, Ends, Attends, Lapsed, Card,
       Terminal, Row
  <2>8. /\ card' = [card EXCEPT ![b] = w]
        /\ lane' = [lane EXCEPT ![b] = lane[b]] /\ job' = [job EXCEPT ![b] = job[b]]
    BY <1>2, <2>1, <2>h, <1>o DEF ArmDone, OwnsBack, Put
  <2> QED BY <2>2, <2>3, <2>4, <2>5, <2>6, <2>7, <2>8, <2>9, <2>e, <2>a, <2>s, <2>b, <2>l,
         <1>o, OneRow DEF CardFits
<1>3. CASE ArmLost(b)
  <2>1. PICK w : w = [card[b] EXCEPT !.ring = "none", !.clean = "none", !.run = "failing"]
    OBVIOUS
  <2>h. card[b].home # None
    BY <1>3, <1>o DEF ArmLost, OwnsBack, CardFits, Lives, Card
  <2>l. Lives(w)
    BY <2>h, <2>1, <1>o DEF Lives, Card
  <2>2. w \in Card
    BY <2>1, <1>c, <1>z, ZenonT(60) DEF Card, Phase
  <2>e. w.home = card[b].home /\ w.passed = card[b].passed
    BY <2>1, <1>c DEF Card
  <2>3. Ends(w)
    BY <1>3, <2>1, <2>h, <1>o DEF ArmLost, OwnsBack, CardFits, Ends, Card, Terminal
  <2>4. Attends(w)
    BY <1>3, <2>1, <2>h, <1>o DEF ArmLost, OwnsBack, CardFits, Ends, Attends, Card, Terminal
  <2>5. LanesFit(w, lane[b])
    BY <1>3, <2>1, <2>h, <1>o DEF ArmLost, OwnsBack, CardFits, Ends, Attends, LanesFit,
       Card, Terminal
  <2>s. slot' = slot
    BY <1>3, OfRest DEF ArmLost, OwnsBack
  <2>9. /\ UNCHANGED <<leader, bouts>> /\ faults' \in 0..MaxFaults
        /\ main' \in Rings /\ back' \in Rings
    BY <1>3, OfRest DEF ArmLost, OwnsBack, Phase
  <2>a. back' # back => back.bout \in {0, b} /\ back'.bout \in {0, b}
    BY <1>3, OfRest DEF ArmLost, OwnsBack, Row, Rings, Gone
  <2>6. BoutFits(b, w, lane[b], job[b])'
    BY <1>3, <2>1, <2>h, <1>o, <2>s, <2>9 DEF ArmLost, OwnsBack, CardFits, Ends, Attends,
       LanesFit, BoutFits, Quiet, Card, Terminal, Row
  <2>b. Adopts(b, w)
    BY <1>3, <2>1, <2>h, <1>o DEF ArmLost, OwnsBack, CardFits, Attends, Adopts, Card
  <2>7. Lapsed(b) => back'.bout # b \/ (w.state \in Terminal /\ w.run # "readback")
    BY <1>3, <2>1, <2>h, <1>o DEF ArmLost, OwnsBack, CardFits, Ends, Attends, Lapsed, Card,
       Terminal, Row
  <2>8. /\ card' = [card EXCEPT ![b] = w]
        /\ lane' = [lane EXCEPT ![b] = lane[b]] /\ job' = [job EXCEPT ![b] = job[b]]
    BY <1>3, <2>1, <2>h, <1>o DEF ArmLost, OwnsBack, Put
  <2> QED BY <2>2, <2>3, <2>4, <2>5, <2>6, <2>7, <2>8, <2>9, <2>e, <2>a, <2>s, <2>b, <2>l,
         <1>o, OneRow DEF CardFits
<1>4. CASE ArmFails(b)
  <2>1. PICK w : w = [card[b] EXCEPT !.run = "failing"]
    OBVIOUS
  <2>h. card[b].home # None
    BY <1>4, <1>o DEF ArmFails, CardFits, Lives, Card
  <2>l. Lives(w)
    BY <2>h, <2>1, <1>o DEF Lives, Card
  <2>2. w \in Card
    BY <2>1, <1>c, <1>z DEF Card, Phase
  <2>e. w.home = card[b].home /\ w.passed = card[b].passed
    BY <2>1, <1>c DEF Card
  <2>3. Ends(w)
    BY <1>4, <2>1, <2>h, <1>o DEF ArmFails, CardFits, Ends, Card, Terminal
  <2>4. Attends(w)
    BY <1>4, <2>1, <2>h, <1>o DEF ArmFails, CardFits, Ends, Attends, Card, Terminal
  <2>5. LanesFit(w, lane[b])
    BY <1>4, <2>1, <2>h, <1>o DEF ArmFails, CardFits, Ends, Attends, LanesFit, Card,
       Terminal
  <2>6. BoutFits(b, w, lane[b], job[b]) /\ Adopts(b, w)
    BY <1>4, <2>1, <2>h, <1>o DEF ArmFails, CardFits, Ends, Attends, LanesFit, BoutFits,
       Adopts, Quiet, Card, Terminal
  <2>7. Lapsed(b) => back.bout # b \/ (w.state \in Terminal /\ w.run # "readback")
    BY <1>4, <2>1, <2>h, <1>o DEF ArmFails, CardFits, Ends, Attends, Lapsed, Card, Terminal
  <2>9. UNCHANGED <<slot, leader, bouts, back>> /\ faults' \in 0..MaxFaults /\ main' \in Rings
    BY <1>4, OfRest DEF ArmFails, Phase
  <2>8. /\ card' = [card EXCEPT ![b] = w]
        /\ lane' = [lane EXCEPT ![b] = lane[b]] /\ job' = [job EXCEPT ![b] = job[b]]
    BY <1>4, <2>1, <2>h, <1>o DEF ArmFails, Put
  <2> QED BY <2>2, <2>3, <2>4, <2>5, <2>6, <2>7, <2>8, <2>9, <2>e, <2>l, <1>o,
         OneCard DEF CardFits
<1> QED BY <1>1, <1>2, <1>3, <1>4 DEF Arm

(* An armed card that is given up, or cancelled.                            *)
LEMMA AbandonKeeps ==
  ASSUME SpikeInv, NEW b \in 1..bouts, Abandon(b)
  PROVE SpikeInv'
<1>b. b \in Bouts
  BY OfRest
<1>c. card[b] \in Card
  BY <1>b, OfBout
<1>z. 0 \in 0..MaxBout /\ slot.claim \in 0..MaxBout /\ slot.claim <= bouts
  BY BoundsAssumption DEF SpikeInv, SpikeTypeOK
<1>o. /\ card[b] \in Card /\ lane[b] \in [Lanes -> LaneAt] /\ job[b] \in [Lanes -> JobAt]
      /\ card = [card EXCEPT ![b] = card[b]]
      /\ lane = [lane EXCEPT ![b] = lane[b]] /\ job = [job EXCEPT ![b] = job[b]]
      /\ CardFits(card[b], lane[b])
      /\ BoutFits(b, card[b], lane[b], job[b]) /\ Adopts(b, card[b])
      /\ bouts \in Nat /\ b \in Nat /\ b # 0 /\ slot.claim \in Nat
  BY <1>b, OfBout
<1> USE <1>b
<1>1. CASE Abandon(b) /\ UNCHANGED slot
  <2>x. PICK x : x = IF CanRetain(b) \/ (TRUE /\ CanReclaim(b)) THEN "round5_cleanup" ELSE "none"
    OBVIOUS
  <2>y. x \in Phase
    BY <2>x, <1>c DEF Card, Phase
  <2>1. PICK w : w = Owing([card[b] EXCEPT !.state = "FAILED", !.clean = x])
    OBVIOUS
  <2>h. card[b].home # None
    BY <1>1, <1>o DEF Abandon, Retain, Retained, CanRetain, CanReclaim, OwnsBack, Owing,
       Owing, CardFits, Lives, Card
  <2>l. Lives(w)
    BY <2>h, <2>1, <1>o DEF Lives, Card, Owing
  <2>2. w \in Card
    BY <2>1, <2>y, <1>c, <1>z DEF Card, Owing
  <2>e. w.home = card[b].home /\ w.passed = card[b].passed
    BY <2>1, <1>c DEF Card, Owing
  <2>3. Ends(w)
    BY <1>1, <2>1, <2>h, <2>x, <1>o DEF Abandon, Retain, Retained, CanRetain, CanReclaim,
       OwnsBack, Owing, Owing, CardFits, Ends, Card, Terminal
  <2>4. Attends(w)
    BY <1>1, <2>1, <2>h, <2>x, <1>o DEF Abandon, Retain, Retained, CanRetain, CanReclaim,
       OwnsBack, Owing, Owing, CardFits, Ends, Attends, Card, Terminal
  <2>5. LanesFit(w, lane[b])
    BY <1>1, <2>1, <2>h, <2>x, <1>o DEF Abandon, Retain, Retained, CanRetain, CanReclaim,
       OwnsBack, Owing, Owing, CardFits, Ends, Attends, LanesFit, Card, Terminal
  <2>f. /\ w.clean = x /\ w.state = "FAILED" /\ w.run = card[b].run /\ w.home = card[b].home
        /\ w.held = card[b].held
        /\ w.work = card[b].work /\ w.late = card[b].late /\ w.passed = card[b].passed
    BY <2>1, <1>c DEF Card, Owing
  <2>s. slot' = slot
    BY <1>1, OfRest DEF Abandon, Retain, Retained, CanRetain, CanReclaim, OwnsBack, Owing,
       Owing
  <2>9. /\ UNCHANGED <<leader, bouts>> /\ faults' \in 0..MaxFaults
        /\ main' \in Rings /\ back' \in Rings
    BY <1>1, OfRest DEF Abandon, Retain, Retained, CanRetain, CanReclaim, OwnsBack, Owing,
       Owing, Phase
  <2>a. back' # back => back.bout \in {0, b} /\ back'.bout \in {0, b}
    BY <1>1, OfRest DEF Abandon, Retain, Retained, CanRetain, CanReclaim, OwnsBack, Owing,
       Owing, Row, Rings, Gone
  <2>6. BoutFits(b, w, lane[b], job[b])'
    BY <1>1, <2>1, <2>h, <2>x, <1>o, <2>f, <2>s, <2>9 DEF Abandon, Retain, Retained,
       CanRetain, CanReclaim, OwnsBack, Owing, Owing, CardFits, Ends, Attends, LanesFit,
              BoutFits, Quiet, Terminal, Row
  <2>b. Adopts(b, w)
    BY <1>1, <2>1, <2>h, <2>x, <1>o DEF Abandon, Retain, Retained, CanRetain, CanReclaim,
       OwnsBack, Owing, Owing, CardFits, Attends, Adopts, Card
  <2>7. Lapsed(b) => back'.bout # b \/ (w.state \in Terminal /\ w.run # "readback")
    BY <1>1, <2>1, <2>h, <2>x, <1>o DEF Abandon, Retain, Retained, CanRetain, CanReclaim,
       OwnsBack, Owing, Owing, CardFits, Ends, Attends, Lapsed, Card, Terminal, Row
  <2>8. /\ card' = [card EXCEPT ![b] = w]
        /\ lane' = [lane EXCEPT ![b] = lane[b]] /\ job' = [job EXCEPT ![b] = job[b]]
    BY <1>1, <2>1, <2>h, <2>x, <1>o DEF Abandon, Retain, Retained, CanRetain, CanReclaim,
       OwnsBack, Owing, Owing, Put
  <2> QED BY <2>2, <2>3, <2>4, <2>5, <2>6, <2>7, <2>8, <2>9, <2>e, <2>a, <2>s, <2>b, <2>l,
         <1>o, OneRow DEF CardFits
<1>2. CASE Abandon(b) /\ (CanFence(b, b) /\ slot' = Cleaning)
  <2>x. PICK x : x = IF CanRetain(b) \/ (TRUE /\ CanReclaim(b)) THEN "round5_cleanup" ELSE "none"
    OBVIOUS
  <2>y. x \in Phase
    BY <2>x, <1>c DEF Card, Phase
  <2>1. PICK w : w = Owing([card[b] EXCEPT !.state = "FAILED", !.clean = x])
    OBVIOUS
  <2>h. card[b].home # None
    BY <1>2, <1>o DEF Abandon, Retain, Retained, CanRetain, CanReclaim, OwnsBack, Owing,
       Owing, CanFence, Cleaning, CardFits, Lives, Card
  <2>l. Lives(w)
    BY <2>h, <2>1, <1>o DEF Lives, Card, Owing
  <2>2. w \in Card
    BY <2>1, <2>y, <1>c, <1>z DEF Card, Owing
  <2>e. w.home = card[b].home /\ w.passed = card[b].passed
    BY <2>1, <1>c DEF Card, Owing
  <2>3. Ends(w)
    BY <1>2, <2>1, <2>h, <2>x, <1>o DEF Abandon, Retain, Retained, CanRetain, CanReclaim,
       OwnsBack, Owing, Owing, CanFence, Cleaning, CardFits, Ends, Card, Terminal
  <2>4. Attends(w)
    BY <1>2, <2>1, <2>h, <2>x, <1>o DEF Abandon, Retain, Retained, CanRetain, CanReclaim,
       OwnsBack, Owing, Owing, CanFence, Cleaning, CardFits, Ends, Attends, Card, Terminal
  <2>5. LanesFit(w, lane[b])
    BY <1>2, <2>1, <2>h, <2>x, <1>o DEF Abandon, Retain, Retained, CanRetain, CanReclaim,
       OwnsBack, Owing, Owing, CanFence, Cleaning, CardFits, Ends, Attends, LanesFit, Card,
              Terminal
  <2>f. /\ w.clean = x /\ w.state = "FAILED" /\ w.run = card[b].run /\ w.home = card[b].home
        /\ w.held = card[b].held
        /\ w.work = card[b].work /\ w.late = card[b].late /\ w.passed = card[b].passed
    BY <2>1, <1>c DEF Card, Owing
  <2>s. slot.claim = b /\ slot' = [slot EXCEPT !.state = "cleaning"]
    BY <1>2, OfRest DEF Abandon, Retain, Retained, CanRetain, CanReclaim, OwnsBack, Owing,
       Owing, CanFence, Cleaning
  <2>9. /\ UNCHANGED <<leader, bouts>> /\ faults' \in 0..MaxFaults
        /\ main' \in Rings /\ back' \in Rings
    BY <1>2, OfRest DEF Abandon, Retain, Retained, CanRetain, CanReclaim, OwnsBack, Owing,
       Owing, CanFence, Cleaning, Phase
  <2>a. back' # back => back.bout \in {0, b} /\ back'.bout \in {0, b}
    BY <1>2, OfRest DEF Abandon, Retain, Retained, CanRetain, CanReclaim, OwnsBack, Owing,
       Owing, CanFence, Cleaning, Row, Rings, Gone
  <2>6. BoutFits(b, w, lane[b], job[b])'
    BY <1>2, <2>1, <2>h, <2>x, <1>o, <2>f, <2>s, <2>9 DEF Abandon, Retain, Retained,
       CanRetain, CanReclaim, OwnsBack, Owing, Owing, CanFence, Cleaning, CardFits, Ends,
              Attends, LanesFit, BoutFits, Quiet, Terminal, Row
  <2>b. Adopts(b, w)
    BY <1>2, <2>1, <2>h, <2>x, <1>o DEF Abandon, Retain, Retained, CanRetain, CanReclaim,
       OwnsBack, Owing, Owing, CanFence, Cleaning, CardFits, Attends, Adopts, Card
  <2>7. Lapsed(b) => back'.bout # b \/ (w.state \in Terminal /\ w.run # "readback")
    BY <1>2, <2>1, <2>h, <2>x, <1>o DEF Abandon, Retain, Retained, CanRetain, CanReclaim,
       OwnsBack, Owing, Owing, CanFence, Cleaning, CardFits, Ends, Attends, Lapsed, Card,
              Terminal, Row
  <2>8. /\ card' = [card EXCEPT ![b] = w]
        /\ lane' = [lane EXCEPT ![b] = lane[b]] /\ job' = [job EXCEPT ![b] = job[b]]
    BY <1>2, <2>1, <2>h, <2>x, <1>o DEF Abandon, Retain, Retained, CanRetain, CanReclaim,
       OwnsBack, Owing, Owing, CanFence, Cleaning, Put
  <2> QED BY <2>2, <2>3, <2>4, <2>5, <2>6, <2>7, <2>8, <2>9, <2>e, <2>a, <2>s, <2>b, <2>l,
         <1>o, OneRow DEF CardFits
<1> QED BY <1>1, <1>2 DEF Abandon

(* The bell, rung or refused.                                               *)
LEMMA BellKeeps ==
  ASSUME SpikeInv, NEW b \in 1..bouts, Bell(b) \/ BellRefused(b) \/ BellLapses(b)
  PROVE SpikeInv'
<1>b. b \in Bouts
  BY OfRest
<1>c. card[b] \in Card
  BY <1>b, OfBout
<1>z. 0 \in 0..MaxBout /\ slot.claim \in 0..MaxBout /\ slot.claim <= bouts
  BY BoundsAssumption DEF SpikeInv, SpikeTypeOK
<1>o. /\ card[b] \in Card /\ lane[b] \in [Lanes -> LaneAt] /\ job[b] \in [Lanes -> JobAt]
      /\ card = [card EXCEPT ![b] = card[b]]
      /\ lane = [lane EXCEPT ![b] = lane[b]] /\ job = [job EXCEPT ![b] = job[b]]
      /\ CardFits(card[b], lane[b])
      /\ BoutFits(b, card[b], lane[b], job[b]) /\ Adopts(b, card[b])
      /\ bouts \in Nat /\ b \in Nat /\ b # 0 /\ slot.claim \in Nat
  BY <1>b, OfBout
<1> USE <1>b
<1>1. CASE Bell(b)
  <2>1. PICK w : w = [card[b] EXCEPT !.state = "RUNNING", !.ring = "run_committed",
                            !.clean = "run_committed", !.open = TRUE, !.run = "setup"]
    OBVIOUS
  <2>h. card[b].home # None
    BY <1>1, <1>o DEF Bell, CanRing, OwnsBack, CardFits, Lives, Card
  <2>v. PICK v : v = [l \in Lanes |-> "setup"]
    OBVIOUS
  <2>t. v \in [Lanes -> LaneAt]
    BY <2>v, <1>o DEF LaneAt, Lanes
  <2>j. PICK j : j = [job[b] EXCEPT ![Lakebase] = "released"]
    OBVIOUS
  <2>u. j \in [Lanes -> JobAt]
    BY <2>j, <1>o DEF JobAt, Lanes
  <2>l. Lives(w)
    BY <2>h, <2>1, <1>o DEF Lives, Card
  <2>2. w \in Card
    BY <2>1, <1>c, <1>z, ZenonT(60) DEF Card, Phase
  <2>e. w.home = card[b].home /\ w.passed = card[b].passed
    BY <2>1, <1>c DEF Card
  <2>3. Ends(w)
    BY <1>1, <2>1, <2>h, <1>o, <2>v, <2>j DEF Bell, CanRing, OwnsBack, CardFits, Ends,
       LanesFit, Card, Terminal
  <2>4. Attends(w)
    BY <1>1, <2>1, <2>h, <1>o, <2>v, <2>j DEF Bell, CanRing, OwnsBack, CardFits, Ends,
       Attends, Card, Terminal
  <2>5. LanesFit(w, v)
    BY <1>1, <2>1, <2>h, <1>o, <2>v, <2>j DEF Bell, CanRing, OwnsBack, CardFits, Ends,
       Attends, LanesFit, Card, Terminal
  <2>s. slot.claim = b /\ slot' = [slot EXCEPT !.state = "running"]
    BY <1>1, OfRest DEF Bell, CanRing, OwnsBack
  <2>9. /\ UNCHANGED <<leader, bouts>> /\ faults' \in 0..MaxFaults
        /\ main' \in Rings /\ back' \in Rings
    BY <1>1, OfRest DEF Bell, CanRing, OwnsBack, Phase
  <2>a. back' # back => back.bout \in {0, b} /\ back'.bout \in {0, b}
    BY <1>1, OfRest DEF Bell, CanRing, OwnsBack, Row, Rings, Gone
  <2>6. BoutFits(b, w, v, j)'
    BY <1>1, <2>1, <2>h, <1>o, <2>v, <2>j, <2>s, <2>9 DEF Bell, CanRing, OwnsBack, CardFits,
       Ends, Attends, LanesFit, BoutFits, Quiet, Card, Terminal, Row
  <2>b. Adopts(b, w)
    BY <1>1, <2>1, <2>h, <1>o, <2>v, <2>j DEF Bell, CanRing, OwnsBack, CardFits, Attends,
       Adopts, Card
  <2>7. Lapsed(b) => back'.bout # b \/ (w.state \in Terminal /\ w.run # "readback")
    BY <1>1, <2>1, <2>h, <1>o, <2>v, <2>j DEF Bell, CanRing, OwnsBack, CardFits, Ends,
       Attends, Lapsed, Card, Terminal, Row
  <2>8. /\ card' = [card EXCEPT ![b] = w]
        /\ lane' = [lane EXCEPT ![b] = v] /\ job' = [job EXCEPT ![b] = j]
    BY <1>1, <2>1, <2>h, <1>o, <2>v, <2>j DEF Bell, CanRing, OwnsBack, Put
  <2> QED BY <2>t, <2>u, <2>2, <2>3, <2>4, <2>5, <2>6, <2>7, <2>8, <2>9, <2>e, <2>a, <2>s,
         <2>b, <2>l, <1>o, OneRow DEF CardFits
<1>2. CASE BellRefused(b) /\ ~CanFence(b, b)
  <2>x. PICK x : x = IF CanRetain(b) \/ (FALSE /\ CanReclaim(b)) THEN "round5_cleanup" ELSE "none"
    OBVIOUS
  <2>y. x \in Phase
    BY <2>x, <1>c DEF Card, Phase
  <2>1. PICK w : w = Owing([card[b] EXCEPT !.state = "FAILED", !.clean = x])
    OBVIOUS
  <2>h. card[b].home # None
    BY <1>2, <1>o DEF BellRefused, Retain, Retained, CanRetain, CanReclaim, OwnsBack, Owing,
       Owing, CardFits, Lives, Card
  <2>l. Lives(w)
    BY <2>h, <2>1, <1>o DEF Lives, Card, Owing
  <2>2. w \in Card
    BY <2>1, <2>y, <1>c, <1>z DEF Card, Owing
  <2>e. w.home = card[b].home /\ w.passed = card[b].passed
    BY <2>1, <1>c DEF Card, Owing
  <2>3. Ends(w)
    BY <1>2, <2>1, <2>h, <2>x, <1>o DEF BellRefused, Retain, Retained, CanRetain,
       CanReclaim, OwnsBack, Owing, Owing, CardFits, Ends, Card, Terminal
  <2>4. Attends(w)
    BY <1>2, <2>1, <2>h, <2>x, <1>o DEF BellRefused, Retain, Retained, CanRetain,
       CanReclaim, OwnsBack, Owing, Owing, CardFits, Ends, Attends, Card, Terminal
  <2>5. LanesFit(w, lane[b])
    BY <1>2, <2>1, <2>h, <2>x, <1>o DEF BellRefused, Retain, Retained, CanRetain,
       CanReclaim, OwnsBack, Owing, Owing, CardFits, Ends, Attends, LanesFit, Card, Terminal
  <2>f. /\ w.clean = x /\ w.state = "FAILED" /\ w.run = card[b].run /\ w.home = card[b].home
        /\ w.held = card[b].held
        /\ w.work = card[b].work /\ w.late = card[b].late /\ w.passed = card[b].passed
    BY <2>1, <1>c DEF Card, Owing
  <2>s. slot' = slot
    BY <1>2, OfRest DEF BellRefused, Retain, Retained, CanRetain, CanReclaim, OwnsBack,
       Owing, Owing
  <2>9. /\ UNCHANGED <<leader, bouts>> /\ faults' \in 0..MaxFaults
        /\ main' \in Rings /\ back' \in Rings
    BY <1>2, OfRest DEF BellRefused, Retain, Retained, CanRetain, CanReclaim, OwnsBack,
       Owing, Owing, Phase
  <2>a. back' # back => back.bout \in {0, b} /\ back'.bout \in {0, b}
    BY <1>2, OfRest DEF BellRefused, Retain, Retained, CanRetain, CanReclaim, OwnsBack,
       Owing, Owing, Row, Rings, Gone
  <2>6. BoutFits(b, w, lane[b], job[b])'
    BY <1>2, <2>1, <2>h, <2>x, <1>o, <2>f, <2>s, <2>9 DEF BellRefused, Retain, Retained,
       CanRetain, CanReclaim, OwnsBack, Owing, Owing, CardFits, Ends, Attends, LanesFit,
              BoutFits, Quiet, Terminal, Row
  <2>b. Adopts(b, w)
    BY <1>2, <2>1, <2>h, <2>x, <1>o DEF BellRefused, Retain, Retained, CanRetain,
       CanReclaim, OwnsBack, Owing, Owing, CardFits, Attends, Adopts, Card
  <2>7. Lapsed(b) => back'.bout # b \/ (w.state \in Terminal /\ w.run # "readback")
    BY <1>2, <2>1, <2>h, <2>x, <1>o DEF BellRefused, Retain, Retained, CanRetain,
       CanReclaim, OwnsBack, Owing, Owing, CardFits, Ends, Attends, Lapsed, Card, Terminal,
              Row
  <2>8. /\ card' = [card EXCEPT ![b] = w]
        /\ lane' = [lane EXCEPT ![b] = lane[b]] /\ job' = [job EXCEPT ![b] = job[b]]
    BY <1>2, <2>1, <2>h, <2>x, <1>o DEF BellRefused, Retain, Retained, CanRetain,
       CanReclaim, OwnsBack, Owing, Owing, Put
  <2> QED BY <2>2, <2>3, <2>4, <2>5, <2>6, <2>7, <2>8, <2>9, <2>e, <2>a, <2>s, <2>b, <2>l,
         <1>o, OneRow DEF CardFits
<1>3. CASE BellRefused(b) /\ CanFence(b, b)
  <2>x. PICK x : x = IF CanRetain(b) \/ (FALSE /\ CanReclaim(b)) THEN "round5_cleanup" ELSE "none"
    OBVIOUS
  <2>y. x \in Phase
    BY <2>x, <1>c DEF Card, Phase
  <2>1. PICK w : w = Owing([card[b] EXCEPT !.state = "FAILED", !.clean = x])
    OBVIOUS
  <2>h. card[b].home # None
    BY <1>3, <1>o DEF BellRefused, Retain, Retained, CanRetain, CanReclaim, OwnsBack, Owing,
       Owing, CanFence, Cleaning, CardFits, Lives, Card
  <2>l. Lives(w)
    BY <2>h, <2>1, <1>o DEF Lives, Card, Owing
  <2>2. w \in Card
    BY <2>1, <2>y, <1>c, <1>z DEF Card, Owing
  <2>e. w.home = card[b].home /\ w.passed = card[b].passed
    BY <2>1, <1>c DEF Card, Owing
  <2>3. Ends(w)
    BY <1>3, <2>1, <2>h, <2>x, <1>o DEF BellRefused, Retain, Retained, CanRetain,
       CanReclaim, OwnsBack, Owing, Owing, CanFence, Cleaning, CardFits, Ends, Card,
              Terminal
  <2>4. Attends(w)
    BY <1>3, <2>1, <2>h, <2>x, <1>o DEF BellRefused, Retain, Retained, CanRetain,
       CanReclaim, OwnsBack, Owing, Owing, CanFence, Cleaning, CardFits, Ends, Attends,
              Card, Terminal
  <2>5. LanesFit(w, lane[b])
    BY <1>3, <2>1, <2>h, <2>x, <1>o DEF BellRefused, Retain, Retained, CanRetain,
       CanReclaim, OwnsBack, Owing, Owing, CanFence, Cleaning, CardFits, Ends, Attends,
              LanesFit, Card, Terminal
  <2>f. /\ w.clean = x /\ w.state = "FAILED" /\ w.run = card[b].run /\ w.home = card[b].home
        /\ w.held = card[b].held
        /\ w.work = card[b].work /\ w.late = card[b].late /\ w.passed = card[b].passed
    BY <2>1, <1>c DEF Card, Owing
  <2>s. slot.claim = b /\ slot' = [slot EXCEPT !.state = "cleaning"]
    BY <1>3, OfRest DEF BellRefused, Retain, Retained, CanRetain, CanReclaim, OwnsBack,
       Owing, Owing, CanFence, Cleaning
  <2>9. /\ UNCHANGED <<leader, bouts>> /\ faults' \in 0..MaxFaults
        /\ main' \in Rings /\ back' \in Rings
    BY <1>3, OfRest DEF BellRefused, Retain, Retained, CanRetain, CanReclaim, OwnsBack,
       Owing, Owing, CanFence, Cleaning, Phase
  <2>a. back' # back => back.bout \in {0, b} /\ back'.bout \in {0, b}
    BY <1>3, OfRest DEF BellRefused, Retain, Retained, CanRetain, CanReclaim, OwnsBack,
       Owing, Owing, CanFence, Cleaning, Row, Rings, Gone
  <2>6. BoutFits(b, w, lane[b], job[b])'
    BY <1>3, <2>1, <2>h, <2>x, <1>o, <2>f, <2>s, <2>9 DEF BellRefused, Retain, Retained,
       CanRetain, CanReclaim, OwnsBack, Owing, Owing, CanFence, Cleaning, CardFits, Ends,
              Attends, LanesFit, BoutFits, Quiet, Terminal, Row
  <2>b. Adopts(b, w)
    BY <1>3, <2>1, <2>h, <2>x, <1>o DEF BellRefused, Retain, Retained, CanRetain,
       CanReclaim, OwnsBack, Owing, Owing, CanFence, Cleaning, CardFits, Attends, Adopts,
              Card
  <2>7. Lapsed(b) => back'.bout # b \/ (w.state \in Terminal /\ w.run # "readback")
    BY <1>3, <2>1, <2>h, <2>x, <1>o DEF BellRefused, Retain, Retained, CanRetain,
       CanReclaim, OwnsBack, Owing, Owing, CanFence, Cleaning, CardFits, Ends, Attends,
              Lapsed, Card, Terminal, Row
  <2>8. /\ card' = [card EXCEPT ![b] = w]
        /\ lane' = [lane EXCEPT ![b] = lane[b]] /\ job' = [job EXCEPT ![b] = job[b]]
    BY <1>3, <2>1, <2>h, <2>x, <1>o DEF BellRefused, Retain, Retained, CanRetain,
       CanReclaim, OwnsBack, Owing, Owing, CanFence, Cleaning, Put
  <2> QED BY <2>2, <2>3, <2>4, <2>5, <2>6, <2>7, <2>8, <2>9, <2>e, <2>a, <2>s, <2>b, <2>l,
         <1>o, OneRow DEF CardFits
<1>4. CASE BellLapses(b)
  <2>1. PICK w : w = Owing([card[b] EXCEPT !.state = "FAILED", !.ring = "run_committed",
                                  !.clean = "round5_cleanup"])
    OBVIOUS
  <2>h. card[b].home # None
    BY <1>4, <1>o DEF BellLapses, CanRing, OwnsBack, Cleaning, Owing, CardFits, Lives, Card
  <2>j. PICK j : j = [job[b] EXCEPT ![Lakebase] = "released"]
    OBVIOUS
  <2>u. j \in [Lanes -> JobAt]
    BY <2>j, <1>o DEF JobAt, Lanes
  <2>l. Lives(w)
    BY <2>h, <2>1, <1>o DEF Lives, Card, Owing
  <2>2. w \in Card
    BY <2>1, <1>c, <1>z, ZenonT(60) DEF Card, Phase, Owing
  <2>e. w.home = card[b].home /\ w.passed = card[b].passed
    BY <2>1, <1>c DEF Card, Owing
  <2>3. Ends(w)
    BY <1>4, <2>1, <2>h, <1>o, <2>j DEF BellLapses, CanRing, OwnsBack, Cleaning, Owing,
       CardFits, Ends, Card, Terminal
  <2>4. Attends(w)
    BY <1>4, <2>1, <2>h, <1>o, <2>j DEF BellLapses, CanRing, OwnsBack, Cleaning, Owing,
       CardFits, Ends, Attends, Card, Terminal
  <2>5. LanesFit(w, lane[b])
    BY <1>4, <2>1, <2>h, <1>o, <2>j DEF BellLapses, CanRing, OwnsBack, Cleaning, Owing,
       CardFits, Ends, Attends, LanesFit, Card, Terminal
  <2>s. slot.claim = b /\ slot' = [slot EXCEPT !.state = "cleaning"]
    BY <1>4, OfRest DEF BellLapses, CanRing, OwnsBack, Cleaning, Owing
  <2>9. /\ UNCHANGED <<leader, bouts>> /\ faults' \in 0..MaxFaults
        /\ main' \in Rings /\ back' \in Rings
    BY <1>4, OfRest DEF BellLapses, CanRing, OwnsBack, Cleaning, Owing, Phase
  <2>a. back' # back => back.bout \in {0, b} /\ back'.bout \in {0, b}
    BY <1>4, OfRest DEF BellLapses, CanRing, OwnsBack, Cleaning, Owing, Row, Rings, Gone
  <2>6. BoutFits(b, w, lane[b], j)'
    BY <1>4, <2>1, <2>h, <1>o, <2>j, <2>s, <2>9 DEF BellLapses, CanRing, OwnsBack, Cleaning,
       Owing, CardFits, Ends, Attends, LanesFit, BoutFits, Quiet, Card, Terminal, Row
  <2>b. Adopts(b, w)
    BY <1>4, <2>1, <2>h, <1>o, <2>j DEF BellLapses, CanRing, OwnsBack, Cleaning, Owing,
       CardFits, Attends, Adopts, Card
  <2>7. Lapsed(b) => back'.bout # b \/ (w.state \in Terminal /\ w.run # "readback")
    BY <1>4, <2>1, <2>h, <1>o, <2>j DEF BellLapses, CanRing, OwnsBack, Cleaning, Owing,
       CardFits, Ends, Attends, Lapsed, Card, Terminal, Row
  <2>8. /\ card' = [card EXCEPT ![b] = w]
        /\ lane' = [lane EXCEPT ![b] = lane[b]] /\ job' = [job EXCEPT ![b] = j]
    BY <1>4, <2>1, <2>h, <1>o, <2>j DEF BellLapses, CanRing, OwnsBack, Cleaning, Owing, Put
  <2> QED BY <2>u, <2>2, <2>3, <2>4, <2>5, <2>6, <2>7, <2>8, <2>9, <2>e, <2>a, <2>s, <2>b,
         <2>l, <1>o, OneRow DEF CardFits
<1> QED BY <1>1, <1>2, <1>3, <1>4

(* The lanes.                                                               *)
LEMMA LanesKeep ==
  ASSUME SpikeInv, NEW b \in 1..bouts, NEW l \in Lanes,
         Stages(b) \/ Dispatches(b, l) \/ LaneProves(b, l) \/ LaneMisses(b, l) \/ LaneRaises(b, l)
  PROVE SpikeInv'
<1>b. b \in Bouts
  BY OfRest
<1>c. card[b] \in Card
  BY <1>b, OfBout
<1>z. 0 \in 0..MaxBout /\ slot.claim \in 0..MaxBout /\ slot.claim <= bouts
  BY BoundsAssumption DEF SpikeInv, SpikeTypeOK
<1>o. /\ card[b] \in Card /\ lane[b] \in [Lanes -> LaneAt] /\ job[b] \in [Lanes -> JobAt]
      /\ card = [card EXCEPT ![b] = card[b]]
      /\ lane = [lane EXCEPT ![b] = lane[b]] /\ job = [job EXCEPT ![b] = job[b]]
      /\ CardFits(card[b], lane[b])
      /\ BoutFits(b, card[b], lane[b], job[b]) /\ Adopts(b, card[b])
      /\ bouts \in Nat /\ b \in Nat /\ b # 0 /\ slot.claim \in Nat
  BY <1>b, OfBout
<1> USE <1>b
<1>1. CASE Stages(b)
  <2>1. PICK w : w = card[b]
    OBVIOUS
  <2>h. card[b].home # None
    BY <1>1, <1>o DEF Stages, Lanes, CardFits, Lives, LanesFit, Card
  <2>j. PICK j : j = [job[b] EXCEPT ![Competitor] = "staged"]
    OBVIOUS
  <2>u. j \in [Lanes -> JobAt]
    BY <2>j, <1>o DEF JobAt, Lanes
  <2>l. Lives(w)
    BY <2>h, <2>1, <1>o DEF Lives, Card
  <2>2. w \in Card
    BY <2>1, <1>c, <1>z DEF Card, Phase
  <2>e. w.home = card[b].home /\ w.passed = card[b].passed
    BY <2>1, <1>c DEF Card
  <2>3. Ends(w)
    BY <1>1, <2>1, <2>h, <1>o, <2>j DEF Stages, Lanes, CardFits, Ends, Card, Terminal
  <2>4. Attends(w)
    BY <1>1, <2>1, <2>h, <1>o, <2>j DEF Stages, Lanes, CardFits, Ends, Attends, Card,
       Terminal
  <2>5. LanesFit(w, lane[b])
    BY <1>1, <2>1, <2>h, <1>o, <2>j DEF Stages, Lanes, CardFits, Ends, Attends, LanesFit,
       Card, Terminal
  <2>6. BoutFits(b, w, lane[b], j) /\ Adopts(b, w)
    BY <1>1, <2>1, <2>h, <1>o, <2>j DEF Stages, Lanes, CardFits, Ends, Attends, LanesFit,
       BoutFits, Adopts, Quiet, Card, Terminal
  <2>7. Lapsed(b) => back.bout # b \/ (w.state \in Terminal /\ w.run # "readback")
    BY <1>1, <2>1, <2>h, <1>o, <2>j DEF Stages, Lanes, CardFits, Ends, Attends, Lapsed,
       Card, Terminal
  <2>9. UNCHANGED <<slot, leader, bouts, back>> /\ faults' \in 0..MaxFaults /\ main' \in Rings
    BY <1>1, OfRest DEF Stages, Lanes, Phase
  <2>8. /\ card' = [card EXCEPT ![b] = w]
        /\ lane' = [lane EXCEPT ![b] = lane[b]] /\ job' = [job EXCEPT ![b] = j]
    BY <1>1, <2>1, <2>h, <1>o, <2>j DEF Stages, Lanes, Put
  <2> QED BY <2>u, <2>2, <2>3, <2>4, <2>5, <2>6, <2>7, <2>8, <2>9, <2>e, <2>l, <1>o,
         OneCard DEF CardFits
<1>2. CASE Dispatches(b, l)
  <2>1. PICK w : w = card[b]
    OBVIOUS
  <2>h. card[b].home # None
    BY <1>2, <1>o DEF Dispatches, CardFits, Lives, LanesFit, Card
  <2>v. PICK v : v = [lane[b] EXCEPT ![l] = "burst"]
    OBVIOUS
  <2>t. v \in [Lanes -> LaneAt]
    BY <2>v, <1>o DEF LaneAt, Lanes
  <2>j. PICK j : j = IF l = Competitor THEN [job[b] EXCEPT ![l] = "released"] ELSE job[b]
    OBVIOUS
  <2>u. j \in [Lanes -> JobAt]
    BY <2>j, <1>o DEF JobAt, Lanes
  <2>l. Lives(w)
    BY <2>h, <2>1, <1>o DEF Lives, Card
  <2>2. w \in Card
    BY <2>1, <1>c, <1>z DEF Card, Phase
  <2>e. w.home = card[b].home /\ w.passed = card[b].passed
    BY <2>1, <1>c DEF Card
  <2>3. Ends(w)
    BY <1>2, <2>1, <2>h, <1>o, <2>v, <2>j DEF Dispatches, CardFits, Ends, LanesFit, Card,
       Terminal
  <2>4. Attends(w)
    BY <1>2, <2>1, <2>h, <1>o, <2>v, <2>j DEF Dispatches, CardFits, Ends, Attends, Card,
       Terminal
  <2>5. LanesFit(w, v)
    BY <1>2, <2>1, <2>h, <1>o, <2>v, <2>j DEF Dispatches, CardFits, Ends, Attends, LanesFit,
       Card, Terminal
  <2>6. BoutFits(b, w, v, j) /\ Adopts(b, w)
    BY <1>2, <2>1, <2>h, <1>o, <2>v, <2>j DEF Dispatches, CardFits, Ends, Attends, LanesFit,
       BoutFits, Adopts, Quiet, Card, Terminal
  <2>7. Lapsed(b) => back.bout # b \/ (w.state \in Terminal /\ w.run # "readback")
    BY <1>2, <2>1, <2>h, <1>o, <2>v, <2>j DEF Dispatches, CardFits, Ends, Attends, Lapsed,
       Card, Terminal
  <2>9. UNCHANGED <<slot, leader, bouts, back>> /\ faults' \in 0..MaxFaults /\ main' \in Rings
    BY <1>2, OfRest DEF Dispatches, Phase
  <2>8. /\ card' = [card EXCEPT ![b] = w]
        /\ lane' = [lane EXCEPT ![b] = v] /\ job' = [job EXCEPT ![b] = j]
    BY <1>2, <2>1, <2>h, <1>o, <2>v, <2>j DEF Dispatches, Put
  <2> QED BY <2>t, <2>u, <2>2, <2>3, <2>4, <2>5, <2>6, <2>7, <2>8, <2>9, <2>e, <2>l, <1>o,
         OneCard DEF CardFits
<1>3. CASE LaneProves(b, l)
  <2>1. PICK w : w = card[b]
    OBVIOUS
  <2>h. card[b].home # None
    BY <1>3, <1>o DEF LaneProves, CardFits, Lives, LanesFit, Card
  <2>v. PICK v : v = [lane[b] EXCEPT ![l] = "valid"]
    OBVIOUS
  <2>t. v \in [Lanes -> LaneAt]
    BY <2>v, <1>o DEF LaneAt, Lanes
  <2>l. Lives(w)
    BY <2>h, <2>1, <1>o DEF Lives, Card
  <2>2. w \in Card
    BY <2>1, <1>c, <1>z DEF Card, Phase
  <2>e. w.home = card[b].home /\ w.passed = card[b].passed
    BY <2>1, <1>c DEF Card
  <2>3. Ends(w)
    BY <1>3, <2>1, <2>h, <1>o, <2>v DEF LaneProves, CardFits, Ends, LanesFit, Card, Terminal
  <2>4. Attends(w)
    BY <1>3, <2>1, <2>h, <1>o, <2>v DEF LaneProves, CardFits, Ends, Attends, Card, Terminal
  <2>5. LanesFit(w, v)
    BY <1>3, <2>1, <2>h, <1>o, <2>v DEF LaneProves, CardFits, Ends, Attends, LanesFit, Card,
       Terminal
  <2>6. BoutFits(b, w, v, job[b]) /\ Adopts(b, w)
    BY <1>3, <2>1, <2>h, <1>o, <2>v DEF LaneProves, CardFits, Ends, Attends, LanesFit,
       BoutFits, Adopts, Quiet, Card, Terminal
  <2>7. Lapsed(b) => back.bout # b \/ (w.state \in Terminal /\ w.run # "readback")
    BY <1>3, <2>1, <2>h, <1>o, <2>v DEF LaneProves, CardFits, Ends, Attends, Lapsed, Card,
       Terminal
  <2>9. UNCHANGED <<slot, leader, bouts, back>> /\ faults' \in 0..MaxFaults /\ main' \in Rings
    BY <1>3, OfRest DEF LaneProves, Phase
  <2>8. /\ card' = [card EXCEPT ![b] = w]
        /\ lane' = [lane EXCEPT ![b] = v] /\ job' = [job EXCEPT ![b] = job[b]]
    BY <1>3, <2>1, <2>h, <1>o, <2>v DEF LaneProves, Put
  <2> QED BY <2>t, <2>2, <2>3, <2>4, <2>5, <2>6, <2>7, <2>8, <2>9, <2>e, <2>l, <1>o,
         OneCard DEF CardFits
<1>4. CASE LaneMisses(b, l)
  <2>1. PICK w : w = [card[b] EXCEPT !.open = FALSE]
    OBVIOUS
  <2>h. card[b].home # None
    BY <1>4, <1>o DEF LaneMisses, Unlocked, CardFits, Lives, LanesFit, Card
  <2>v. PICK v : v = [lane[b] EXCEPT ![l] = IF card[b].open THEN "invalid" ELSE "bad"]
    OBVIOUS
  <2>t. v \in [Lanes -> LaneAt]
    BY <2>v, <1>o DEF LaneAt, Lanes
  <2>l. Lives(w)
    BY <2>h, <2>1, <1>o DEF Lives, Card
  <2>2. w \in Card
    BY <2>1, <1>c, <1>z, ZenonT(60) DEF Card, Phase
  <2>e. w.home = card[b].home /\ w.passed = card[b].passed
    BY <2>1, <1>c DEF Card
  <2>3. Ends(w)
    BY <1>4, <2>1, <2>h, <1>o, <2>v DEF LaneMisses, Unlocked, CardFits, Ends, LanesFit,
       Card, Terminal
  <2>4. Attends(w)
    BY <1>4, <2>1, <2>h, <1>o, <2>v DEF LaneMisses, Unlocked, CardFits, Ends, Attends, Card,
       Terminal
  <2>5. LanesFit(w, v)
    BY <1>4, <2>1, <2>h, <1>o, <2>v DEF LaneMisses, Unlocked, CardFits, Ends, Attends,
       LanesFit, Card, Terminal
  <2>6. BoutFits(b, w, v, job[b]) /\ Adopts(b, w)
    BY <1>4, <2>1, <2>h, <1>o, <2>v DEF LaneMisses, Unlocked, CardFits, Ends, Attends,
       LanesFit, BoutFits, Adopts, Quiet, Card, Terminal
  <2>7. Lapsed(b) => back.bout # b \/ (w.state \in Terminal /\ w.run # "readback")
    BY <1>4, <2>1, <2>h, <1>o, <2>v DEF LaneMisses, Unlocked, CardFits, Ends, Attends,
       Lapsed, Card, Terminal
  <2>9. UNCHANGED <<slot, leader, bouts, back>> /\ faults' \in 0..MaxFaults /\ main' \in Rings
    BY <1>4, OfRest DEF LaneMisses, Unlocked, Phase
  <2>8. /\ card' = [card EXCEPT ![b] = w]
        /\ lane' = [lane EXCEPT ![b] = v] /\ job' = [job EXCEPT ![b] = job[b]]
    BY <1>4, <2>1, <2>h, <1>o, <2>v DEF LaneMisses, Unlocked, Put
  <2> QED BY <2>t, <2>2, <2>3, <2>4, <2>5, <2>6, <2>7, <2>8, <2>9, <2>e, <2>l, <1>o,
         OneCard DEF CardFits
<1>5. CASE LaneRaises(b, l)
  <2>1. PICK w : w = [card[b] EXCEPT !.run = IF @ \in {"setup", "burst"} THEN "failing" ELSE @]
    OBVIOUS
  <2>h. card[b].home # None
    BY <1>5, <1>o DEF LaneRaises, CardFits, Lives, LanesFit, Card
  <2>v. PICK v : v = [m \in Lanes |->
       IF m = l \/ lane[b][m] \in {"setup", "burst"} THEN "idle" ELSE lane[b][m]]
    OBVIOUS
  <2>t. v \in [Lanes -> LaneAt]
    BY <2>v, <1>o DEF LaneAt, Lanes
  <2>l. Lives(w)
    BY <2>h, <2>1, <1>o DEF Lives, Card
  <2>2. w \in Card
    BY <2>1, <1>c, <1>z DEF Card, Phase
  <2>e. w.home = card[b].home /\ w.passed = card[b].passed
    BY <2>1, <1>c DEF Card
  <2>3. Ends(w)
    BY <1>5, <2>1, <2>h, <1>o, <2>v DEF LaneRaises, CardFits, Ends, LanesFit, Card, Terminal
  <2>4. Attends(w)
    BY <1>5, <2>1, <2>h, <1>o, <2>v DEF LaneRaises, CardFits, Ends, Attends, Card, Terminal
  <2>5. LanesFit(w, v)
    BY <1>5, <2>1, <2>h, <1>o, <2>v DEF LaneRaises, CardFits, Ends, Attends, LanesFit, Card,
       Terminal
  <2>6. BoutFits(b, w, v, job[b]) /\ Adopts(b, w)
    BY <1>5, <2>1, <2>h, <1>o, <2>v DEF LaneRaises, CardFits, Ends, Attends, LanesFit,
       BoutFits, Adopts, Quiet, Card, Terminal
  <2>7. Lapsed(b) => back.bout # b \/ (w.state \in Terminal /\ w.run # "readback")
    BY <1>5, <2>1, <2>h, <1>o, <2>v DEF LaneRaises, CardFits, Ends, Attends, Lapsed, Card,
       Terminal
  <2>9. UNCHANGED <<slot, leader, bouts, back>> /\ faults' \in 0..MaxFaults /\ main' \in Rings
    BY <1>5, OfRest DEF LaneRaises, Phase
  <2>8. /\ card' = [card EXCEPT ![b] = w]
        /\ lane' = [lane EXCEPT ![b] = v] /\ job' = [job EXCEPT ![b] = job[b]]
    BY <1>5, <2>1, <2>h, <1>o, <2>v DEF LaneRaises, Put
  <2> QED BY <2>t, <2>2, <2>3, <2>4, <2>5, <2>6, <2>7, <2>8, <2>9, <2>e, <2>l, <1>o,
         OneCard DEF CardFits
<1> QED BY <1>1, <1>2, <1>3, <1>4, <1>5

(* The run, its verdict and the towel.                                      *)
LEMMA RunKeeps ==
  ASSUME SpikeInv, NEW b \in 1..bouts, Run(b) \/ CommitBreaks(b) \/ Towel(b)
  PROVE SpikeInv'
<1>b. b \in Bouts
  BY OfRest
<1>c. card[b] \in Card
  BY <1>b, OfBout
<1>z. 0 \in 0..MaxBout /\ slot.claim \in 0..MaxBout /\ slot.claim <= bouts
  BY BoundsAssumption DEF SpikeInv, SpikeTypeOK
<1>o. /\ card[b] \in Card /\ lane[b] \in [Lanes -> LaneAt] /\ job[b] \in [Lanes -> JobAt]
      /\ card = [card EXCEPT ![b] = card[b]]
      /\ lane = [lane EXCEPT ![b] = lane[b]] /\ job = [job EXCEPT ![b] = job[b]]
      /\ CardFits(card[b], lane[b])
      /\ BoutFits(b, card[b], lane[b], job[b]) /\ Adopts(b, card[b])
      /\ bouts \in Nat /\ b \in Nat /\ b # 0 /\ slot.claim \in Nat
  BY <1>b, OfBout
<1> USE <1>b
<1>1. CASE SetupEnds(b)
  <2>1. PICK w : w = [card[b] EXCEPT !.run = IF card[b].open THEN "burst" ELSE "none"]
    OBVIOUS
  <2>h. card[b].home # None
    BY <1>1, <1>o DEF SetupEnds, CardFits, Lives, Card
  <2>l. Lives(w)
    BY <2>h, <2>1, <1>o DEF Lives, Card
  <2>2. w \in Card
    BY <2>1, <1>c, <1>z DEF Card, Phase
  <2>e. w.home = card[b].home /\ w.passed = card[b].passed
    BY <2>1, <1>c DEF Card
  <2>3. Ends(w)
    BY <1>1, <2>1, <2>h, <1>o DEF SetupEnds, CardFits, Ends, Card, Terminal
  <2>4. Attends(w)
    BY <1>1, <2>1, <2>h, <1>o DEF SetupEnds, CardFits, Ends, Attends, Card, Terminal
  <2>5. LanesFit(w, lane[b])
    BY <1>1, <2>1, <2>h, <1>o DEF SetupEnds, CardFits, Ends, Attends, LanesFit, Card,
       Terminal
  <2>6. BoutFits(b, w, lane[b], job[b]) /\ Adopts(b, w)
    BY <1>1, <2>1, <2>h, <1>o DEF SetupEnds, CardFits, Ends, Attends, LanesFit, BoutFits,
       Adopts, Quiet, Card, Terminal
  <2>7. Lapsed(b) => back.bout # b \/ (w.state \in Terminal /\ w.run # "readback")
    BY <1>1, <2>1, <2>h, <1>o DEF SetupEnds, CardFits, Ends, Attends, Lapsed, Card, Terminal
  <2>9. UNCHANGED <<slot, leader, bouts, back>> /\ faults' \in 0..MaxFaults /\ main' \in Rings
    BY <1>1, OfRest DEF SetupEnds, Phase
  <2>8. /\ card' = [card EXCEPT ![b] = w]
        /\ lane' = [lane EXCEPT ![b] = lane[b]] /\ job' = [job EXCEPT ![b] = job[b]]
    BY <1>1, <2>1, <2>h, <1>o DEF SetupEnds, Put
  <2> QED BY <2>2, <2>3, <2>4, <2>5, <2>6, <2>7, <2>8, <2>9, <2>e, <2>l, <1>o,
         OneCard DEF CardFits
<1>2. CASE BurstEnds(b) /\ card[b].sealed
  <2>1. PICK w : w = [card[b] EXCEPT !.run = "none"]
    OBVIOUS
  <2>h. card[b].home # None
    BY <1>2, <1>o DEF BurstEnds, CardFits, Lives, Card
  <2>l. Lives(w)
    BY <2>h, <2>1, <1>o DEF Lives, Card
  <2>2. w \in Card
    BY <2>1, <1>c, <1>z DEF Card, Phase
  <2>e. w.home = card[b].home /\ w.passed = card[b].passed
    BY <2>1, <1>c DEF Card
  <2>3. Ends(w)
    BY <1>2, <2>1, <2>h, <1>o DEF BurstEnds, CardFits, Ends, Card, Terminal
  <2>4. Attends(w)
    BY <1>2, <2>1, <2>h, <1>o DEF BurstEnds, CardFits, Ends, Attends, Card, Terminal
  <2>5. LanesFit(w, lane[b])
    BY <1>2, <2>1, <2>h, <1>o DEF BurstEnds, CardFits, Ends, Attends, LanesFit, Card,
       Terminal
  <2>6. BoutFits(b, w, lane[b], job[b]) /\ Adopts(b, w)
    BY <1>2, <2>1, <2>h, <1>o DEF BurstEnds, CardFits, Ends, Attends, LanesFit, BoutFits,
       Adopts, Quiet, Card, Terminal
  <2>7. Lapsed(b) => back.bout # b \/ (w.state \in Terminal /\ w.run # "readback")
    BY <1>2, <2>1, <2>h, <1>o DEF BurstEnds, CardFits, Ends, Attends, Lapsed, Card, Terminal
  <2>9. UNCHANGED <<slot, leader, bouts, back>> /\ faults' \in 0..MaxFaults /\ main' \in Rings
    BY <1>2, OfRest DEF BurstEnds, Phase
  <2>8. /\ card' = [card EXCEPT ![b] = w]
        /\ lane' = [lane EXCEPT ![b] = lane[b]] /\ job' = [job EXCEPT ![b] = job[b]]
    BY <1>2, <2>1, <2>h, <1>o DEF BurstEnds, Put
  <2> QED BY <2>2, <2>3, <2>4, <2>5, <2>6, <2>7, <2>8, <2>9, <2>e, <2>l, <1>o,
         OneCard DEF CardFits
<1>3. CASE BurstEnds(b) /\ ~card[b].sealed
  <2>1. PICK w : w = [card[b] EXCEPT !.open = FALSE,
                           !.run = IF Authority(b) THEN "verdict" ELSE "failing"]
    OBVIOUS
  <2>h. card[b].home # None
    BY <1>3, <1>o DEF BurstEnds, CardFits, Lives, Card
  <2>l. Lives(w)
    BY <2>h, <2>1, <1>o DEF Lives, Card
  <2>2. w \in Card
    BY <2>1, <1>c, <1>z, ZenonT(60) DEF Card, Phase
  <2>e. w.home = card[b].home /\ w.passed = card[b].passed
    BY <2>1, <1>c DEF Card
  <2>3. Ends(w)
    BY <1>3, <2>1, <2>h, <1>o DEF BurstEnds, CardFits, Ends, Card, Terminal
  <2>4. Attends(w)
    BY <1>3, <2>1, <2>h, <1>o DEF BurstEnds, CardFits, Ends, Attends, Card, Terminal
  <2>5. LanesFit(w, lane[b])
    BY <1>3, <2>1, <2>h, <1>o DEF BurstEnds, CardFits, Ends, Attends, LanesFit, Card,
       Terminal
  <2>6. BoutFits(b, w, lane[b], job[b]) /\ Adopts(b, w)
    BY <1>3, <2>1, <2>h, <1>o DEF BurstEnds, CardFits, Ends, Attends, LanesFit, BoutFits,
       Adopts, Quiet, Card, Terminal
  <2>7. Lapsed(b) => back.bout # b \/ (w.state \in Terminal /\ w.run # "readback")
    BY <1>3, <2>1, <2>h, <1>o DEF BurstEnds, CardFits, Ends, Attends, Lapsed, Card, Terminal
  <2>9. UNCHANGED <<slot, leader, bouts, back>> /\ faults' \in 0..MaxFaults /\ main' \in Rings
    BY <1>3, OfRest DEF BurstEnds, Phase
  <2>8. /\ card' = [card EXCEPT ![b] = w]
        /\ lane' = [lane EXCEPT ![b] = lane[b]] /\ job' = [job EXCEPT ![b] = job[b]]
    BY <1>3, <2>1, <2>h, <1>o DEF BurstEnds, Put
  <2> QED BY <2>2, <2>3, <2>4, <2>5, <2>6, <2>7, <2>8, <2>9, <2>e, <2>l, <1>o,
         OneCard DEF CardFits
<1>4. CASE Commits(b)
  <2>k. PICK x \in Verdict(b) :
         Put(b, [card[b] EXCEPT !.state = x, !.ring = "cooldown", !.run = "readback"])
    BY <1>4 DEF Commits
  <2>q. x \in {"VERIFIED", "FAILED"}
    BY <2>k DEF Commits, Verdict
  <2>1. PICK w : w = [card[b] EXCEPT !.state = x, !.ring = "cooldown", !.run = "readback"]
    OBVIOUS
  <2>h. card[b].home # None
    BY <1>4, <1>o DEF Commits, Verdict, CardFits, Lives, Card
  <2>l. Lives(w)
    BY <2>h, <2>1, <1>o DEF Lives, Card
  <2>2. w \in Card
    BY <2>1, <2>q, <1>c, <1>z, ZenonT(60) DEF Card, Phase
  <2>e. w.home = card[b].home /\ w.passed = card[b].passed
    BY <2>1, <1>c DEF Card
  <2>3. Ends(w)
    BY <1>4, <2>1, <2>h, <2>k, <1>o DEF Commits, Verdict, CardFits, Ends, Card, Terminal
  <2>4. Attends(w)
    BY <1>4, <2>1, <2>h, <2>k, <1>o DEF Commits, Verdict, CardFits, Ends, Attends, Card,
       Terminal
  <2>5. LanesFit(w, lane[b])
    BY <1>4, <2>1, <2>h, <2>k, <1>o DEF Commits, Verdict, CardFits, Ends, Attends, LanesFit,
       Card, Terminal
  <2>6. BoutFits(b, w, lane[b], job[b]) /\ Adopts(b, w)
    BY <1>4, <2>1, <2>h, <2>k, <1>o DEF Commits, Verdict, CardFits, Ends, Attends, LanesFit,
       BoutFits, Adopts, Quiet, Card, Terminal
  <2>7. Lapsed(b) => back.bout # b \/ (w.state \in Terminal /\ w.run # "readback")
    BY <1>4, <2>1, <2>h, <2>k, <1>o DEF Commits, Verdict, CardFits, Ends, Attends, Lapsed,
       Card, Terminal
  <2>9. UNCHANGED <<slot, leader, bouts, back>> /\ faults' \in 0..MaxFaults /\ main' \in Rings
    BY <1>4, <2>k, OfRest DEF Commits, Verdict, Phase
  <2>8. /\ card' = [card EXCEPT ![b] = w]
        /\ lane' = [lane EXCEPT ![b] = lane[b]] /\ job' = [job EXCEPT ![b] = job[b]]
    BY <1>4, <2>1, <2>h, <2>k, <1>o DEF Commits, Verdict, Put
  <2> QED BY <2>2, <2>3, <2>4, <2>5, <2>6, <2>7, <2>8, <2>9, <2>e, <2>l, <1>o,
         OneCard DEF CardFits
<1>5. CASE CommitRefused(b)
  <2>1. PICK w : w = [card[b] EXCEPT !.run = IF card[b].sealed THEN "none" ELSE "failing"]
    OBVIOUS
  <2>h. card[b].home # None
    BY <1>5, <1>o DEF CommitRefused, CardFits, Lives, Card
  <2>l. Lives(w)
    BY <2>h, <2>1, <1>o DEF Lives, Card
  <2>2. w \in Card
    BY <2>1, <1>c, <1>z DEF Card, Phase
  <2>e. w.home = card[b].home /\ w.passed = card[b].passed
    BY <2>1, <1>c DEF Card
  <2>3. Ends(w)
    BY <1>5, <2>1, <2>h, <1>o DEF CommitRefused, CardFits, Ends, Card, Terminal
  <2>4. Attends(w)
    BY <1>5, <2>1, <2>h, <1>o DEF CommitRefused, CardFits, Ends, Attends, Card, Terminal
  <2>5. LanesFit(w, lane[b])
    BY <1>5, <2>1, <2>h, <1>o DEF CommitRefused, CardFits, Ends, Attends, LanesFit, Card,
       Terminal
  <2>6. BoutFits(b, w, lane[b], job[b]) /\ Adopts(b, w)
    BY <1>5, <2>1, <2>h, <1>o DEF CommitRefused, CardFits, Ends, Attends, LanesFit,
       BoutFits, Adopts, Quiet, Card, Terminal
  <2>7. Lapsed(b) => back.bout # b \/ (w.state \in Terminal /\ w.run # "readback")
    BY <1>5, <2>1, <2>h, <1>o DEF CommitRefused, CardFits, Ends, Attends, Lapsed, Card,
       Terminal
  <2>9. UNCHANGED <<slot, leader, bouts, back>> /\ faults' \in 0..MaxFaults /\ main' \in Rings
    BY <1>5, OfRest DEF CommitRefused, Phase
  <2>8. /\ card' = [card EXCEPT ![b] = w]
        /\ lane' = [lane EXCEPT ![b] = lane[b]] /\ job' = [job EXCEPT ![b] = job[b]]
    BY <1>5, <2>1, <2>h, <1>o DEF CommitRefused, Put
  <2> QED BY <2>2, <2>3, <2>4, <2>5, <2>6, <2>7, <2>8, <2>9, <2>e, <2>l, <1>o,
         OneCard DEF CardFits
<1>6. CASE CommitBreaks(b)
  <2>k. PICK x \in Verdict(b) : Put(b, [card[b] EXCEPT !.state = x, !.run = "none"])
    BY <1>6 DEF CommitBreaks
  <2>q. x \in {"VERIFIED", "FAILED"}
    BY <2>k DEF CommitBreaks, Verdict
  <2>1. PICK w : w = [card[b] EXCEPT !.state = x, !.run = "none"]
    OBVIOUS
  <2>h. card[b].home # None
    BY <1>6, <1>o DEF CommitBreaks, Verdict, CardFits, Lives, Card
  <2>l. Lives(w)
    BY <2>h, <2>1, <1>o DEF Lives, Card
  <2>2. w \in Card
    BY <2>1, <2>q, <1>c, <1>z, ZenonT(60) DEF Card, Phase
  <2>e. w.home = card[b].home /\ w.passed = card[b].passed
    BY <2>1, <1>c DEF Card
  <2>3. Ends(w)
    BY <1>6, <2>1, <2>h, <2>k, <1>o DEF CommitBreaks, Verdict, CardFits, Ends, Card,
       Terminal
  <2>4. Attends(w)
    BY <1>6, <2>1, <2>h, <2>k, <1>o DEF CommitBreaks, Verdict, CardFits, Ends, Attends,
       Card, Terminal
  <2>5. LanesFit(w, lane[b])
    BY <1>6, <2>1, <2>h, <2>k, <1>o DEF CommitBreaks, Verdict, CardFits, Ends, Attends,
       LanesFit, Card, Terminal
  <2>6. BoutFits(b, w, lane[b], job[b]) /\ Adopts(b, w)
    BY <1>6, <2>1, <2>h, <2>k, <1>o DEF CommitBreaks, Verdict, CardFits, Ends, Attends,
       LanesFit, BoutFits, Adopts, Quiet, Card, Terminal
  <2>7. Lapsed(b) => back.bout # b \/ (w.state \in Terminal /\ w.run # "readback")
    BY <1>6, <2>1, <2>h, <2>k, <1>o DEF CommitBreaks, Verdict, CardFits, Ends, Attends,
       Lapsed, Card, Terminal
  <2>9. UNCHANGED <<slot, leader, bouts, back>> /\ faults' \in 0..MaxFaults /\ main' \in Rings
    BY <1>6, <2>k, OfRest DEF CommitBreaks, Verdict, Phase
  <2>8. /\ card' = [card EXCEPT ![b] = w]
        /\ lane' = [lane EXCEPT ![b] = lane[b]] /\ job' = [job EXCEPT ![b] = job[b]]
    BY <1>6, <2>1, <2>h, <2>k, <1>o DEF CommitBreaks, Verdict, Put
  <2> QED BY <2>2, <2>3, <2>4, <2>5, <2>6, <2>7, <2>8, <2>9, <2>e, <2>l, <1>o,
         OneCard DEF CardFits
<1>7. CASE ReadsBack(b) /\ (OwnsMain(b) /\ back = Row(b, "run_committed"))
  <2>1. PICK w : w = [card[b] EXCEPT !.sealed = TRUE, !.run = "none", !.off = "cancel"]
    OBVIOUS
  <2>h. card[b].home # None
    BY <1>7, <1>o DEF ReadsBack, CardFits, Lives, Card
  <2>l. Lives(w)
    BY <2>h, <2>1, <1>o DEF Lives, Card
  <2>p. ~card[b].loop /\ card[b].work = "none"
    BY <1>7, <1>o, Unhanded DEF ReadsBack, CardFits, Ends
  <2>2. w \in Card
    BY <2>1, <1>c, <1>z, ZenonT(60) DEF Card, Phase
  <2>e. w.home = card[b].home /\ w.passed = card[b].passed
    BY <2>1, <1>c DEF Card
  <2>3. Ends(w)
    BY <1>7, <2>1, <2>h, <1>o, <2>p DEF ReadsBack, CardFits, Ends, Card, Terminal
  <2>4. Attends(w)
    BY <1>7, <2>1, <2>h, <1>o, <2>p DEF ReadsBack, CardFits, Ends, Attends, Card, Terminal
  <2>5. LanesFit(w, lane[b])
    BY <1>7, <2>1, <2>h, <1>o, <2>p DEF ReadsBack, CardFits, Ends, Attends, LanesFit, Card,
       Terminal
  <2>6. BoutFits(b, w, lane[b], job[b]) /\ Adopts(b, w)
    BY <1>7, <2>1, <2>h, <1>o, <2>p DEF ReadsBack, CardFits, Ends, Attends, LanesFit,
       BoutFits, Adopts, Quiet, Card, Terminal
  <2>7. Lapsed(b) => back.bout # b \/ (w.state \in Terminal /\ w.run # "readback")
    BY <1>7, <2>1, <2>h, <1>o, <2>p DEF ReadsBack, CardFits, Ends, Attends, Lapsed, Card,
       Terminal
  <2>9. UNCHANGED <<slot, leader, bouts, back>> /\ faults' \in 0..MaxFaults /\ main' \in Rings
    BY <1>7, OfRest DEF ReadsBack, Phase
  <2>8. /\ card' = [card EXCEPT ![b] = w]
        /\ lane' = [lane EXCEPT ![b] = lane[b]] /\ job' = [job EXCEPT ![b] = job[b]]
    BY <1>7, <2>1, <2>h, <1>o, <2>p DEF ReadsBack, Put
  <2> QED BY <2>2, <2>3, <2>4, <2>5, <2>6, <2>7, <2>8, <2>9, <2>e, <2>l, <1>o,
         OneCard DEF CardFits
<1>8. CASE ReadsBack(b) /\ ~(OwnsMain(b) /\ back = Row(b, "run_committed"))
  <2>1. PICK w : w = [card[b] EXCEPT !.state = "RUNNING", !.run = "failing"]
    OBVIOUS
  <2>h. card[b].home # None
    BY <1>8, <1>o DEF ReadsBack, CardFits, Lives, Card
  <2>l. Lives(w)
    BY <2>h, <2>1, <1>o DEF Lives, Card
  <2>2. w \in Card
    BY <2>1, <1>c, <1>z, ZenonT(60) DEF Card, Phase
  <2>e. w.home = card[b].home /\ w.passed = card[b].passed
    BY <2>1, <1>c DEF Card
  <2>3. Ends(w)
    BY <1>8, <2>1, <2>h, <1>o DEF ReadsBack, CardFits, Ends, Card, Terminal
  <2>4. Attends(w)
    BY <1>8, <2>1, <2>h, <1>o DEF ReadsBack, CardFits, Ends, Attends, Card, Terminal
  <2>5. LanesFit(w, lane[b])
    BY <1>8, <2>1, <2>h, <1>o DEF ReadsBack, CardFits, Ends, Attends, LanesFit, Card,
       Terminal
  <2>6. BoutFits(b, w, lane[b], job[b]) /\ Adopts(b, w)
    BY <1>8, <2>1, <2>h, <1>o DEF ReadsBack, CardFits, Ends, Attends, LanesFit, BoutFits,
       Adopts, Quiet, Card, Terminal
  <2>7. Lapsed(b) => back.bout # b \/ (w.state \in Terminal /\ w.run # "readback")
    BY <1>8, <2>1, <2>h, <1>o DEF ReadsBack, CardFits, Ends, Attends, Lapsed, Card, Terminal
  <2>9. UNCHANGED <<slot, leader, bouts, back>> /\ faults' \in 0..MaxFaults /\ main' \in Rings
    BY <1>8, OfRest DEF ReadsBack, Phase
  <2>8. /\ card' = [card EXCEPT ![b] = w]
        /\ lane' = [lane EXCEPT ![b] = lane[b]] /\ job' = [job EXCEPT ![b] = job[b]]
    BY <1>8, <2>1, <2>h, <1>o DEF ReadsBack, Put
  <2> QED BY <2>2, <2>3, <2>4, <2>5, <2>6, <2>7, <2>8, <2>9, <2>e, <2>l, <1>o,
         OneCard DEF CardFits
<1>9. CASE PublishFailure(b) /\ card[b].sealed
  <2>1. PICK w : w = [card[b] EXCEPT !.run = "none", !.failing = FALSE]
    OBVIOUS
  <2>h. card[b].home # None
    BY <1>9, <1>o DEF PublishFailure, CardFits, Lives, Card
  <2>l. Lives(w)
    BY <2>h, <2>1, <1>o DEF Lives, Card
  <2>2. w \in Card
    BY <2>1, <1>c, <1>z, ZenonT(60) DEF Card, Phase
  <2>e. w.home = card[b].home /\ w.passed = card[b].passed
    BY <2>1, <1>c DEF Card
  <2>3. Ends(w)
    BY <1>9, <2>1, <2>h, <1>o DEF PublishFailure, CardFits, Ends, Card, Terminal
  <2>4. Attends(w)
    BY <1>9, <2>1, <2>h, <1>o DEF PublishFailure, CardFits, Ends, Attends, Card, Terminal
  <2>5. LanesFit(w, lane[b])
    BY <1>9, <2>1, <2>h, <1>o DEF PublishFailure, CardFits, Ends, Attends, LanesFit, Card,
       Terminal
  <2>6. BoutFits(b, w, lane[b], job[b]) /\ Adopts(b, w)
    BY <1>9, <2>1, <2>h, <1>o DEF PublishFailure, CardFits, Ends, Attends, LanesFit,
       BoutFits, Adopts, Quiet, Card, Terminal
  <2>7. Lapsed(b) => back.bout # b \/ (w.state \in Terminal /\ w.run # "readback")
    BY <1>9, <2>1, <2>h, <1>o DEF PublishFailure, CardFits, Ends, Attends, Lapsed, Card,
       Terminal
  <2>9. UNCHANGED <<slot, leader, bouts, back>> /\ faults' \in 0..MaxFaults /\ main' \in Rings
    BY <1>9, OfRest DEF PublishFailure, Phase
  <2>8. /\ card' = [card EXCEPT ![b] = w]
        /\ lane' = [lane EXCEPT ![b] = lane[b]] /\ job' = [job EXCEPT ![b] = job[b]]
    BY <1>9, <2>1, <2>h, <1>o DEF PublishFailure, Put
  <2> QED BY <2>2, <2>3, <2>4, <2>5, <2>6, <2>7, <2>8, <2>9, <2>e, <2>l, <1>o,
         OneCard DEF CardFits
<1>10. CASE PublishFailure(b) /\ ~card[b].sealed
  <2>x. PICK x : x = IF OwnsMain(b) /\ card[b].ring = "run_committed"
                     THEN "cooldown" ELSE card[b].ring
    OBVIOUS
  <2>y. x \in Phase
    BY <2>x, <1>c DEF Card, Phase
  <2>1. PICK w : w = [card[b] EXCEPT !.run = "none", !.failing = FALSE, !.state = "FAILED",
                 !.open = FALSE, !.owed = FALSE, !.sealed = TRUE, !.off = "cancel",
                 !.ring = x]
    OBVIOUS
  <2>h. card[b].home # None
    BY <1>10, <1>o DEF PublishFailure, CardFits, Lives, Card
  <2>l. Lives(w)
    BY <2>h, <2>1, <1>o DEF Lives, Card
  <2>p. ~card[b].loop /\ card[b].work = "none" /\ card[b].off = "none"
    BY <1>10, <1>o, Unhanded DEF PublishFailure, CardFits
  <2>2. w \in Card
    BY <2>1, <2>y, <1>c, <1>z, ZenonT(60) DEF Card
  <2>e. w.home = card[b].home /\ w.passed = card[b].passed
    BY <2>1, <1>c DEF Card
  <2>3. Ends(w)
    BY <1>10, <2>1, <2>h, <2>x, <1>o, <2>p DEF PublishFailure, CardFits, Ends, Card,
       Terminal
  <2>4. Attends(w)
    BY <1>10, <2>1, <2>h, <2>x, <1>o, <2>p DEF PublishFailure, CardFits, Ends, Attends,
       Card, Terminal
  <2>5. LanesFit(w, lane[b])
    BY <1>10, <2>1, <2>h, <2>x, <1>o, <2>p DEF PublishFailure, CardFits, Ends, Attends,
       LanesFit, Card, Terminal
  <2>6. BoutFits(b, w, lane[b], job[b]) /\ Adopts(b, w)
    BY <1>10, <2>1, <2>h, <2>x, <1>o, <2>p DEF PublishFailure, CardFits, Ends, Attends,
       LanesFit, BoutFits, Adopts, Quiet, Card, Terminal
  <2>7. Lapsed(b) => back.bout # b \/ (w.state \in Terminal /\ w.run # "readback")
    BY <1>10, <2>1, <2>h, <2>x, <1>o, <2>p DEF PublishFailure, CardFits, Ends, Attends,
       Lapsed, Card, Terminal
  <2>9. UNCHANGED <<slot, leader, bouts, back>> /\ faults' \in 0..MaxFaults /\ main' \in Rings
    BY <1>10, OfRest DEF PublishFailure, Phase
  <2>8. /\ card' = [card EXCEPT ![b] = w]
        /\ lane' = [lane EXCEPT ![b] = lane[b]] /\ job' = [job EXCEPT ![b] = job[b]]
    BY <1>10, <2>1, <2>h, <2>x, <1>o, <2>p DEF PublishFailure, Put
  <2> QED BY <2>2, <2>3, <2>4, <2>5, <2>6, <2>7, <2>8, <2>9, <2>e, <2>l, <1>o,
         OneCard DEF CardFits
<1>11. CASE Towel(b)
  <2>1. PICK w : w = [card[b] EXCEPT !.state = "TOWELLED", !.ring = "towel_cleanup", !.open = FALSE,
                            !.owed = FALSE, !.sealed = TRUE, !.off = "cancel"]
    OBVIOUS
  <2>h. card[b].home # None
    BY <1>11, <1>o DEF Towel, Unlocked, CardFits, Lives, Card
  <2>l. Lives(w)
    BY <2>h, <2>1, <1>o DEF Lives, Card
  <2>2. w \in Card
    BY <2>1, <1>c, <1>z, ZenonT(60) DEF Card, Phase
  <2>e. w.home = card[b].home /\ w.passed = card[b].passed
    BY <2>1, <1>c DEF Card
  <2>3. Ends(w)
    BY <1>11, <2>1, <2>h, <1>o DEF Towel, Unlocked, CardFits, Ends, Card, Terminal
  <2>4. Attends(w)
    BY <1>11, <2>1, <2>h, <1>o DEF Towel, Unlocked, CardFits, Ends, Attends, Card, Terminal
  <2>5. LanesFit(w, lane[b])
    BY <1>11, <2>1, <2>h, <1>o DEF Towel, Unlocked, CardFits, Ends, Attends, LanesFit, Card,
       Terminal
  <2>6. BoutFits(b, w, lane[b], job[b]) /\ Adopts(b, w)
    BY <1>11, <2>1, <2>h, <1>o DEF Towel, Unlocked, CardFits, Ends, Attends, LanesFit,
       BoutFits, Adopts, Quiet, Card, Terminal
  <2>7. Lapsed(b) => back.bout # b \/ (w.state \in Terminal /\ w.run # "readback")
    BY <1>11, <2>1, <2>h, <1>o DEF Towel, Unlocked, CardFits, Ends, Attends, Lapsed, Card,
       Terminal
  <2>9. UNCHANGED <<slot, leader, bouts, back>> /\ faults' \in 0..MaxFaults /\ main' \in Rings
    BY <1>11, OfRest DEF Towel, Unlocked, Phase
  <2>8. /\ card' = [card EXCEPT ![b] = w]
        /\ lane' = [lane EXCEPT ![b] = lane[b]] /\ job' = [job EXCEPT ![b] = job[b]]
    BY <1>11, <2>1, <2>h, <1>o DEF Towel, Unlocked, Put
  <2> QED BY <2>2, <2>3, <2>4, <2>5, <2>6, <2>7, <2>8, <2>9, <2>e, <2>l, <1>o,
         OneCard DEF CardFits
<1>12. CASE RunStops(b)
  <2>1. PICK w : w = [card[b] EXCEPT !.run = "none"]
    OBVIOUS
  <2>h. card[b].home # None
    BY <1>12, <1>o DEF RunStops, CardFits, Lives, Card
  <2>v. PICK v : v = [l \in Lanes |->
       IF lane[b][l] = "setup" \/ (~(\E m \in Lanes : lane[b][m] = "setup") /\ lane[b][l] = "burst") THEN "idle"
       ELSE lane[b][l]]
    OBVIOUS
  <2>t. v \in [Lanes -> LaneAt]
    BY <2>v, <1>o DEF LaneAt, Lanes
  <2>l. Lives(w)
    BY <2>h, <2>1, <1>o DEF Lives, Card
  <2>2. w \in Card
    BY <2>1, <1>c, <1>z DEF Card, Phase
  <2>e. w.home = card[b].home /\ w.passed = card[b].passed
    BY <2>1, <1>c DEF Card
  <2>3. Ends(w)
    BY <1>12, <2>1, <2>h, <1>o, <2>v DEF RunStops, CardFits, Ends, LanesFit, Card, Terminal
  <2>4. Attends(w)
    BY <1>12, <2>1, <2>h, <1>o, <2>v DEF RunStops, CardFits, Ends, Attends, Card, Terminal
  <2>5. LanesFit(w, v)
    BY <1>12, <2>1, <2>h, <1>o, <2>v DEF RunStops, CardFits, Ends, Attends, LanesFit, Card,
       Terminal
  <2>6. BoutFits(b, w, v, job[b]) /\ Adopts(b, w)
    BY <1>12, <2>1, <2>h, <1>o, <2>v DEF RunStops, CardFits, Ends, Attends, LanesFit,
       BoutFits, Adopts, Quiet, Card, Terminal
  <2>7. Lapsed(b) => back.bout # b \/ (w.state \in Terminal /\ w.run # "readback")
    BY <1>12, <2>1, <2>h, <1>o, <2>v DEF RunStops, CardFits, Ends, Attends, Lapsed, Card,
       Terminal
  <2>9. UNCHANGED <<slot, leader, bouts, back>> /\ faults' \in 0..MaxFaults /\ main' \in Rings
    BY <1>12, OfRest DEF RunStops, Phase
  <2>8. /\ card' = [card EXCEPT ![b] = w]
        /\ lane' = [lane EXCEPT ![b] = v] /\ job' = [job EXCEPT ![b] = job[b]]
    BY <1>12, <2>1, <2>h, <1>o, <2>v DEF RunStops, Put
  <2> QED BY <2>t, <2>2, <2>3, <2>4, <2>5, <2>6, <2>7, <2>8, <2>9, <2>e, <2>l, <1>o,
         OneCard DEF CardFits
<1> QED BY <1>1, <1>2, <1>3, <1>4, <1>5, <1>6, <1>7, <1>8, <1>9, <1>10, <1>11, <1>12 DEF Run

(* A lease that is lost.                                                    *)
LEMMA LossKeeps ==
  ASSUME SpikeInv, NEW b \in 1..bouts, LosesMain(b) \/ LosesBack(b)
  PROVE SpikeInv'
<1>b. b \in Bouts
  BY OfRest
<1>c. card[b] \in Card
  BY <1>b, OfBout
<1>z. 0 \in 0..MaxBout /\ slot.claim \in 0..MaxBout /\ slot.claim <= bouts
  BY BoundsAssumption DEF SpikeInv, SpikeTypeOK
<1>o. /\ card[b] \in Card /\ lane[b] \in [Lanes -> LaneAt] /\ job[b] \in [Lanes -> JobAt]
      /\ card = [card EXCEPT ![b] = card[b]]
      /\ lane = [lane EXCEPT ![b] = lane[b]] /\ job = [job EXCEPT ![b] = job[b]]
      /\ CardFits(card[b], lane[b])
      /\ BoutFits(b, card[b], lane[b], job[b]) /\ Adopts(b, card[b])
      /\ bouts \in Nat /\ b \in Nat /\ b # 0 /\ slot.claim \in Nat
  BY <1>b, OfBout
<1> USE <1>b
<1>1. CASE LosesMain(b) /\ (card[b].sealed \/ card[b].state \in {"VERIFIED", "TOWELLED"})
  <2>1. PICK w : w = [card[b] EXCEPT !.ring = "none", !.lost = TRUE]
    OBVIOUS
  <2>h. card[b].home # None
    BY <1>1, <1>o DEF LosesMain, Unlocked, MainRenewed, CardFits, Lives, Card
  <2>l. Lives(w)
    BY <2>h, <2>1, <1>o DEF Lives, Card
  <2>2. w \in Card
    BY <2>1, <1>c, <1>z, ZenonT(60) DEF Card, Phase
  <2>e. w.home = card[b].home /\ w.passed = card[b].passed
    BY <2>1, <1>c DEF Card
  <2>3. Ends(w)
    BY <1>1, <2>1, <2>h, <1>o DEF LosesMain, Unlocked, MainRenewed, CardFits, Ends, Card,
       Terminal
  <2>4. Attends(w)
    BY <1>1, <2>1, <2>h, <1>o DEF LosesMain, Unlocked, MainRenewed, CardFits, Ends, Attends,
       Card, Terminal
  <2>5. LanesFit(w, lane[b])
    BY <1>1, <2>1, <2>h, <1>o DEF LosesMain, Unlocked, MainRenewed, CardFits, Ends, Attends,
       LanesFit, Card, Terminal
  <2>6. BoutFits(b, w, lane[b], job[b]) /\ Adopts(b, w)
    BY <1>1, <2>1, <2>h, <1>o DEF LosesMain, Unlocked, MainRenewed, CardFits, Ends, Attends,
       LanesFit, BoutFits, Adopts, Quiet, Card, Terminal
  <2>7. Lapsed(b) => back.bout # b \/ (w.state \in Terminal /\ w.run # "readback")
    BY <1>1, <2>1, <2>h, <1>o DEF LosesMain, Unlocked, MainRenewed, CardFits, Ends, Attends,
       Lapsed, Card, Terminal
  <2>9. UNCHANGED <<slot, leader, bouts, back>> /\ faults' \in 0..MaxFaults /\ main' \in Rings
    BY <1>1, OfRest DEF LosesMain, Unlocked, MainRenewed, Phase
  <2>8. /\ card' = [card EXCEPT ![b] = w]
        /\ lane' = [lane EXCEPT ![b] = lane[b]] /\ job' = [job EXCEPT ![b] = job[b]]
    BY <1>1, <2>1, <2>h, <1>o DEF LosesMain, Unlocked, MainRenewed, Put
  <2> QED BY <2>2, <2>3, <2>4, <2>5, <2>6, <2>7, <2>8, <2>9, <2>e, <2>l, <1>o,
         OneCard DEF CardFits
<1>2. CASE LosesMain(b) /\ ~(card[b].sealed \/ card[b].state \in {"VERIFIED", "TOWELLED"})
  <2>1. PICK w : w = Stopped([card[b] EXCEPT !.ring = "none", !.lost = TRUE])
    OBVIOUS
  <2>h. card[b].home # None
    BY <1>2, <1>o DEF LosesMain, Unlocked, Stopped, MainRenewed, CardFits, Lives, Card
  <2>l. Lives(w)
    BY <2>h, <2>1, <1>o DEF Lives, Card, Stopped
  <2>2. w \in Card
    BY <2>1, <1>c, <1>z, ZenonT(60) DEF Card, Phase, Stopped
  <2>e. w.home = card[b].home /\ w.passed = card[b].passed
    BY <2>1, <1>c DEF Card, Stopped
  <2>3. Ends(w)
    BY <1>2, <2>1, <2>h, <1>o DEF LosesMain, Unlocked, Stopped, MainRenewed, CardFits, Ends,
       Card, Terminal
  <2>4. Attends(w)
    BY <1>2, <2>1, <2>h, <1>o DEF LosesMain, Unlocked, Stopped, MainRenewed, CardFits, Ends,
       Attends, Card, Terminal
  <2>5. LanesFit(w, lane[b])
    BY <1>2, <2>1, <2>h, <1>o DEF LosesMain, Unlocked, Stopped, MainRenewed, CardFits, Ends,
       Attends, LanesFit, Card, Terminal
  <2>6. BoutFits(b, w, lane[b], job[b]) /\ Adopts(b, w)
    BY <1>2, <2>1, <2>h, <1>o DEF LosesMain, Unlocked, Stopped, MainRenewed, CardFits, Ends,
       Attends, LanesFit, BoutFits, Adopts, Quiet, Card, Terminal
  <2>7. Lapsed(b) => back.bout # b \/ (w.state \in Terminal /\ w.run # "readback")
    BY <1>2, <2>1, <2>h, <1>o DEF LosesMain, Unlocked, Stopped, MainRenewed, CardFits, Ends,
       Attends, Lapsed, Card, Terminal
  <2>9. UNCHANGED <<slot, leader, bouts, back>> /\ faults' \in 0..MaxFaults /\ main' \in Rings
    BY <1>2, OfRest DEF LosesMain, Unlocked, Stopped, MainRenewed, Phase
  <2>8. /\ card' = [card EXCEPT ![b] = w]
        /\ lane' = [lane EXCEPT ![b] = lane[b]] /\ job' = [job EXCEPT ![b] = job[b]]
    BY <1>2, <2>1, <2>h, <1>o DEF LosesMain, Unlocked, Stopped, MainRenewed, Put
  <2> QED BY <2>2, <2>3, <2>4, <2>5, <2>6, <2>7, <2>8, <2>9, <2>e, <2>l, <1>o,
         OneCard DEF CardFits
<1>3. CASE LosesBack(b) /\ ((card[b].sealed \/ card[b].state \in Terminal) /\ ~Busy(b))
  <2>1. PICK w : w = [card[b] EXCEPT !.clean = "none", !.ring = "none"]
    OBVIOUS
  <2>h. card[b].home # None
    BY <1>3, <1>o DEF LosesBack, Unlocked, BackRenewed, CardFits, Lives, Card
  <2>l. Lives(w)
    BY <2>h, <2>1, <1>o DEF Lives, Card
  <2>2. w \in Card
    BY <2>1, <1>c, <1>z, ZenonT(60) DEF Card, Phase
  <2>e. w.home = card[b].home /\ w.passed = card[b].passed
    BY <2>1, <1>c DEF Card
  <2>3. Ends(w)
    BY <1>3, <2>1, <2>h, <1>o DEF LosesBack, Unlocked, BackRenewed, CardFits, Ends, Card,
       Terminal
  <2>4. Attends(w)
    BY <1>3, <2>1, <2>h, <1>o DEF LosesBack, Unlocked, BackRenewed, CardFits, Ends, Attends,
       Card, Terminal
  <2>5. LanesFit(w, lane[b])
    BY <1>3, <2>1, <2>h, <1>o DEF LosesBack, Unlocked, BackRenewed, CardFits, Ends, Attends,
       LanesFit, Card, Terminal
  <2>6. BoutFits(b, w, lane[b], job[b]) /\ Adopts(b, w)
    BY <1>3, <2>1, <2>h, <1>o DEF LosesBack, Unlocked, BackRenewed, CardFits, Ends, Attends,
       LanesFit, BoutFits, Adopts, Quiet, Card, Terminal
  <2>7. Lapsed(b) => back.bout # b \/ (w.state \in Terminal /\ w.run # "readback")
    BY <1>3, <2>1, <2>h, <1>o DEF LosesBack, Unlocked, BackRenewed, CardFits, Ends, Attends,
       Lapsed, Card, Terminal
  <2>9. UNCHANGED <<slot, leader, bouts, back>> /\ faults' \in 0..MaxFaults /\ main' \in Rings
    BY <1>3, OfRest DEF LosesBack, Unlocked, BackRenewed, Phase
  <2>8. /\ card' = [card EXCEPT ![b] = w]
        /\ lane' = [lane EXCEPT ![b] = lane[b]] /\ job' = [job EXCEPT ![b] = job[b]]
    BY <1>3, <2>1, <2>h, <1>o DEF LosesBack, Unlocked, BackRenewed, Put
  <2> QED BY <2>2, <2>3, <2>4, <2>5, <2>6, <2>7, <2>8, <2>9, <2>e, <2>l, <1>o,
         OneCard DEF CardFits
<1>4. CASE LosesBack(b) /\ ((card[b].sealed \/ card[b].state \in Terminal) /\ Busy(b))
  <2>1. PICK w : w = [card[b] EXCEPT !.clean = "none"]
    OBVIOUS
  <2>h. card[b].home # None
    BY <1>4, <1>o DEF LosesBack, Unlocked, BackRenewed, CardFits, Lives, Card
  <2>l. Lives(w)
    BY <2>h, <2>1, <1>o DEF Lives, Card
  <2>2. w \in Card
    BY <2>1, <1>c, <1>z, ZenonT(60) DEF Card, Phase
  <2>e. w.home = card[b].home /\ w.passed = card[b].passed
    BY <2>1, <1>c DEF Card
  <2>3. Ends(w)
    BY <1>4, <2>1, <2>h, <1>o DEF LosesBack, Unlocked, BackRenewed, CardFits, Ends, Card,
       Terminal
  <2>4. Attends(w)
    BY <1>4, <2>1, <2>h, <1>o DEF LosesBack, Unlocked, BackRenewed, CardFits, Ends, Attends,
       Card, Terminal
  <2>5. LanesFit(w, lane[b])
    BY <1>4, <2>1, <2>h, <1>o DEF LosesBack, Unlocked, BackRenewed, CardFits, Ends, Attends,
       LanesFit, Card, Terminal
  <2>6. BoutFits(b, w, lane[b], job[b]) /\ Adopts(b, w)
    BY <1>4, <2>1, <2>h, <1>o DEF LosesBack, Unlocked, BackRenewed, CardFits, Ends, Attends,
       LanesFit, BoutFits, Adopts, Quiet, Card, Terminal
  <2>7. Lapsed(b) => back.bout # b \/ (w.state \in Terminal /\ w.run # "readback")
    BY <1>4, <2>1, <2>h, <1>o DEF LosesBack, Unlocked, BackRenewed, CardFits, Ends, Attends,
       Lapsed, Card, Terminal
  <2>9. UNCHANGED <<slot, leader, bouts, back>> /\ faults' \in 0..MaxFaults /\ main' \in Rings
    BY <1>4, OfRest DEF LosesBack, Unlocked, BackRenewed, Phase
  <2>8. /\ card' = [card EXCEPT ![b] = w]
        /\ lane' = [lane EXCEPT ![b] = lane[b]] /\ job' = [job EXCEPT ![b] = job[b]]
    BY <1>4, <2>1, <2>h, <1>o DEF LosesBack, Unlocked, BackRenewed, Put
  <2> QED BY <2>2, <2>3, <2>4, <2>5, <2>6, <2>7, <2>8, <2>9, <2>e, <2>l, <1>o,
         OneCard DEF CardFits
<1>5. CASE LosesBack(b) /\ ~(card[b].sealed \/ card[b].state \in Terminal)
  <2>1. PICK w : w = Stopped([card[b] EXCEPT !.clean = "none"])
    OBVIOUS
  <2>h. card[b].home # None
    BY <1>5, <1>o DEF LosesBack, Unlocked, Stopped, BackRenewed, CardFits, Lives, Card
  <2>l. Lives(w)
    BY <2>h, <2>1, <1>o DEF Lives, Card, Stopped
  <2>2. w \in Card
    BY <2>1, <1>c, <1>z, ZenonT(60) DEF Card, Phase, Stopped
  <2>e. w.home = card[b].home /\ w.passed = card[b].passed
    BY <2>1, <1>c DEF Card, Stopped
  <2>3. Ends(w)
    BY <1>5, <2>1, <2>h, <1>o DEF LosesBack, Unlocked, Stopped, BackRenewed, CardFits, Ends,
       Card, Terminal
  <2>4. Attends(w)
    BY <1>5, <2>1, <2>h, <1>o DEF LosesBack, Unlocked, Stopped, BackRenewed, CardFits, Ends,
       Attends, Card, Terminal
  <2>5. LanesFit(w, lane[b])
    BY <1>5, <2>1, <2>h, <1>o DEF LosesBack, Unlocked, Stopped, BackRenewed, CardFits, Ends,
       Attends, LanesFit, Card, Terminal
  <2>6. BoutFits(b, w, lane[b], job[b]) /\ Adopts(b, w)
    BY <1>5, <2>1, <2>h, <1>o DEF LosesBack, Unlocked, Stopped, BackRenewed, CardFits, Ends,
       Attends, LanesFit, BoutFits, Adopts, Quiet, Card, Terminal
  <2>7. Lapsed(b) => back.bout # b \/ (w.state \in Terminal /\ w.run # "readback")
    BY <1>5, <2>1, <2>h, <1>o DEF LosesBack, Unlocked, Stopped, BackRenewed, CardFits, Ends,
       Attends, Lapsed, Card, Terminal
  <2>9. UNCHANGED <<slot, leader, bouts, back>> /\ faults' \in 0..MaxFaults /\ main' \in Rings
    BY <1>5, OfRest DEF LosesBack, Unlocked, Stopped, BackRenewed, Phase
  <2>8. /\ card' = [card EXCEPT ![b] = w]
        /\ lane' = [lane EXCEPT ![b] = lane[b]] /\ job' = [job EXCEPT ![b] = job[b]]
    BY <1>5, <2>1, <2>h, <1>o DEF LosesBack, Unlocked, Stopped, BackRenewed, Put
  <2> QED BY <2>2, <2>3, <2>4, <2>5, <2>6, <2>7, <2>8, <2>9, <2>e, <2>l, <1>o,
         OneCard DEF CardFits
<1> QED BY <1>1, <1>2, <1>3, <1>4, <1>5

(* The handoff to cleanup.                                                  *)
LEMMA HandoffKeeps ==
  ASSUME SpikeInv, NEW b \in 1..bouts, Handoff(b) \/ HandoffGivesUp(b)
  PROVE SpikeInv'
<1>b. b \in Bouts
  BY OfRest
<1>c. card[b] \in Card
  BY <1>b, OfBout
<1>z. 0 \in 0..MaxBout /\ slot.claim \in 0..MaxBout /\ slot.claim <= bouts
  BY BoundsAssumption DEF SpikeInv, SpikeTypeOK
<1>o. /\ card[b] \in Card /\ lane[b] \in [Lanes -> LaneAt] /\ job[b] \in [Lanes -> JobAt]
      /\ card = [card EXCEPT ![b] = card[b]]
      /\ lane = [lane EXCEPT ![b] = lane[b]] /\ job = [job EXCEPT ![b] = job[b]]
      /\ CardFits(card[b], lane[b])
      /\ BoutFits(b, card[b], lane[b], job[b]) /\ Adopts(b, card[b])
      /\ bouts \in Nat /\ b \in Nat /\ b # 0 /\ slot.claim \in Nat
  BY <1>b, OfBout
<1> USE <1>b
<1>1. CASE HandoffCancels(b)
  <2>x. PICK x : x = IF card[b].run \in {"setup", "burst"} THEN "none" ELSE card[b].run
    OBVIOUS
  <2>y. x \in {"none", "arm", "setup", "burst", "verdict", "readback", "failing",
              "stopping"}
    BY <2>x, <1>c DEF Card, Phase
  <2>1. PICK w : w = [card[b] EXCEPT !.owed = FALSE, !.off = "fence",
                            !.run = x]
    OBVIOUS
  <2>h. card[b].home # None
    BY <1>1, <1>o DEF HandoffCancels, CardFits, Lives, Card
  <2>v. PICK v : v = [l \in Lanes |-> "idle"]
    OBVIOUS
  <2>t. v \in [Lanes -> LaneAt]
    BY <2>v, <1>o DEF LaneAt, Lanes
  <2>l. Lives(w)
    BY <2>h, <2>1, <1>o DEF Lives, Card
  <2>2. w \in Card
    BY <2>1, <2>y, <1>c, <1>z, ZenonT(60) DEF Card, Phase
  <2>e. w.home = card[b].home /\ w.passed = card[b].passed
    BY <2>1, <1>c DEF Card
  <2>3. Ends(w)
    BY <1>1, <2>1, <2>h, <2>x, <1>o, <2>v DEF HandoffCancels, CardFits, Ends, LanesFit,
       Card, Terminal
  <2>4. Attends(w)
    BY <1>1, <2>1, <2>h, <2>x, <1>o, <2>v DEF HandoffCancels, CardFits, Ends, Attends, Card,
       Terminal
  <2>5. LanesFit(w, v)
    BY <1>1, <2>1, <2>h, <2>x, <1>o, <2>v DEF HandoffCancels, CardFits, Ends, Attends,
       LanesFit, Card, Terminal
  <2>6. BoutFits(b, w, v, job[b]) /\ Adopts(b, w)
    BY <1>1, <2>1, <2>h, <2>x, <1>o, <2>v DEF HandoffCancels, CardFits, Ends, Attends,
       LanesFit, BoutFits, Adopts, Quiet, Card, Terminal
  <2>7. Lapsed(b) => back.bout # b \/ (w.state \in Terminal /\ w.run # "readback")
    BY <1>1, <2>1, <2>h, <2>x, <1>o, <2>v DEF HandoffCancels, CardFits, Ends, Attends,
       Lapsed, Card, Terminal
  <2>9. UNCHANGED <<slot, leader, bouts, back>> /\ faults' \in 0..MaxFaults /\ main' \in Rings
    BY <1>1, OfRest DEF HandoffCancels, Phase
  <2>8. /\ card' = [card EXCEPT ![b] = w]
        /\ lane' = [lane EXCEPT ![b] = v] /\ job' = [job EXCEPT ![b] = job[b]]
    BY <1>1, <2>1, <2>h, <2>x, <1>o, <2>v DEF HandoffCancels, Put
  <2> QED BY <2>t, <2>2, <2>3, <2>4, <2>5, <2>6, <2>7, <2>8, <2>9, <2>e, <2>l, <1>o,
         OneCard DEF CardFits
<1>2. CASE HandoffFences(b) /\ UNCHANGED slot
              /\ Put(b, Owing([card[b] EXCEPT !.off = "none", !.clean = Retained(b, FALSE)]))
  <2>x. PICK x : x = IF CanRetain(b) \/ (FALSE /\ CanReclaim(b)) THEN "round5_cleanup" ELSE "none"
    OBVIOUS
  <2>y. x \in Phase
    BY <2>x, <1>c DEF Card, Phase
  <2>1. PICK w : w = [card[b] EXCEPT !.off = "none", !.clean = x, !.owed = TRUE, !.loop = TRUE]
    OBVIOUS
  <2>h. card[b].home # None
    BY <1>2, <1>o DEF HandoffFences, Retain, Retained, CanRetain, CanReclaim, OwnsBack,
       Owing, Owing, CardFits, Lives, Card
  <2>l. Lives(w)
    BY <2>h, <2>1, <1>o DEF Lives, Card
  <2>2. w \in Card
    BY <2>1, <2>y, <1>c, <1>z, ZenonT(60) DEF Card
  <2>e. w.home = card[b].home /\ w.passed = card[b].passed
    BY <2>1, <1>c DEF Card
  <2>3. Ends(w)
    BY <1>2, <2>1, <2>h, <2>x, <1>o DEF HandoffFences, Retain, Retained, CanRetain,
       CanReclaim, OwnsBack, Owing, Owing, CardFits, Ends, Card, Terminal
  <2>4. Attends(w)
    BY <1>2, <2>1, <2>h, <2>x, <1>o DEF HandoffFences, Retain, Retained, CanRetain,
       CanReclaim, OwnsBack, Owing, Owing, CardFits, Ends, Attends, Card, Terminal
  <2>5. LanesFit(w, lane[b])
    BY <1>2, <2>1, <2>h, <2>x, <1>o DEF HandoffFences, Retain, Retained, CanRetain,
       CanReclaim, OwnsBack, Owing, Owing, CardFits, Ends, Attends, LanesFit, Card, Terminal
  <2>f. /\ w.clean = x /\ w.state = card[b].state /\ w.run = card[b].run /\ w.home = card[b].home
        /\ w.held = card[b].held
        /\ w.work = card[b].work /\ w.late = card[b].late /\ w.passed = card[b].passed
    BY <2>1, <1>c DEF Card, Owing
  <2>s. slot' = slot
    BY <1>2, OfRest DEF HandoffFences, Retain, Retained, CanRetain, CanReclaim, OwnsBack,
       Owing, Owing
  <2>9. /\ UNCHANGED <<leader, bouts>> /\ faults' \in 0..MaxFaults
        /\ main' \in Rings /\ back' \in Rings
    BY <1>2, OfRest DEF HandoffFences, Retain, Retained, CanRetain, CanReclaim, OwnsBack,
       Owing, Owing, Phase
  <2>a. back' # back => back.bout \in {0, b} /\ back'.bout \in {0, b}
    BY <1>2, OfRest DEF HandoffFences, Retain, Retained, CanRetain, CanReclaim, OwnsBack,
       Owing, Owing, Row, Rings, Gone
  <2>6. BoutFits(b, w, lane[b], job[b])'
    BY <1>2, <2>1, <2>h, <2>x, <1>o, <2>f, <2>s, <2>9 DEF HandoffFences, Retain, Retained,
       CanRetain, CanReclaim, OwnsBack, Owing, Owing, CardFits, Ends, Attends, LanesFit,
              BoutFits, Quiet, Terminal, Row
  <2>b. Adopts(b, w)
    BY <1>2, <2>1, <2>h, <2>x, <1>o DEF HandoffFences, Retain, Retained, CanRetain,
       CanReclaim, OwnsBack, Owing, Owing, CardFits, Attends, Adopts, Card
  <2>7. Lapsed(b) => back'.bout # b \/ (w.state \in Terminal /\ w.run # "readback")
    BY <1>2, <2>1, <2>h, <2>x, <1>o DEF HandoffFences, Retain, Retained, CanRetain,
       CanReclaim, OwnsBack, Owing, Owing, CardFits, Ends, Attends, Lapsed, Card, Terminal,
              Row
  <2>8. /\ card' = [card EXCEPT ![b] = w]
        /\ lane' = [lane EXCEPT ![b] = lane[b]] /\ job' = [job EXCEPT ![b] = job[b]]
    BY <1>2, <2>1, <2>h, <2>x, <1>o DEF HandoffFences, Retain, Retained, CanRetain,
       CanReclaim, OwnsBack, Owing, Owing, Put
  <2> QED BY <2>2, <2>3, <2>4, <2>5, <2>6, <2>7, <2>8, <2>9, <2>e, <2>a, <2>s, <2>b, <2>l,
         <1>o, OneRow DEF CardFits
<1>3. CASE HandoffFences(b) /\ CanFence(b, card[b].held) /\ slot' = Cleaning
              /\ FencedBy(b, [card[b] EXCEPT !.off = "none", !.clean = Retained(b, FALSE),
                                      !.work = "look"])
  <2>x. PICK x : x = IF CanRetain(b) \/ (FALSE /\ CanReclaim(b)) THEN "round5_cleanup" ELSE "none"
    OBVIOUS
  <2>y. x \in Phase
    BY <2>x, <1>c DEF Card, Phase
  <2>1. PICK w : w = [card[b] EXCEPT !.off = "none", !.clean = x, !.work = "look"]
    OBVIOUS
  <2>h. card[b].home # None
    BY <1>3, <1>o DEF HandoffFences, Retain, Retained, CanRetain, CanReclaim, OwnsBack,
       Owing, CanFence, Cleaning, CardFits, Lives, Card
  <2>l. Lives(w)
    BY <2>h, <2>1, <1>o DEF Lives, Card
  <2>2. w \in Card
    BY <2>1, <2>y, <1>c, <1>z, ZenonT(60) DEF Card
  <2>e. w.home = card[b].home /\ w.passed = card[b].passed
    BY <2>1, <1>c DEF Card
  <2>3. Ends(w)
    BY <1>3, <2>1, <2>h, <2>x, <1>o DEF HandoffFences, Retain, Retained, CanRetain,
       CanReclaim, OwnsBack, Owing, CanFence, Cleaning, CardFits, Ends, Card, Terminal
  <2>4. Attends(w)
    BY <1>3, <2>1, <2>h, <2>x, <1>o DEF HandoffFences, Retain, Retained, CanRetain,
       CanReclaim, OwnsBack, Owing, CanFence, Cleaning, CardFits, Ends, Attends, Card,
              Terminal
  <2>5. LanesFit(w, lane[b])
    BY <1>3, <2>1, <2>h, <2>x, <1>o DEF HandoffFences, Retain, Retained, CanRetain,
       CanReclaim, OwnsBack, Owing, CanFence, Cleaning, CardFits, Ends, Attends, LanesFit,
              Card, Terminal
  <2>f. /\ w.clean = x /\ w.state = card[b].state /\ w.run = card[b].run /\ w.home = card[b].home
        /\ w.held = card[b].held
        /\ w.work = "look" /\ w.late = card[b].late /\ w.passed = card[b].passed
    BY <2>1, <1>c DEF Card
  <2>s. slot' = [slot EXCEPT !.state = "cleaning"] /\ slot.claim # 0
    BY <1>3, OfRest DEF HandoffFences, Retain, Retained, CanRetain, CanReclaim, OwnsBack,
       Owing, CanFence, Cleaning
  <2>9. /\ UNCHANGED <<leader, bouts>> /\ faults' \in 0..MaxFaults
        /\ main' \in Rings /\ back' \in Rings
    BY <1>3, OfRest DEF HandoffFences, Retain, Retained, CanRetain, CanReclaim, OwnsBack,
       Owing, CanFence, Cleaning, Phase
  <2>a. back' # back => back.bout \in {0, b} /\ back'.bout \in {0, b}
    BY <1>3, OfRest DEF HandoffFences, Retain, Retained, CanRetain, CanReclaim, OwnsBack,
       Owing, CanFence, Cleaning, Row, Rings, Gone
  <2>6. BoutFits(b, w, lane[b], job[b])'
    BY <1>3, <2>1, <2>h, <2>x, <1>o, <2>f, <2>s, <2>9 DEF HandoffFences, Retain, Retained,
       CanRetain, CanReclaim, OwnsBack, Owing, CanFence, Cleaning, CardFits, Ends, Attends,
              LanesFit, BoutFits, Quiet, Terminal, Row
  <2>b. Adopts(b, w)
    BY <1>3, <2>1, <2>h, <2>x, <1>o DEF HandoffFences, Retain, Retained, CanRetain,
       CanReclaim, OwnsBack, Owing, CanFence, Cleaning, CardFits, Attends, Adopts, Card
  <2>7. Lapsed(b) => back'.bout # b \/ (w.state \in Terminal /\ w.run # "readback")
    BY <1>3, <2>1, <2>h, <2>x, <1>o DEF HandoffFences, Retain, Retained, CanRetain,
       CanReclaim, OwnsBack, Owing, CanFence, Cleaning, CardFits, Ends, Attends, Lapsed,
              Card, Terminal, Row
  <2>8. FencedBy(b, w) /\ lane' = lane /\ job' = job
    BY <1>3, <2>1, <2>h, <2>x, <1>o DEF HandoffFences, Retain, Retained, CanRetain,
       CanReclaim, OwnsBack, Owing, CanFence, Cleaning
  <2> QED BY <2>2, <2>3, <2>4, <2>5, <2>6, <2>7, <2>8, <2>9, <2>e, <2>a, <2>s, <2>b, <2>l,
         <1>o, OneFence DEF CardFits
<1>4. CASE LateStops(b)
  <2>1. PICK w : w = [card[b] EXCEPT !.run = IF @ \in {"setup", "burst"} THEN "none" ELSE @]
    OBVIOUS
  <2>h. card[b].home # None
    BY <1>4, <1>o DEF LateStops, CardFits, Lives, LanesFit, Card
  <2>v. PICK v : v = [l \in Lanes |-> "idle"]
    OBVIOUS
  <2>t. v \in [Lanes -> LaneAt]
    BY <2>v, <1>o DEF LaneAt, Lanes
  <2>l. Lives(w)
    BY <2>h, <2>1, <1>o DEF Lives, Card
  <2>2. w \in Card
    BY <2>1, <1>c, <1>z, ZenonT(60) DEF Card, Phase
  <2>e. w.home = card[b].home /\ w.passed = card[b].passed
    BY <2>1, <1>c DEF Card
  <2>3. Ends(w)
    BY <1>4, <2>1, <2>h, <1>o, <2>v DEF LateStops, CardFits, Ends, LanesFit, Card, Terminal
  <2>4. Attends(w)
    BY <1>4, <2>1, <2>h, <1>o, <2>v DEF LateStops, CardFits, Ends, Attends, Card, Terminal
  <2>5. LanesFit(w, v)
    BY <1>4, <2>1, <2>h, <1>o, <2>v DEF LateStops, CardFits, Ends, Attends, LanesFit, Card,
       Terminal
  <2>6. BoutFits(b, w, v, job[b]) /\ Adopts(b, w)
    BY <1>4, <2>1, <2>h, <1>o, <2>v DEF LateStops, CardFits, Ends, Attends, LanesFit,
       BoutFits, Adopts, Quiet, Card, Terminal
  <2>7. Lapsed(b) => back.bout # b \/ (w.state \in Terminal /\ w.run # "readback")
    BY <1>4, <2>1, <2>h, <1>o, <2>v DEF LateStops, CardFits, Ends, Attends, Lapsed, Card,
       Terminal
  <2>9. UNCHANGED <<slot, leader, bouts, back>> /\ faults' \in 0..MaxFaults /\ main' \in Rings
    BY <1>4, OfRest DEF LateStops, Phase
  <2>8. /\ card' = [card EXCEPT ![b] = w]
        /\ lane' = [lane EXCEPT ![b] = v] /\ job' = [job EXCEPT ![b] = job[b]]
    BY <1>4, <2>1, <2>h, <1>o, <2>v DEF LateStops, Put
  <2> QED BY <2>t, <2>2, <2>3, <2>4, <2>5, <2>6, <2>7, <2>8, <2>9, <2>e, <2>l, <1>o,
         OneCard DEF CardFits
<1>5. CASE HandoffGivesUp(b)
  <2>1. PICK w : w = [card[b] EXCEPT !.owed = FALSE, !.off = "fence", !.late = TRUE]
    OBVIOUS
  <2>h. card[b].home # None
    BY <1>5, <1>o DEF HandoffGivesUp, CardFits, Lives, Card
  <2>l. Lives(w)
    BY <2>h, <2>1, <1>o DEF Lives, Card
  <2>2. w \in Card
    BY <2>1, <1>c, <1>z, ZenonT(60) DEF Card, Phase
  <2>e. w.home = card[b].home /\ w.passed = card[b].passed
    BY <2>1, <1>c DEF Card
  <2>3. Ends(w)
    BY <1>5, <2>1, <2>h, <1>o DEF HandoffGivesUp, CardFits, Ends, Card, Terminal
  <2>4. Attends(w)
    BY <1>5, <2>1, <2>h, <1>o DEF HandoffGivesUp, CardFits, Ends, Attends, Card, Terminal
  <2>5. LanesFit(w, lane[b])
    BY <1>5, <2>1, <2>h, <1>o DEF HandoffGivesUp, CardFits, Ends, Attends, LanesFit, Card,
       Terminal
  <2>6. BoutFits(b, w, lane[b], job[b]) /\ Adopts(b, w)
    BY <1>5, <2>1, <2>h, <1>o DEF HandoffGivesUp, CardFits, Ends, Attends, LanesFit,
       BoutFits, Adopts, Quiet, Card, Terminal
  <2>7. Lapsed(b) => back.bout # b \/ (w.state \in Terminal /\ w.run # "readback")
    BY <1>5, <2>1, <2>h, <1>o DEF HandoffGivesUp, CardFits, Ends, Attends, Lapsed, Card,
       Terminal
  <2>9. UNCHANGED <<slot, leader, bouts, back>> /\ faults' \in 0..MaxFaults /\ main' \in Rings
    BY <1>5, OfRest DEF HandoffGivesUp, Phase
  <2>8. /\ card' = [card EXCEPT ![b] = w]
        /\ lane' = [lane EXCEPT ![b] = lane[b]] /\ job' = [job EXCEPT ![b] = job[b]]
    BY <1>5, <2>1, <2>h, <1>o DEF HandoffGivesUp, Put
  <2> QED BY <2>2, <2>3, <2>4, <2>5, <2>6, <2>7, <2>8, <2>9, <2>e, <2>l, <1>o,
         OneCard DEF CardFits
<1>w. HandoffFences(b) =>
        \/ UNCHANGED slot
           /\ Put(b, Owing([card[b] EXCEPT !.off = "none", !.clean = Retained(b, FALSE)]))
        \/ CanFence(b, card[b].held) /\ slot' = Cleaning
           /\ FencedBy(b, [card[b] EXCEPT !.off = "none", !.clean = Retained(b, FALSE),
                                          !.work = "look"])
  <2>1. card[b].off = "fence" => card[b].work = "none"
    BY <1>o DEF CardFits, Attends
  <2>2. PICK k : k = [card[b] EXCEPT !.off = "none", !.clean = Retained(b, FALSE)]
    OBVIOUS
  <2>3. k.work = card[b].work
    BY <2>2, <1>c DEF Card
  <2> QED BY <2>1, <2>2, <2>3 DEF HandoffFences
<1> QED BY <1>1, <1>2, <1>3, <1>4, <1>5, <1>w DEF Handoff

(* The worker, its loop, and the owner's retry.                             *)
LEMMA WorkerKeeps ==
  ASSUME SpikeInv, NEW b \in 1..bouts, Worker(b) \/ RetryCleanup(b)
  PROVE SpikeInv'
<1>b. b \in Bouts
  BY OfRest
<1>c. card[b] \in Card
  BY <1>b, OfBout
<1>z. 0 \in 0..MaxBout /\ slot.claim \in 0..MaxBout /\ slot.claim <= bouts
  BY BoundsAssumption DEF SpikeInv, SpikeTypeOK
<1>o. /\ card[b] \in Card /\ lane[b] \in [Lanes -> LaneAt] /\ job[b] \in [Lanes -> JobAt]
      /\ card = [card EXCEPT ![b] = card[b]]
      /\ lane = [lane EXCEPT ![b] = lane[b]] /\ job = [job EXCEPT ![b] = job[b]]
      /\ CardFits(card[b], lane[b])
      /\ BoutFits(b, card[b], lane[b], job[b]) /\ Adopts(b, card[b])
      /\ bouts \in Nat /\ b \in Nat /\ b # 0 /\ slot.claim \in Nat
  BY <1>b, OfBout
<1> USE <1>b
<1>1. CASE LoopRuns(b) /\ (card[b].owed /\ (card[b].held # 0 /\ slot.claim # card[b].held))
  <2>1. PICK w : w = [card[b] EXCEPT !.held = 0, !.work = "main"]
    OBVIOUS
  <2>h. card[b].home # None
    BY <1>1, <1>o DEF LoopRuns, Looked, CardFits, Lives, Card
  <2>l. Lives(w)
    BY <2>h, <2>1, <1>o DEF Lives, Card
  <2>2. w \in Card
    BY <2>1, <1>c, <1>z, ZenonT(60) DEF Card, Phase
  <2>e. w.home = card[b].home /\ w.passed = card[b].passed
    BY <2>1, <1>c DEF Card
  <2>3. Ends(w)
    BY <1>1, <2>1, <2>h, <1>o DEF LoopRuns, Looked, CardFits, Ends, Card, Terminal
  <2>4. Attends(w)
    BY <1>1, <2>1, <2>h, <1>o DEF LoopRuns, Looked, CardFits, Ends, Attends, Card, Terminal
  <2>5. LanesFit(w, lane[b])
    BY <1>1, <2>1, <2>h, <1>o DEF LoopRuns, Looked, CardFits, Ends, Attends, LanesFit, Card,
       Terminal
  <2>6. BoutFits(b, w, lane[b], job[b]) /\ Adopts(b, w)
    BY <1>1, <2>1, <2>h, <1>o DEF LoopRuns, Looked, CardFits, Ends, Attends, LanesFit,
       BoutFits, Adopts, Quiet, Card, Terminal
  <2>7. Lapsed(b) => back.bout # b \/ (w.state \in Terminal /\ w.run # "readback")
    BY <1>1, <2>1, <2>h, <1>o DEF LoopRuns, Looked, CardFits, Ends, Attends, Lapsed, Card,
       Terminal
  <2>9. UNCHANGED <<slot, leader, bouts, back>> /\ faults' \in 0..MaxFaults /\ main' \in Rings
    BY <1>1, OfRest DEF LoopRuns, Looked, Phase
  <2>8. /\ card' = [card EXCEPT ![b] = w]
        /\ lane' = [lane EXCEPT ![b] = lane[b]] /\ job' = [job EXCEPT ![b] = job[b]]
    BY <1>1, <2>1, <2>h, <1>o DEF LoopRuns, Looked, Put
  <2> QED BY <2>2, <2>3, <2>4, <2>5, <2>6, <2>7, <2>8, <2>9, <2>e, <2>l, <1>o,
         OneCard DEF CardFits
<1>2. CASE LoopRuns(b) /\ (card[b].owed /\ ~(card[b].held # 0 /\ slot.claim # card[b].held))
  <2>1. PICK w : w = [card[b] EXCEPT !.work = "lease"]
    OBVIOUS
  <2>h. card[b].home # None
    BY <1>2, <1>o DEF LoopRuns, Looked, CardFits, Lives, Card
  <2>l. Lives(w)
    BY <2>h, <2>1, <1>o DEF Lives, Card
  <2>2. w \in Card
    BY <2>1, <1>c, <1>z, ZenonT(60) DEF Card, Phase
  <2>e. w.home = card[b].home /\ w.passed = card[b].passed
    BY <2>1, <1>c DEF Card
  <2>3. Ends(w)
    BY <1>2, <2>1, <2>h, <1>o DEF LoopRuns, Looked, CardFits, Ends, Card, Terminal
  <2>4. Attends(w)
    BY <1>2, <2>1, <2>h, <1>o DEF LoopRuns, Looked, CardFits, Ends, Attends, Card, Terminal
  <2>5. LanesFit(w, lane[b])
    BY <1>2, <2>1, <2>h, <1>o DEF LoopRuns, Looked, CardFits, Ends, Attends, LanesFit, Card,
       Terminal
  <2>6. BoutFits(b, w, lane[b], job[b]) /\ Adopts(b, w)
    BY <1>2, <2>1, <2>h, <1>o DEF LoopRuns, Looked, CardFits, Ends, Attends, LanesFit,
       BoutFits, Adopts, Quiet, Card, Terminal
  <2>7. Lapsed(b) => back.bout # b \/ (w.state \in Terminal /\ w.run # "readback")
    BY <1>2, <2>1, <2>h, <1>o DEF LoopRuns, Looked, CardFits, Ends, Attends, Lapsed, Card,
       Terminal
  <2>9. UNCHANGED <<slot, leader, bouts, back>> /\ faults' \in 0..MaxFaults /\ main' \in Rings
    BY <1>2, OfRest DEF LoopRuns, Looked, Phase
  <2>8. /\ card' = [card EXCEPT ![b] = w]
        /\ lane' = [lane EXCEPT ![b] = lane[b]] /\ job' = [job EXCEPT ![b] = job[b]]
    BY <1>2, <2>1, <2>h, <1>o DEF LoopRuns, Looked, Put
  <2> QED BY <2>2, <2>3, <2>4, <2>5, <2>6, <2>7, <2>8, <2>9, <2>e, <2>l, <1>o,
         OneCard DEF CardFits
<1>3. CASE LoopRuns(b) /\ ~card[b].owed
  <2>1. PICK w : w = [card[b] EXCEPT !.loop = FALSE]
    OBVIOUS
  <2>h. card[b].home # None
    BY <1>3, <1>o DEF LoopRuns, CardFits, Lives, Card
  <2>l. Lives(w)
    BY <2>h, <2>1, <1>o DEF Lives, Card
  <2>2. w \in Card
    BY <2>1, <1>c, <1>z, ZenonT(60) DEF Card, Phase
  <2>e. w.home = card[b].home /\ w.passed = card[b].passed
    BY <2>1, <1>c DEF Card
  <2>3. Ends(w)
    BY <1>3, <2>1, <2>h, <1>o DEF LoopRuns, CardFits, Ends, Card, Terminal
  <2>4. Attends(w)
    BY <1>3, <2>1, <2>h, <1>o DEF LoopRuns, CardFits, Ends, Attends, Card, Terminal
  <2>5. LanesFit(w, lane[b])
    BY <1>3, <2>1, <2>h, <1>o DEF LoopRuns, CardFits, Ends, Attends, LanesFit, Card,
       Terminal
  <2>6. BoutFits(b, w, lane[b], job[b]) /\ Adopts(b, w)
    BY <1>3, <2>1, <2>h, <1>o DEF LoopRuns, CardFits, Ends, Attends, LanesFit, BoutFits,
       Adopts, Quiet, Card, Terminal
  <2>7. Lapsed(b) => back.bout # b \/ (w.state \in Terminal /\ w.run # "readback")
    BY <1>3, <2>1, <2>h, <1>o DEF LoopRuns, CardFits, Ends, Attends, Lapsed, Card, Terminal
  <2>9. UNCHANGED <<slot, leader, bouts, back>> /\ faults' \in 0..MaxFaults /\ main' \in Rings
    BY <1>3, OfRest DEF LoopRuns, Phase
  <2>8. /\ card' = [card EXCEPT ![b] = w]
        /\ lane' = [lane EXCEPT ![b] = lane[b]] /\ job' = [job EXCEPT ![b] = job[b]]
    BY <1>3, <2>1, <2>h, <1>o DEF LoopRuns, Put
  <2> QED BY <2>2, <2>3, <2>4, <2>5, <2>6, <2>7, <2>8, <2>9, <2>e, <2>l, <1>o,
         OneCard DEF CardFits
<1>4. CASE Looks(b) /\ (card[b].held # 0 /\ slot.claim # card[b].held)
  <2>1. PICK w : w = [card[b] EXCEPT !.held = 0, !.work = "main"]
    OBVIOUS
  <2>h. card[b].home # None
    BY <1>4, <1>o DEF Looks, Looked, CardFits, Lives, Card
  <2>l. Lives(w)
    BY <2>h, <2>1, <1>o DEF Lives, Card
  <2>2. w \in Card
    BY <2>1, <1>c, <1>z, ZenonT(60) DEF Card, Phase
  <2>e. w.home = card[b].home /\ w.passed = card[b].passed
    BY <2>1, <1>c DEF Card
  <2>3. Ends(w)
    BY <1>4, <2>1, <2>h, <1>o DEF Looks, Looked, CardFits, Ends, Card, Terminal
  <2>4. Attends(w)
    BY <1>4, <2>1, <2>h, <1>o DEF Looks, Looked, CardFits, Ends, Attends, Card, Terminal
  <2>5. LanesFit(w, lane[b])
    BY <1>4, <2>1, <2>h, <1>o DEF Looks, Looked, CardFits, Ends, Attends, LanesFit, Card,
       Terminal
  <2>6. BoutFits(b, w, lane[b], job[b]) /\ Adopts(b, w)
    BY <1>4, <2>1, <2>h, <1>o DEF Looks, Looked, CardFits, Ends, Attends, LanesFit,
       BoutFits, Adopts, Quiet, Card, Terminal
  <2>7. Lapsed(b) => back.bout # b \/ (w.state \in Terminal /\ w.run # "readback")
    BY <1>4, <2>1, <2>h, <1>o DEF Looks, Looked, CardFits, Ends, Attends, Lapsed, Card,
       Terminal
  <2>9. UNCHANGED <<slot, leader, bouts, back>> /\ faults' \in 0..MaxFaults /\ main' \in Rings
    BY <1>4, OfRest DEF Looks, Looked, Phase
  <2>8. /\ card' = [card EXCEPT ![b] = w]
        /\ lane' = [lane EXCEPT ![b] = lane[b]] /\ job' = [job EXCEPT ![b] = job[b]]
    BY <1>4, <2>1, <2>h, <1>o DEF Looks, Looked, Put
  <2> QED BY <2>2, <2>3, <2>4, <2>5, <2>6, <2>7, <2>8, <2>9, <2>e, <2>l, <1>o,
         OneCard DEF CardFits
<1>5. CASE Looks(b) /\ ~(card[b].held # 0 /\ slot.claim # card[b].held)
  <2>1. PICK w : w = [card[b] EXCEPT !.work = "lease"]
    OBVIOUS
  <2>h. card[b].home # None
    BY <1>5, <1>o DEF Looks, Looked, CardFits, Lives, Card
  <2>l. Lives(w)
    BY <2>h, <2>1, <1>o DEF Lives, Card
  <2>2. w \in Card
    BY <2>1, <1>c, <1>z, ZenonT(60) DEF Card, Phase
  <2>e. w.home = card[b].home /\ w.passed = card[b].passed
    BY <2>1, <1>c DEF Card
  <2>3. Ends(w)
    BY <1>5, <2>1, <2>h, <1>o DEF Looks, Looked, CardFits, Ends, Card, Terminal
  <2>4. Attends(w)
    BY <1>5, <2>1, <2>h, <1>o DEF Looks, Looked, CardFits, Ends, Attends, Card, Terminal
  <2>5. LanesFit(w, lane[b])
    BY <1>5, <2>1, <2>h, <1>o DEF Looks, Looked, CardFits, Ends, Attends, LanesFit, Card,
       Terminal
  <2>6. BoutFits(b, w, lane[b], job[b]) /\ Adopts(b, w)
    BY <1>5, <2>1, <2>h, <1>o DEF Looks, Looked, CardFits, Ends, Attends, LanesFit,
       BoutFits, Adopts, Quiet, Card, Terminal
  <2>7. Lapsed(b) => back.bout # b \/ (w.state \in Terminal /\ w.run # "readback")
    BY <1>5, <2>1, <2>h, <1>o DEF Looks, Looked, CardFits, Ends, Attends, Lapsed, Card,
       Terminal
  <2>9. UNCHANGED <<slot, leader, bouts, back>> /\ faults' \in 0..MaxFaults /\ main' \in Rings
    BY <1>5, OfRest DEF Looks, Looked, Phase
  <2>8. /\ card' = [card EXCEPT ![b] = w]
        /\ lane' = [lane EXCEPT ![b] = lane[b]] /\ job' = [job EXCEPT ![b] = job[b]]
    BY <1>5, <2>1, <2>h, <1>o DEF Looks, Looked, Put
  <2> QED BY <2>2, <2>3, <2>4, <2>5, <2>6, <2>7, <2>8, <2>9, <2>e, <2>l, <1>o,
         OneCard DEF CardFits
<1>6. CASE Leases(b) /\ ((card[b].clean = "round5_cleanup" \/ Retained(b, TRUE) = "round5_cleanup") /\ card[b].held = 0)
  <2>1. PICK w : w = [card[b] EXCEPT !.clean = "round5_cleanup", !.work = "main"]
    OBVIOUS
  <2>h. card[b].home # None
    BY <1>6, <1>o DEF Leases, Retain, Retained, CanRetain, CanReclaim, OwnsBack, Owing,
       CardFits, Lives, Card
  <2>l. Lives(w)
    BY <2>h, <2>1, <1>o DEF Lives, Card
  <2>2. w \in Card
    BY <2>1, <1>c, <1>z, ZenonT(60) DEF Card, Phase
  <2>e. w.home = card[b].home /\ w.passed = card[b].passed
    BY <2>1, <1>c DEF Card
  <2>3. Ends(w)
    BY <1>6, <2>1, <2>h, <1>o DEF Leases, Retain, Retained, CanRetain, CanReclaim, OwnsBack,
       Owing, CardFits, Ends, Card, Terminal
  <2>4. Attends(w)
    BY <1>6, <2>1, <2>h, <1>o DEF Leases, Retain, Retained, CanRetain, CanReclaim, OwnsBack,
       Owing, CardFits, Ends, Attends, Card, Terminal
  <2>5. LanesFit(w, lane[b])
    BY <1>6, <2>1, <2>h, <1>o DEF Leases, Retain, Retained, CanRetain, CanReclaim, OwnsBack,
       Owing, CardFits, Ends, Attends, LanesFit, Card, Terminal
  <2>s. slot' = slot
    BY <1>6, OfRest DEF Leases, Retain, Retained, CanRetain, CanReclaim, OwnsBack, Owing
  <2>9. /\ UNCHANGED <<leader, bouts>> /\ faults' \in 0..MaxFaults
        /\ main' \in Rings /\ back' \in Rings
    BY <1>6, OfRest DEF Leases, Retain, Retained, CanRetain, CanReclaim, OwnsBack, Owing,
       Phase
  <2>a. back' # back => back.bout \in {0, b} /\ back'.bout \in {0, b}
    BY <1>6, OfRest DEF Leases, Retain, Retained, CanRetain, CanReclaim, OwnsBack, Owing,
       Row, Rings, Gone
  <2>6. BoutFits(b, w, lane[b], job[b])'
    BY <1>6, <2>1, <2>h, <1>o, <2>s, <2>9 DEF Leases, Retain, Retained, CanRetain,
       CanReclaim, OwnsBack, Owing, CardFits, Ends, Attends, LanesFit, BoutFits, Quiet,
              Card, Terminal, Row
  <2>b. Adopts(b, w)
    BY <1>6, <2>1, <2>h, <1>o DEF Leases, Retain, Retained, CanRetain, CanReclaim, OwnsBack,
       Owing, CardFits, Attends, Adopts, Card
  <2>7. Lapsed(b) => back'.bout # b \/ (w.state \in Terminal /\ w.run # "readback")
    BY <1>6, <2>1, <2>h, <1>o DEF Leases, Retain, Retained, CanRetain, CanReclaim, OwnsBack,
       Owing, CardFits, Ends, Attends, Lapsed, Card, Terminal, Row
  <2>8. /\ card' = [card EXCEPT ![b] = w]
        /\ lane' = [lane EXCEPT ![b] = lane[b]] /\ job' = [job EXCEPT ![b] = job[b]]
    BY <1>6, <2>1, <2>h, <1>o DEF Leases, Retain, Retained, CanRetain, CanReclaim, OwnsBack,
       Owing, Put
  <2> QED BY <2>2, <2>3, <2>4, <2>5, <2>6, <2>7, <2>8, <2>9, <2>e, <2>a, <2>s, <2>b, <2>l,
         <1>o, OneRow DEF CardFits
<1>7. CASE Leases(b) /\ ((card[b].clean = "round5_cleanup" \/ Retained(b, TRUE) = "round5_cleanup") /\ card[b].held # 0)
  <2>1. PICK w : w = [card[b] EXCEPT !.clean = "round5_cleanup", !.work = "fence"]
    OBVIOUS
  <2>h. card[b].home # None
    BY <1>7, <1>o DEF Leases, Retain, Retained, CanRetain, CanReclaim, OwnsBack, Owing,
       CardFits, Lives, Card
  <2>l. Lives(w)
    BY <2>h, <2>1, <1>o DEF Lives, Card
  <2>2. w \in Card
    BY <2>1, <1>c, <1>z, ZenonT(60) DEF Card, Phase
  <2>e. w.home = card[b].home /\ w.passed = card[b].passed
    BY <2>1, <1>c DEF Card
  <2>3. Ends(w)
    BY <1>7, <2>1, <2>h, <1>o DEF Leases, Retain, Retained, CanRetain, CanReclaim, OwnsBack,
       Owing, CardFits, Ends, Card, Terminal
  <2>4. Attends(w)
    BY <1>7, <2>1, <2>h, <1>o DEF Leases, Retain, Retained, CanRetain, CanReclaim, OwnsBack,
       Owing, CardFits, Ends, Attends, Card, Terminal
  <2>5. LanesFit(w, lane[b])
    BY <1>7, <2>1, <2>h, <1>o DEF Leases, Retain, Retained, CanRetain, CanReclaim, OwnsBack,
       Owing, CardFits, Ends, Attends, LanesFit, Card, Terminal
  <2>s. slot' = slot
    BY <1>7, OfRest DEF Leases, Retain, Retained, CanRetain, CanReclaim, OwnsBack, Owing
  <2>9. /\ UNCHANGED <<leader, bouts>> /\ faults' \in 0..MaxFaults
        /\ main' \in Rings /\ back' \in Rings
    BY <1>7, OfRest DEF Leases, Retain, Retained, CanRetain, CanReclaim, OwnsBack, Owing,
       Phase
  <2>a. back' # back => back.bout \in {0, b} /\ back'.bout \in {0, b}
    BY <1>7, OfRest DEF Leases, Retain, Retained, CanRetain, CanReclaim, OwnsBack, Owing,
       Row, Rings, Gone
  <2>6. BoutFits(b, w, lane[b], job[b])'
    BY <1>7, <2>1, <2>h, <1>o, <2>s, <2>9 DEF Leases, Retain, Retained, CanRetain,
       CanReclaim, OwnsBack, Owing, CardFits, Ends, Attends, LanesFit, BoutFits, Quiet,
              Card, Terminal, Row
  <2>b. Adopts(b, w)
    BY <1>7, <2>1, <2>h, <1>o DEF Leases, Retain, Retained, CanRetain, CanReclaim, OwnsBack,
       Owing, CardFits, Attends, Adopts, Card, BoutFits, Lapsed, Row
  <2>7. Lapsed(b) => back'.bout # b \/ (w.state \in Terminal /\ w.run # "readback")
    BY <1>7, <2>1, <2>h, <1>o DEF Leases, Retain, Retained, CanRetain, CanReclaim, OwnsBack,
       Owing, CardFits, Ends, Attends, Lapsed, Card, Terminal, Row
  <2>8. /\ card' = [card EXCEPT ![b] = w]
        /\ lane' = [lane EXCEPT ![b] = lane[b]] /\ job' = [job EXCEPT ![b] = job[b]]
    BY <1>7, <2>1, <2>h, <1>o DEF Leases, Retain, Retained, CanRetain, CanReclaim, OwnsBack,
       Owing, Put
  <2> QED BY <2>2, <2>3, <2>4, <2>5, <2>6, <2>7, <2>8, <2>9, <2>e, <2>a, <2>s, <2>b, <2>l,
         <1>o, OneRow DEF CardFits
<1>8. CASE Leases(b) /\ ~(card[b].clean = "round5_cleanup" \/ Retained(b, TRUE) = "round5_cleanup")
  <2>1. PICK w : w = Pending([card[b] EXCEPT !.clean = "none"])
    OBVIOUS
  <2>h. card[b].home # None
    BY <1>8, <1>o DEF Leases, Retain, Retained, CanRetain, CanReclaim, OwnsBack, Owing,
       Pending, Owing, CardFits, Lives, Card
  <2>l. Lives(w)
    BY <2>h, <2>1, <1>o DEF Lives, Card, Owing, Pending
  <2>2. w \in Card
    BY <2>1, <1>c, <1>z, ZenonT(60) DEF Card, Phase, Owing, Pending
  <2>e. w.home = card[b].home /\ w.passed = card[b].passed
    BY <2>1, <1>c DEF Card, Owing, Pending
  <2>3. Ends(w)
    BY <1>8, <2>1, <2>h, <1>o DEF Leases, Retain, Retained, CanRetain, CanReclaim, OwnsBack,
       Owing, Pending, Owing, CardFits, Ends, Card, Terminal
  <2>4. Attends(w)
    BY <1>8, <2>1, <2>h, <1>o DEF Leases, Retain, Retained, CanRetain, CanReclaim, OwnsBack,
       Owing, Pending, Owing, CardFits, Ends, Attends, Card, Terminal
  <2>5. LanesFit(w, lane[b])
    BY <1>8, <2>1, <2>h, <1>o DEF Leases, Retain, Retained, CanRetain, CanReclaim, OwnsBack,
       Owing, Pending, Owing, CardFits, Ends, Attends, LanesFit, Card, Terminal
  <2>s. slot' = slot
    BY <1>8, OfRest DEF Leases, Retain, Retained, CanRetain, CanReclaim, OwnsBack, Owing,
       Pending, Owing
  <2>9. /\ UNCHANGED <<leader, bouts>> /\ faults' \in 0..MaxFaults
        /\ main' \in Rings /\ back' \in Rings
    BY <1>8, OfRest DEF Leases, Retain, Retained, CanRetain, CanReclaim, OwnsBack, Owing,
       Pending, Owing, Phase
  <2>a. back' # back => back.bout \in {0, b} /\ back'.bout \in {0, b}
    BY <1>8, OfRest DEF Leases, Retain, Retained, CanRetain, CanReclaim, OwnsBack, Owing,
       Pending, Owing, Row, Rings, Gone
  <2>6. BoutFits(b, w, lane[b], job[b])'
    BY <1>8, <2>1, <2>h, <1>o, <2>s, <2>9 DEF Leases, Retain, Retained, CanRetain,
       CanReclaim, OwnsBack, Owing, Pending, Owing, CardFits, Ends, Attends, LanesFit,
              BoutFits, Quiet, Card, Terminal, Row
  <2>b. Adopts(b, w)
    BY <1>8, <2>1, <2>h, <1>o DEF Leases, Retain, Retained, CanRetain, CanReclaim, OwnsBack,
       Owing, Pending, Owing, CardFits, Attends, Adopts, Card
  <2>7. Lapsed(b) => back'.bout # b \/ (w.state \in Terminal /\ w.run # "readback")
    BY <1>8, <2>1, <2>h, <1>o DEF Leases, Retain, Retained, CanRetain, CanReclaim, OwnsBack,
       Owing, Pending, Owing, CardFits, Ends, Attends, Lapsed, Card, Terminal, Row
  <2>8. /\ card' = [card EXCEPT ![b] = w]
        /\ lane' = [lane EXCEPT ![b] = lane[b]] /\ job' = [job EXCEPT ![b] = job[b]]
    BY <1>8, <2>1, <2>h, <1>o DEF Leases, Retain, Retained, CanRetain, CanReclaim, OwnsBack,
       Owing, Pending, Owing, Put
  <2> QED BY <2>2, <2>3, <2>4, <2>5, <2>6, <2>7, <2>8, <2>9, <2>e, <2>a, <2>s, <2>b, <2>l,
         <1>o, OneRow DEF CardFits
<1>9. CASE Fences(b) /\ Put(b, Pending(card[b])) /\ UNCHANGED slot
  <2>1. PICK w : w = Pending(card[b])
    OBVIOUS
  <2>h. card[b].home # None
    BY <1>9, <1>o DEF Fences, Pending, Owing, CardFits, Lives, Card
  <2>l. Lives(w)
    BY <2>h, <2>1, <1>o DEF Lives, Card, Owing, Pending
  <2>2. w \in Card
    BY <2>1, <1>c, <1>z, ZenonT(60) DEF Card, Phase, Owing, Pending
  <2>e. w.home = card[b].home /\ w.passed = card[b].passed
    BY <2>1, <1>c DEF Card, Owing, Pending
  <2>3. Ends(w)
    BY <1>9, <2>1, <2>h, <1>o DEF Fences, Pending, Owing, CardFits, Ends, Card, Terminal
  <2>4. Attends(w)
    BY <1>9, <2>1, <2>h, <1>o DEF Fences, Pending, Owing, CardFits, Ends, Attends, Card,
       Terminal
  <2>5. LanesFit(w, lane[b])
    BY <1>9, <2>1, <2>h, <1>o DEF Fences, Pending, Owing, CardFits, Ends, Attends, LanesFit,
       Card, Terminal
  <2>6. BoutFits(b, w, lane[b], job[b]) /\ Adopts(b, w)
    BY <1>9, <2>1, <2>h, <1>o DEF Fences, Pending, Owing, CardFits, Ends, Attends, LanesFit,
       BoutFits, Adopts, Quiet, Card, Terminal
  <2>7. Lapsed(b) => back.bout # b \/ (w.state \in Terminal /\ w.run # "readback")
    BY <1>9, <2>1, <2>h, <1>o DEF Fences, Pending, Owing, CardFits, Ends, Attends, Lapsed,
       Card, Terminal
  <2>9. UNCHANGED <<slot, leader, bouts, back>> /\ faults' \in 0..MaxFaults /\ main' \in Rings
    BY <1>9, OfRest DEF Fences, Pending, Owing, Phase
  <2>8. /\ card' = [card EXCEPT ![b] = w]
        /\ lane' = [lane EXCEPT ![b] = lane[b]] /\ job' = [job EXCEPT ![b] = job[b]]
    BY <1>9, <2>1, <2>h, <1>o DEF Fences, Pending, Owing, Put
  <2> QED BY <2>2, <2>3, <2>4, <2>5, <2>6, <2>7, <2>8, <2>9, <2>e, <2>l, <1>o,
         OneCard DEF CardFits
<1>10. CASE Fences(b) /\ CanFence(b, card[b].held) /\ slot' = Cleaning
              /\ FencedBy(b, [card[b] EXCEPT !.work = "converge"])
  <2>1. PICK w : w = [card[b] EXCEPT !.work = "converge"]
    OBVIOUS
  <2>h. card[b].home # None
    BY <1>10, <1>o DEF Fences, CanFence, Cleaning, CardFits, Lives, Card
  <2>l. Lives(w)
    BY <2>h, <2>1, <1>o DEF Lives, Card
  <2>2. w \in Card
    BY <2>1, <1>c, <1>z, ZenonT(60) DEF Card, Phase
  <2>e. w.home = card[b].home /\ w.passed = card[b].passed
    BY <2>1, <1>c DEF Card
  <2>3. Ends(w)
    BY <1>10, <2>1, <2>h, <1>o DEF Fences, CanFence, Cleaning, CardFits, Ends, Card,
       Terminal
  <2>4. Attends(w)
    BY <1>10, <2>1, <2>h, <1>o DEF Fences, CanFence, Cleaning, CardFits, Ends, Attends,
       Card, Terminal
  <2>5. LanesFit(w, lane[b])
    BY <1>10, <2>1, <2>h, <1>o DEF Fences, CanFence, Cleaning, CardFits, Ends, Attends,
       LanesFit, Card, Terminal
  <2>s. slot' = [slot EXCEPT !.state = "cleaning"] /\ slot.claim # 0
    BY <1>10, OfRest DEF Fences, CanFence, Cleaning
  <2>9. /\ UNCHANGED <<leader, bouts>> /\ faults' \in 0..MaxFaults
        /\ main' \in Rings /\ back' \in Rings
    BY <1>10, OfRest DEF Fences, CanFence, Cleaning, Phase
  <2>a. back' # back => back.bout \in {0, b} /\ back'.bout \in {0, b}
    BY <1>10, OfRest DEF Fences, CanFence, Cleaning, Row, Rings, Gone
  <2>6. BoutFits(b, w, lane[b], job[b])'
    BY <1>10, <2>1, <2>h, <1>o, <2>s, <2>9 DEF Fences, CanFence, Cleaning, CardFits, Ends,
       Attends, LanesFit, BoutFits, Quiet, Card, Terminal, Row
  <2>b. Adopts(b, w)
    BY <1>10, <2>1, <2>h, <1>o DEF Fences, CanFence, Cleaning, CardFits, Attends, Adopts,
       Card
  <2>7. Lapsed(b) => back'.bout # b \/ (w.state \in Terminal /\ w.run # "readback")
    BY <1>10, <2>1, <2>h, <1>o DEF Fences, CanFence, Cleaning, CardFits, Ends, Attends,
       Lapsed, Card, Terminal, Row
  <2>8. FencedBy(b, w) /\ lane' = lane /\ job' = job
    BY <1>10, <2>1, <2>h, <1>o DEF Fences, CanFence, Cleaning
  <2> QED BY <2>2, <2>3, <2>4, <2>5, <2>6, <2>7, <2>8, <2>9, <2>e, <2>a, <2>s, <2>b, <2>l,
         <1>o, OneFence DEF CardFits
<1>11. CASE Converges(b) /\ slot.claim = card[b].held
  <2>1. PICK w : w = Pending(card[b])
    OBVIOUS
  <2>h. card[b].home # None
    BY <1>11, <1>o DEF Converges, Pending, Owing, CardFits, Lives, Card
  <2>l. Lives(w)
    BY <2>h, <2>1, <1>o DEF Lives, Card, Owing, Pending
  <2>2. w \in Card
    BY <2>1, <1>c, <1>z, ZenonT(60) DEF Card, Phase, Owing, Pending
  <2>e. w.home = card[b].home /\ w.passed = card[b].passed
    BY <2>1, <1>c DEF Card, Owing, Pending
  <2>3. Ends(w)
    BY <1>11, <2>1, <2>h, <1>o DEF Converges, Pending, Owing, CardFits, Ends, Card, Terminal
  <2>4. Attends(w)
    BY <1>11, <2>1, <2>h, <1>o DEF Converges, Pending, Owing, CardFits, Ends, Attends, Card,
       Terminal
  <2>5. LanesFit(w, lane[b])
    BY <1>11, <2>1, <2>h, <1>o DEF Converges, Pending, Owing, CardFits, Ends, Attends,
       LanesFit, Card, Terminal
  <2>6. BoutFits(b, w, lane[b], job[b]) /\ Adopts(b, w)
    BY <1>11, <2>1, <2>h, <1>o DEF Converges, Pending, Owing, CardFits, Ends, Attends,
       LanesFit, BoutFits, Adopts, Quiet, Card, Terminal
  <2>7. Lapsed(b) => back.bout # b \/ (w.state \in Terminal /\ w.run # "readback")
    BY <1>11, <2>1, <2>h, <1>o DEF Converges, Pending, Owing, CardFits, Ends, Attends,
       Lapsed, Card, Terminal
  <2>9. UNCHANGED <<slot, leader, bouts, back>> /\ faults' \in 0..MaxFaults /\ main' \in Rings
    BY <1>11, OfRest DEF Converges, Pending, Owing, Phase
  <2>8. /\ card' = [card EXCEPT ![b] = w]
        /\ lane' = [lane EXCEPT ![b] = lane[b]] /\ job' = [job EXCEPT ![b] = job[b]]
    BY <1>11, <2>1, <2>h, <1>o DEF Converges, Pending, Owing, Put
  <2> QED BY <2>2, <2>3, <2>4, <2>5, <2>6, <2>7, <2>8, <2>9, <2>e, <2>l, <1>o,
         OneCard DEF CardFits
<1>12. CASE Converges(b) /\ (slot.claim # card[b].held /\ slot.state = "warming")
  <2>1. PICK w : w = [card[b] EXCEPT !.held = 0, !.work = "main"]
    OBVIOUS
  <2>h. card[b].home # None
    BY <1>12, <1>o DEF Converges, CardFits, Lives, Card
  <2>l. Lives(w)
    BY <2>h, <2>1, <1>o DEF Lives, Card
  <2>2. w \in Card
    BY <2>1, <1>c, <1>z, ZenonT(60) DEF Card, Phase
  <2>e. w.home = card[b].home /\ w.passed = card[b].passed
    BY <2>1, <1>c DEF Card
  <2>3. Ends(w)
    BY <1>12, <2>1, <2>h, <1>o DEF Converges, CardFits, Ends, Card, Terminal
  <2>4. Attends(w)
    BY <1>12, <2>1, <2>h, <1>o DEF Converges, CardFits, Ends, Attends, Card, Terminal
  <2>5. LanesFit(w, lane[b])
    BY <1>12, <2>1, <2>h, <1>o DEF Converges, CardFits, Ends, Attends, LanesFit, Card,
       Terminal
  <2>6. BoutFits(b, w, lane[b], job[b]) /\ Adopts(b, w)
    BY <1>12, <2>1, <2>h, <1>o DEF Converges, CardFits, Ends, Attends, LanesFit, BoutFits,
       Adopts, Quiet, Card, Terminal
  <2>7. Lapsed(b) => back.bout # b \/ (w.state \in Terminal /\ w.run # "readback")
    BY <1>12, <2>1, <2>h, <1>o DEF Converges, CardFits, Ends, Attends, Lapsed, Card,
       Terminal
  <2>9. UNCHANGED <<slot, leader, bouts, back>> /\ faults' \in 0..MaxFaults /\ main' \in Rings
    BY <1>12, OfRest DEF Converges, Phase
  <2>8. /\ card' = [card EXCEPT ![b] = w]
        /\ lane' = [lane EXCEPT ![b] = lane[b]] /\ job' = [job EXCEPT ![b] = job[b]]
    BY <1>12, <2>1, <2>h, <1>o DEF Converges, Put
  <2> QED BY <2>2, <2>3, <2>4, <2>5, <2>6, <2>7, <2>8, <2>9, <2>e, <2>l, <1>o,
         OneCard DEF CardFits
<1>13. CASE Converges(b) /\ (slot.claim # card[b].held /\ slot.state # "warming")
  <2>1. PICK w : w = Pending([card[b] EXCEPT !.held = slot.claim])
    OBVIOUS
  <2>h. card[b].home # None
    BY <1>13, <1>o DEF Converges, Pending, Owing, CardFits, Lives, Card
  <2>l. Lives(w)
    BY <2>h, <2>1, <1>o DEF Lives, Card, Owing, Pending
  <2>2. w \in Card
    BY <2>1, <1>c, <1>z, ZenonT(60) DEF Card, Phase, Owing, Pending
  <2>e. w.home = card[b].home /\ w.passed = card[b].passed
    BY <2>1, <1>c DEF Card, Owing, Pending
  <2>3. Ends(w)
    BY <1>13, <2>1, <2>h, <1>o DEF Converges, Pending, Owing, CardFits, Ends, Card, Terminal
  <2>4. Attends(w)
    BY <1>13, <2>1, <2>h, <1>o DEF Converges, Pending, Owing, CardFits, Ends, Attends, Card,
       Terminal
  <2>5. LanesFit(w, lane[b])
    BY <1>13, <2>1, <2>h, <1>o DEF Converges, Pending, Owing, CardFits, Ends, Attends,
       LanesFit, Card, Terminal
  <2>f. w.held = slot.claim /\ w.work = "none" /\ w.clean = card[b].clean /\ w.run = card[b].run
        /\ w.home = card[b].home /\ w.late = card[b].late /\ w.passed = card[b].passed
    BY <2>1, <1>c DEF Card, Pending, Owing
  <2>6. BoutFits(b, w, lane[b], job[b]) /\ Adopts(b, w)
    BY <1>13, <2>1, <2>h, <1>o, <2>f, <1>z DEF Converges, Pending, Owing, CardFits, Ends,
       Attends, LanesFit, BoutFits, Adopts, Quiet, Terminal
  <2>7. Lapsed(b) => back.bout # b \/ (w.state \in Terminal /\ w.run # "readback")
    BY <1>13, <2>1, <2>h, <1>o DEF Converges, Pending, Owing, CardFits, Ends, Attends,
       Lapsed, Card, Terminal
  <2>9. UNCHANGED <<slot, leader, bouts, back>> /\ faults' \in 0..MaxFaults /\ main' \in Rings
    BY <1>13, OfRest DEF Converges, Pending, Owing, Phase
  <2>8. /\ card' = [card EXCEPT ![b] = w]
        /\ lane' = [lane EXCEPT ![b] = lane[b]] /\ job' = [job EXCEPT ![b] = job[b]]
    BY <1>13, <2>1, <2>h, <1>o DEF Converges, Pending, Owing, Put
  <2> QED BY <2>2, <2>3, <2>4, <2>5, <2>6, <2>7, <2>8, <2>9, <2>e, <2>l, <1>o,
         OneCard DEF CardFits
<1>14. CASE ReleasesMain(b) /\ (card[b].ring = "none" \/ OwnsMain(b) \/ main.bout = 0)
  <2>1. PICK w : w = [card[b] EXCEPT !.ring = "none", !.work = "back"]
    OBVIOUS
  <2>h. card[b].home # None
    BY <1>14, <1>o DEF ReleasesMain, CardFits, Lives, Card
  <2>l. Lives(w)
    BY <2>h, <2>1, <1>o DEF Lives, Card
  <2>2. w \in Card
    BY <2>1, <1>c, <1>z, ZenonT(60) DEF Card, Phase
  <2>e. w.home = card[b].home /\ w.passed = card[b].passed
    BY <2>1, <1>c DEF Card
  <2>3. Ends(w)
    BY <1>14, <2>1, <2>h, <1>o DEF ReleasesMain, CardFits, Ends, Card, Terminal, Attends
  <2>4. Attends(w)
    BY <1>14, <2>1, <2>h, <1>o DEF ReleasesMain, CardFits, Ends, Attends, Card, Terminal
  <2>5. LanesFit(w, lane[b])
    BY <1>14, <2>1, <2>h, <1>o DEF ReleasesMain, CardFits, Ends, Attends, LanesFit, Card,
       Terminal
  <2>6. BoutFits(b, w, lane[b], job[b]) /\ Adopts(b, w)
    BY <1>14, <2>1, <2>h, <1>o DEF ReleasesMain, CardFits, Ends, Attends, LanesFit,
       BoutFits, Adopts, Quiet, Card, Terminal
  <2>7. Lapsed(b) => back.bout # b \/ (w.state \in Terminal /\ w.run # "readback")
    BY <1>14, <2>1, <2>h, <1>o DEF ReleasesMain, CardFits, Ends, Attends, Lapsed, Card,
       Terminal
  <2>9. UNCHANGED <<slot, leader, bouts, back>> /\ faults' \in 0..MaxFaults /\ main' \in Rings
    BY <1>14, OfRest DEF ReleasesMain, Phase
  <2>8. /\ card' = [card EXCEPT ![b] = w]
        /\ lane' = [lane EXCEPT ![b] = lane[b]] /\ job' = [job EXCEPT ![b] = job[b]]
    BY <1>14, <2>1, <2>h, <1>o DEF ReleasesMain, Put
  <2> QED BY <2>2, <2>3, <2>4, <2>5, <2>6, <2>7, <2>8, <2>9, <2>e, <2>l, <1>o,
         OneCard DEF CardFits
<1>15. CASE ReleasesMain(b) /\ ~(card[b].ring = "none" \/ OwnsMain(b) \/ main.bout = 0)
  <2>1. PICK w : w = Pending([card[b] EXCEPT !.ring = "none", !.lost = TRUE])
    OBVIOUS
  <2>h. card[b].home # None
    BY <1>15, <1>o DEF ReleasesMain, Pending, Owing, CardFits, Lives, Card
  <2>l. Lives(w)
    BY <2>h, <2>1, <1>o DEF Lives, Card, Owing, Pending
  <2>2. w \in Card
    BY <2>1, <1>c, <1>z, ZenonT(60) DEF Card, Phase, Owing, Pending
  <2>e. w.home = card[b].home /\ w.passed = card[b].passed
    BY <2>1, <1>c DEF Card, Owing, Pending
  <2>3. Ends(w)
    BY <1>15, <2>1, <2>h, <1>o DEF ReleasesMain, Pending, Owing, CardFits, Ends, Card,
       Terminal, Attends
  <2>4. Attends(w)
    BY <1>15, <2>1, <2>h, <1>o DEF ReleasesMain, Pending, Owing, CardFits, Ends, Attends,
       Card, Terminal
  <2>5. LanesFit(w, lane[b])
    BY <1>15, <2>1, <2>h, <1>o DEF ReleasesMain, Pending, Owing, CardFits, Ends, Attends,
       LanesFit, Card, Terminal
  <2>6. BoutFits(b, w, lane[b], job[b]) /\ Adopts(b, w)
    BY <1>15, <2>1, <2>h, <1>o DEF ReleasesMain, Pending, Owing, CardFits, Ends, Attends,
       LanesFit, BoutFits, Adopts, Quiet, Card, Terminal
  <2>7. Lapsed(b) => back.bout # b \/ (w.state \in Terminal /\ w.run # "readback")
    BY <1>15, <2>1, <2>h, <1>o DEF ReleasesMain, Pending, Owing, CardFits, Ends, Attends,
       Lapsed, Card, Terminal
  <2>9. UNCHANGED <<slot, leader, bouts, back>> /\ faults' \in 0..MaxFaults /\ main' \in Rings
    BY <1>15, OfRest DEF ReleasesMain, Pending, Owing, Phase
  <2>8. /\ card' = [card EXCEPT ![b] = w]
        /\ lane' = [lane EXCEPT ![b] = lane[b]] /\ job' = [job EXCEPT ![b] = job[b]]
    BY <1>15, <2>1, <2>h, <1>o DEF ReleasesMain, Pending, Owing, Put
  <2> QED BY <2>2, <2>3, <2>4, <2>5, <2>6, <2>7, <2>8, <2>9, <2>e, <2>l, <1>o,
         OneCard DEF CardFits
<1>16. CASE ReleasesBack(b) /\ (card[b].clean = "none" \/ OwnsBack(b) \/ back.bout = 0)
  <2>1. PICK w : w = [card[b] EXCEPT !.clean = "none", !.owed = FALSE, !.work = "none",
                                              !.loop = FALSE]
    OBVIOUS
  <2>h. card[b].home # None
    BY <1>16, <1>o DEF ReleasesBack, OwnsBack, CardFits, Lives, Card
  <2>l. Lives(w)
    BY <2>h, <2>1, <1>o DEF Lives, Card
  <2>2. w \in Card
    BY <2>1, <1>c, <1>z, ZenonT(60) DEF Card, Phase
  <2>e. w.home = card[b].home /\ w.passed = card[b].passed
    BY <2>1, <1>c DEF Card
  <2>3. Ends(w)
    BY <1>16, <2>1, <2>h, <1>o DEF ReleasesBack, OwnsBack, CardFits, Ends, Card, Terminal
  <2>4. Attends(w)
    BY <1>16, <2>1, <2>h, <1>o DEF ReleasesBack, OwnsBack, CardFits, Ends, Attends, Card,
       Terminal
  <2>5. LanesFit(w, lane[b])
    BY <1>16, <2>1, <2>h, <1>o DEF ReleasesBack, OwnsBack, CardFits, Ends, Attends,
       LanesFit, Card, Terminal
  <2>s. slot' = slot
    BY <1>16, OfRest DEF ReleasesBack, OwnsBack
  <2>9. /\ UNCHANGED <<leader, bouts>> /\ faults' \in 0..MaxFaults
        /\ main' \in Rings /\ back' \in Rings
    BY <1>16, OfRest DEF ReleasesBack, OwnsBack, Phase
  <2>a. back' # back => back.bout \in {0, b} /\ back'.bout \in {0, b}
    BY <1>16, OfRest DEF ReleasesBack, OwnsBack, Row, Rings, Gone
  <2>6. BoutFits(b, w, lane[b], job[b])'
    BY <1>16, <2>1, <2>h, <1>o, <2>s, <2>9 DEF ReleasesBack, OwnsBack, CardFits, Ends,
       Attends, LanesFit, BoutFits, Quiet, Card, Terminal, Row
  <2>b. Adopts(b, w)
    BY <1>16, <2>1, <2>h, <1>o DEF ReleasesBack, OwnsBack, CardFits, Attends, Adopts, Card
  <2>7. Lapsed(b) => back'.bout # b \/ (w.state \in Terminal /\ w.run # "readback")
    BY <1>16, <2>1, <2>h, <1>o DEF ReleasesBack, OwnsBack, CardFits, Ends, Attends, Lapsed,
       Card, Terminal, Row
  <2>8. /\ card' = [card EXCEPT ![b] = w]
        /\ lane' = [lane EXCEPT ![b] = lane[b]] /\ job' = [job EXCEPT ![b] = job[b]]
    BY <1>16, <2>1, <2>h, <1>o DEF ReleasesBack, OwnsBack, Put
  <2> QED BY <2>2, <2>3, <2>4, <2>5, <2>6, <2>7, <2>8, <2>9, <2>e, <2>a, <2>s, <2>b, <2>l,
         <1>o, OneRow DEF CardFits
<1>17. CASE ReleasesBack(b) /\ ~(card[b].clean = "none" \/ OwnsBack(b) \/ back.bout = 0)
  <2>1. PICK w : w = Pending(card[b])
    OBVIOUS
  <2>h. card[b].home # None
    BY <1>17, <1>o DEF ReleasesBack, OwnsBack, Pending, Owing, CardFits, Lives, Card
  <2>l. Lives(w)
    BY <2>h, <2>1, <1>o DEF Lives, Card, Owing, Pending
  <2>2. w \in Card
    BY <2>1, <1>c, <1>z, ZenonT(60) DEF Card, Phase, Owing, Pending
  <2>e. w.home = card[b].home /\ w.passed = card[b].passed
    BY <2>1, <1>c DEF Card, Owing, Pending
  <2>3. Ends(w)
    BY <1>17, <2>1, <2>h, <1>o DEF ReleasesBack, OwnsBack, Pending, Owing, CardFits, Ends,
       Card, Terminal
  <2>4. Attends(w)
    BY <1>17, <2>1, <2>h, <1>o DEF ReleasesBack, OwnsBack, Pending, Owing, CardFits, Ends,
       Attends, Card, Terminal
  <2>5. LanesFit(w, lane[b])
    BY <1>17, <2>1, <2>h, <1>o DEF ReleasesBack, OwnsBack, Pending, Owing, CardFits, Ends,
       Attends, LanesFit, Card, Terminal
  <2>s. slot' = slot
    BY <1>17, OfRest DEF ReleasesBack, OwnsBack, Pending, Owing
  <2>9. /\ UNCHANGED <<leader, bouts>> /\ faults' \in 0..MaxFaults
        /\ main' \in Rings /\ back' \in Rings
    BY <1>17, OfRest DEF ReleasesBack, OwnsBack, Pending, Owing, Phase
  <2>a. back' # back => back.bout \in {0, b} /\ back'.bout \in {0, b}
    BY <1>17, OfRest DEF ReleasesBack, OwnsBack, Pending, Owing, Row, Rings, Gone
  <2>6. BoutFits(b, w, lane[b], job[b])'
    BY <1>17, <2>1, <2>h, <1>o, <2>s, <2>9 DEF ReleasesBack, OwnsBack, Pending, Owing,
       CardFits, Ends, Attends, LanesFit, BoutFits, Quiet, Card, Terminal, Row
  <2>b. Adopts(b, w)
    BY <1>17, <2>1, <2>h, <1>o DEF ReleasesBack, OwnsBack, Pending, Owing, CardFits,
       Attends, Adopts, Card
  <2>7. Lapsed(b) => back'.bout # b \/ (w.state \in Terminal /\ w.run # "readback")
    BY <1>17, <2>1, <2>h, <1>o DEF ReleasesBack, OwnsBack, Pending, Owing, CardFits, Ends,
       Attends, Lapsed, Card, Terminal, Row
  <2>8. /\ card' = [card EXCEPT ![b] = w]
        /\ lane' = [lane EXCEPT ![b] = lane[b]] /\ job' = [job EXCEPT ![b] = job[b]]
    BY <1>17, <2>1, <2>h, <1>o DEF ReleasesBack, OwnsBack, Pending, Owing, Put
  <2> QED BY <2>2, <2>3, <2>4, <2>5, <2>6, <2>7, <2>8, <2>9, <2>e, <2>a, <2>s, <2>b, <2>l,
         <1>o, OneRow DEF CardFits
<1>18. CASE RetryCleanup(b)
  <2>1. PICK w : w = [card[b] EXCEPT !.clean = "round5_cleanup", !.loop = TRUE]
    OBVIOUS
  <2>h. card[b].home # None
    BY <1>18, <1>o DEF RetryCleanup, Retain, Retained, CanRetain, CanReclaim, OwnsBack,
       Owing, CardFits, Lives, Card
  <2>l. Lives(w)
    BY <2>h, <2>1, <1>o DEF Lives, Card
  <2>2. w \in Card
    BY <2>1, <1>c, <1>z, ZenonT(60) DEF Card, Phase
  <2>e. w.home = card[b].home /\ w.passed = card[b].passed
    BY <2>1, <1>c DEF Card
  <2>3. Ends(w)
    BY <1>18, <2>1, <2>h, <1>o DEF RetryCleanup, Retain, Retained, CanRetain, CanReclaim,
       OwnsBack, Owing, CardFits, Ends, Card, Terminal
  <2>4. Attends(w)
    BY <1>18, <2>1, <2>h, <1>o DEF RetryCleanup, Retain, Retained, CanRetain, CanReclaim,
       OwnsBack, Owing, CardFits, Ends, Attends, Card, Terminal
  <2>5. LanesFit(w, lane[b])
    BY <1>18, <2>1, <2>h, <1>o DEF RetryCleanup, Retain, Retained, CanRetain, CanReclaim,
       OwnsBack, Owing, CardFits, Ends, Attends, LanesFit, Card, Terminal
  <2>s. slot' = slot
    BY <1>18, OfRest DEF RetryCleanup, Retain, Retained, CanRetain, CanReclaim, OwnsBack,
       Owing
  <2>9. /\ UNCHANGED <<leader, bouts>> /\ faults' \in 0..MaxFaults
        /\ main' \in Rings /\ back' \in Rings
    BY <1>18, OfRest DEF RetryCleanup, Retain, Retained, CanRetain, CanReclaim, OwnsBack,
       Owing, Phase
  <2>a. back' # back => back.bout \in {0, b} /\ back'.bout \in {0, b}
    BY <1>18, OfRest DEF RetryCleanup, Retain, Retained, CanRetain, CanReclaim, OwnsBack,
       Owing, Row, Rings, Gone
  <2>6. BoutFits(b, w, lane[b], job[b])'
    BY <1>18, <2>1, <2>h, <1>o, <2>s, <2>9 DEF RetryCleanup, Retain, Retained, CanRetain,
       CanReclaim, OwnsBack, Owing, CardFits, Ends, Attends, LanesFit, BoutFits, Quiet,
              Card, Terminal, Row
  <2>b. Adopts(b, w)
    BY <1>18, <2>1, <2>h, <1>o DEF RetryCleanup, Retain, Retained, CanRetain, CanReclaim,
       OwnsBack, Owing, CardFits, Attends, Adopts, Card
  <2>7. Lapsed(b) => back'.bout # b \/ (w.state \in Terminal /\ w.run # "readback")
    BY <1>18, <2>1, <2>h, <1>o DEF RetryCleanup, Retain, Retained, CanRetain, CanReclaim,
       OwnsBack, Owing, CardFits, Ends, Attends, Lapsed, Card, Terminal, Row
  <2>8. /\ card' = [card EXCEPT ![b] = w]
        /\ lane' = [lane EXCEPT ![b] = lane[b]] /\ job' = [job EXCEPT ![b] = job[b]]
    BY <1>18, <2>1, <2>h, <1>o DEF RetryCleanup, Retain, Retained, CanRetain, CanReclaim,
       OwnsBack, Owing, Put
  <2> QED BY <2>2, <2>3, <2>4, <2>5, <2>6, <2>7, <2>8, <2>9, <2>e, <2>a, <2>s, <2>b, <2>l,
         <1>o, OneRow DEF CardFits
<1>w. Fences(b) =>
        \/ Put(b, Pending(card[b])) /\ UNCHANGED slot
        \/ CanFence(b, card[b].held) /\ slot' = Cleaning
           /\ FencedBy(b, [card[b] EXCEPT !.work = "converge"])
  BY DEF Fences
<1> QED BY <1>1, <1>2, <1>3, <1>4, <1>5, <1>6, <1>7, <1>8, <1>9, <1>10, <1>11, <1>12, <1>13,
       <1>14, <1>15, <1>16, <1>17, <1>18, <1>w DEF Worker

-----------------------------------------------------------------------------
(* A step of the slot, the rings or the runners that no card takes part in. *)
LEMMA OnlyRest ==
  ASSUME SpikeInv, UNCHANGED <<card, lane, bouts, leader>>,
         slot' \in [state : {"warming", "ready", "claimed", "running", "cleaning"},
                    claim : 0..MaxBout],
         main' \in Rings, back' \in Rings, faults' \in 0..MaxFaults,
         job' \in [Bouts -> [Lanes -> JobAt]],
         slot'.claim \in {0, slot.claim},
         slot'.state \in {"warming", "ready"} <=> slot'.claim = 0,
         back' # back => back'.bout = 0,
         \A c \in Bouts : c > bouts => job'[c] = job[c],
         \A c \in Bouts : card[c].home # None /\ ~card[c].passed =>
           /\ card[c].clean = "round5_cleanup" /\ back.bout = c => back' = back
           /\ ~card[c].late =>
                /\ slot'.claim # c \/ slot'.state = "cleaning" => Quiet(card[c], lane[c])
                /\ slot'.claim # c => \A l \in Lanes : job'[c][l] \in {"none", "settled"}
  PROVE SpikeInv'
<1>u. card' = card /\ lane' = lane /\ bouts' = bouts /\ leader' = leader
  OBVIOUS
<1>1. SpikeTypeOK'
  BY <1>u DEF SpikeInv, SpikeTypeOK, Rings, JobAt
<1>2. (slot.claim <= bouts /\ (slot.state \in {"warming", "ready"} <=> slot.claim = 0))'
  <2>1. slot.claim <= bouts /\ bouts \in 0..MaxBout
    BY DEF SpikeInv, SpikeTypeOK
  <2> QED BY <2>1, <1>u, BoundsAssumption
<1>3. ASSUME NEW c \in Bouts, c > bouts'
      PROVE (card[c] = Draft /\ \A l \in Lanes : lane[c][l] = "idle" /\ job[c][l] = "none")'
  BY <1>3, <1>u DEF SpikeInv
<1>4. ASSUME NEW c \in Bouts
      PROVE CardFits(card[c], lane[c])'
  <2>1. CardFits(card[c], lane[c])
    BY DEF SpikeInv
  <2> QED BY <2>1, <1>u DEF CardFits, Lives, Ends, Attends, LanesFit
<1>5. ASSUME NEW c \in Bouts
      PROVE BoutFits(c, card[c], lane[c], job[c])'
  <2>1. BoutFits(c, card[c], lane[c], job[c]) /\ c # 0 /\ c \in Nat
    BY OfBout
  <2>2. slot.claim # c => slot'.claim # c
    BY <2>1
  <2>3. card[c].home # None /\ ~card[c].passed =>
           /\ card[c].clean = "round5_cleanup" /\ back.bout = c => back' = back
           /\ ~card[c].late =>
                /\ slot'.claim # c \/ slot'.state = "cleaning" => Quiet(card[c], lane[c])
                /\ slot'.claim # c => \A l \in Lanes : job'[c][l] \in {"none", "settled"}
    OBVIOUS
  <2>4. back = Row(c, "round5_cleanup") => back.bout = c
    BY DEF Row
  <2> QED BY <2>1, <2>2, <2>3, <2>4, <1>u DEF BoutFits, Quiet, Row
<1>6. ASSUME NEW c \in Bouts
      PROVE Adopts(c, card[c])' /\ Akin(c, card[c])'
  <2>1. Adopts(c, card[c]) /\ Akin(c, card[c])
    BY DEF SpikeInv
  <2>2. \A h : h # 0 /\ Lapsed(h) => Lapsed(h)'
    BY <1>u DEF Lapsed, Terminal
  <2> QED BY <2>1, <2>2, <1>u DEF Adopts, Akin
<1> QED BY <1>1, <1>2, <1>3, <1>4, <1>5, <1>6 DEF SpikeInv

(* A row that nobody renews runs out.                                       *)
LEMMA RowsKeep ==
  ASSUME SpikeInv,
         MainEnds \/ BackEnds \/ \E b \in 1..bouts : Outlived(b)
  PROVE SpikeInv'
<1>s. /\ slot \in [state : {"warming", "ready", "claimed", "running", "cleaning"},
                   claim : 0..MaxBout]
      /\ faults \in 0..MaxFaults /\ job \in [Bouts -> [Lanes -> JobAt]]
      /\ slot.state \in {"warming", "ready"} <=> slot.claim = 0
  BY DEF SpikeInv, SpikeTypeOK, JobAt
<1>f. ASSUME NEW c \in Bouts, card[c].home # None, ~card[c].passed, ~card[c].late
      PROVE /\ slot.claim # c \/ slot.state = "cleaning" => Quiet(card[c], lane[c])
            /\ slot.claim # c => \A l \in Lanes : job[c][l] \in {"none", "settled"}
  BY <1>f DEF SpikeInv, BoutFits
<1>u. /\ UNCHANGED <<slot, leader, bouts, card, lane, job, faults>>
      /\ main' \in {main, Gone} /\ back' \in {back, Gone}
  BY DEF MainEnds, BackEnds, Outlived
<1>1. ASSUME NEW c \in Bouts, card[c].home # None, ~card[c].passed,
             card[c].clean = "round5_cleanup", back.bout = c
      PROVE back' = back
  <2>1. card[c] \in Card /\ back = Row(c, "round5_cleanup") /\ leader \in {card[c].home, None}
        /\ Ends(card[c]) /\ Attends(card[c])
    BY <1>1, OfBout DEF BoutFits, CardFits
  <2>2. CASE MainEnds
    BY <2>2 DEF MainEnds
  <2>3. CASE BackEnds
    <3>1. card[c].state # "ARMED"
      BY <1>1, <2>1 DEF Ends, Attends, Terminal
    <3>2. BackRenewed(c) /\ OwnsBack(c)
      BY <3>1, <2>1, <1>1 DEF BackRenewed, OwnsBack
    <3> QED BY <3>2, <2>3, <1>1 DEF BackEnds, BackUnrenewed
  <2>4. ASSUME NEW b \in 1..bouts, Outlived(b)
        PROVE back' = back
    <3>1. b # c
      BY <2>1, <2>4 DEF Outlived, Suspended
    <3> QED BY <3>1, <1>1, <2>4 DEF Outlived
  <2> QED BY <2>2, <2>3, <2>4
<1>2. back' # back => back'.bout = 0
  BY <1>u DEF Gone
<1>3. main' \in Rings /\ back' \in Rings
  BY <1>u, OfRest
<1>4. /\ card' = card /\ lane' = lane /\ bouts' = bouts /\ leader' = leader
      /\ slot' = slot /\ job' = job /\ faults' = faults
  BY <1>u
<1> QED BY <1>s, <1>f, <1>1, <1>2, <1>3, <1>4, OnlyRest

(* The coordinator's steps.                                                 *)
LEMMA CoordinatorKeeps ==
  ASSUME SpikeInv, Coordinator \/ Rewarms
  PROVE SpikeInv'
<1>s. /\ slot \in [state : {"warming", "ready", "claimed", "running", "cleaning"},
                   claim : 0..MaxBout]
      /\ faults \in 0..MaxFaults /\ job \in [Bouts -> [Lanes -> JobAt]]
      /\ slot.state \in {"warming", "ready"} <=> slot.claim = 0
      /\ slot.claim <= bouts /\ bouts \in 0..MaxBout
  BY DEF SpikeInv, SpikeTypeOK, JobAt
<1>b. slot.claim # 0 => slot.claim \in Bouts
  BY <1>s DEF Bouts
<1>f. ASSUME NEW c \in Bouts, card[c].home # None, ~card[c].passed
      PROVE /\ leader \in {card[c].home, None}
            /\ ~card[c].late =>
                 /\ slot.claim # c \/ slot.state = "cleaning" => Quiet(card[c], lane[c])
                 /\ slot.claim # c => \A l \in Lanes : job[c][l] \in {"none", "settled"}
  BY <1>f DEF SpikeInv, BoutFits
<1>u. UNCHANGED <<card, lane, bouts, leader, main, back, faults>>
  BY DEF Coordinator, Settles, Advances, Inherits, Rewarms
<1>r. main' \in Rings /\ back' \in Rings /\ faults' \in 0..MaxFaults
  BY <1>u, OfRest
<1>1. CASE Settles
  <2>1. slot' = slot /\ slot.claim \in Bouts /\ slot.state = "cleaning"
    BY <1>1, <1>b, <1>s DEF Settles
  <2>2. PICK j : j = [l \in Lanes |->
                        IF job[slot.claim][l] = "none" THEN "none" ELSE "settled"]
    OBVIOUS
  <2>3. job' = [job EXCEPT ![slot.claim] = j]
    BY <1>1, <2>2 DEF Settles
  <2>4. j \in [Lanes -> JobAt]
    BY <2>2 DEF JobAt
  <2>5. job' \in [Bouts -> [Lanes -> JobAt]]
    BY <2>1, <2>3, <2>4, <1>s
  <2>6. \A c \in Bouts : c # slot.claim => job'[c] = job[c]
    BY <2>3, <1>s
  <2>7. \A c \in Bouts : c > bouts => c # slot.claim
    BY <1>s DEF Bouts
  <2> QED BY <2>1, <2>5, <2>6, <2>7, <1>s, <1>f, <1>u, <1>r, OnlyRest
<1>2. CASE Advances
  <2>1. slot' = [state |-> "warming", claim |-> 0] /\ job' = job
        /\ slot.claim \in Bouts /\ slot.state = "cleaning"
    BY <1>2, <1>b, <1>s DEF Advances
  <2>2. slot' \in [state : {"warming", "ready", "claimed", "running", "cleaning"},
                   claim : 0..MaxBout] /\ slot'.state = "warming" /\ slot'.claim = 0
    BY <2>1, BoundsAssumption
  <2>3. ASSUME NEW c \in Bouts, card[c].home # None, ~card[c].passed, ~card[c].late
        PROVE /\ Quiet(card[c], lane[c])
              /\ \A l \in Lanes : job'[c][l] \in {"none", "settled"}
    <3>1. CASE c = slot.claim
      BY <3>1, <2>1, <2>3, <1>2, <1>f DEF Advances
    <3>2. CASE c # slot.claim
      BY <3>2, <2>1, <2>3, <1>f
    <3> QED BY <3>1, <3>2
  <2> QED BY <2>1, <2>2, <2>3, <1>s, <1>u, <1>r, OnlyRest
<1>3. CASE Inherits
  <2>1. slot' = [slot EXCEPT !.state = "cleaning"] /\ job' = job
        /\ slot.claim \in Bouts /\ leader # None /\ card[slot.claim].home # leader
    BY <1>3, <1>b, <1>s DEF Inherits, Cleaning
  <2>2. slot' \in [state : {"warming", "ready", "claimed", "running", "cleaning"},
                   claim : 0..MaxBout] /\ slot'.state = "cleaning" /\ slot'.claim = slot.claim
    BY <2>1, <1>s
  <2>3. ASSUME NEW c \in Bouts, card[c].home # None, ~card[c].passed
        PROVE c # slot.claim
    BY <2>1, <2>3, <1>f
  <2>4. slot.claim # 0
    BY <2>1 DEF Bouts
  <2> QED BY <2>1, <2>2, <2>3, <2>4, <1>s, <1>f, <1>u, <1>r, OnlyRest
<1>4. CASE Rewarms
  <2>1. slot' = [slot EXCEPT !.state = "ready"] /\ job' = job /\ slot.state = "warming"
        /\ slot.claim = 0
    BY <1>4, <1>s DEF Rewarms
  <2>2. slot' \in [state : {"warming", "ready", "claimed", "running", "cleaning"},
                   claim : 0..MaxBout] /\ slot'.state = "ready" /\ slot'.claim = 0
    BY <2>1, <1>s
  <2>3. \A c \in Bouts : slot.claim # c
    BY <2>1 DEF Bouts
  <2> QED BY <2>1, <2>2, <2>3, <1>s, <1>f, <1>u, <1>r, OnlyRest
<1> QED BY <1>1, <1>2, <1>3, <1>4 DEF Coordinator

(* Another process takes the slot.                                          *)
LEMMA TakesOverKeeps ==
  ASSUME SpikeInv, NEW p \in Process, TakesOver(p)
  PROVE SpikeInv'
<1> USE NamesAssumption
<1>t. /\ card \in [Bouts -> Card] /\ lane \in [Bouts -> [Lanes -> LaneAt]]
      /\ job \in [Bouts -> [Lanes -> JobAt]] /\ SpikeTypeOK
  BY DEF SpikeInv, SpikeTypeOK, Card, LaneAt, JobAt
<1>u. /\ slot' = slot /\ main' = main /\ back' = back /\ bouts' = bouts
      /\ lane' = lane /\ job' = job /\ leader' = p /\ faults' \in 0..MaxFaults
  <2>1. faults \in 0..MaxFaults /\ (Fault => faults' \in 0..MaxFaults)
    BY OfRest
  <2> QED BY <2>1 DEF TakesOver
<1>o. ASSUME NEW c \in Bouts
      PROVE \/ card'[c] = card[c] /\ (~card[c].passed => card[c].home \in {p, None})
            \/ card'[c] = Takes(card[c]) /\ card[c].home \notin {p, None}
  <2>1. card'[c] = [card[c] EXCEPT !.passed =
                      card[c].passed \/ card[c].home \notin {p, None}]
    BY DEF TakesOver
  <2>2. card[c] \in Card
    BY <1>t
  <2>3. CASE card[c].home \notin {p, None}
    <3>1. (card[c].passed \/ card[c].home \notin {p, None}) = TRUE
      BY <2>3
    <3> QED BY <2>1, <2>3, <3>1 DEF Takes
  <2>4. CASE card[c].home \in {p, None}
    <3>1. card[c].passed \in BOOLEAN
      BY <2>2 DEF Card
    <3>2. (card[c].passed \/ card[c].home \notin {p, None}) = card[c].passed
      BY <2>4, <3>1
    <3>3. card[c] = [card[c] EXCEPT !.passed = card[c].passed]
      BY <2>2 DEF Card
    <3> QED BY <2>1, <2>4, <3>2, <3>3
  <2> QED BY <2>3, <2>4
<1>l. ASSUME NEW c \in Bouts
      PROVE /\ card'[c] \in Card /\ card'[c].state = card[c].state
            /\ card'[c].run = card[c].run /\ card'[c].home = card[c].home
            /\ CardFits(card'[c], lane[c]) /\ BoutFits(c, card'[c], lane[c], job[c])
            /\ Adopts(c, card'[c]) /\ Akin(c, card'[c])
            /\ ~card'[c].passed => card'[c].home \in {p, None}
  <2>1. /\ card[c] \in Card /\ lane[c] \in [Lanes -> LaneAt] /\ job[c] \in [Lanes -> JobAt]
        /\ CardFits(card[c], lane[c]) /\ BoutFits(c, card[c], lane[c], job[c])
        /\ Adopts(c, card[c]) /\ Akin(c, card[c])
    BY <1>t DEF SpikeInv
  <2>2. CASE card'[c] = card[c] /\ (~card[c].passed => card[c].home \in {p, None})
    BY <2>1, <2>2
  <2>3. CASE card'[c] = Takes(card[c])
    <3>1. Takes(card[c]).passed => Akin(c, Takes(card[c]))
      BY DEF Akin
    <3> QED BY <2>1, <2>3, <3>1, TakenStands
  <2> QED BY <1>o, <2>2, <2>3
<1>1. SpikeTypeOK'
  <2>1. DOMAIN card' = Bouts /\ card' = [c \in Bouts |-> card'[c]]
    BY DEF TakesOver
  <2>2. card' \in [Bouts -> Card]
    BY <1>l, <2>1
  <2> QED BY <1>t, <1>u, <2>2 DEF SpikeTypeOK, Card
<1>2. (slot.claim <= bouts /\ (slot.state \in {"warming", "ready"} <=> slot.claim = 0))'
  BY <1>u DEF SpikeInv
<1>3. ASSUME NEW c \in Bouts, c > bouts'
      PROVE (card[c] = Draft /\ \A l \in Lanes : lane[c][l] = "idle" /\ job[c][l] = "none")'
  <2>1. /\ card[c] = Draft /\ \A l \in Lanes : lane[c][l] = "idle" /\ job[c][l] = "none"
    BY <1>3, <1>u DEF SpikeInv
  <2>2. card'[c] = card[c]
    BY <1>o, <2>1 DEF Draft
  <2> QED BY <2>1, <2>2, <1>u
<1>4. ASSUME NEW c \in Bouts
      PROVE CardFits(card[c], lane[c])'
  BY <1>l, <1>u DEF CardFits, Lives, Ends, Attends, LanesFit
<1>5. ASSUME NEW c \in Bouts
      PROVE BoutFits(c, card[c], lane[c], job[c])'
  BY <1>l, <1>u DEF BoutFits, Quiet, Row
<1>6. ASSUME NEW c \in Bouts
      PROVE Adopts(c, card[c])' /\ Akin(c, card[c])'
  <2>1. card'[c].held # 0 => card'[c].held \in Bouts
    BY <1>l DEF Card, Bouts
  <2>2. slot.claim # 0 => slot.claim \in Bouts
    BY <1>t DEF SpikeTypeOK, Bouts
  <2>3. \A h \in Bouts : Lapsed(h) => Lapsed(h)'
    BY <1>l, <1>u DEF Lapsed, Terminal
  <2> QED BY <2>1, <2>2, <2>3, <1>l, <1>u DEF Adopts, Akin
<1> QED BY <1>1, <1>2, <1>3, <1>4, <1>5, <1>6 DEF SpikeInv

(* A process dies, with what it had.                                        *)
LEMMA CrashKeeps ==
  ASSUME SpikeInv, NEW p \in Process, Crash(p)
  PROVE SpikeInv'
<1> USE NamesAssumption
<1>t. /\ card \in [Bouts -> Card] /\ lane \in [Bouts -> [Lanes -> LaneAt]]
      /\ job \in [Bouts -> [Lanes -> JobAt]] /\ SpikeTypeOK /\ Draft \in Card
  BY BoundsAssumption DEF SpikeInv, SpikeTypeOK, Card, LaneAt, JobAt, Draft, Phase
<1>u. /\ slot' = slot /\ main' = main /\ back' = back /\ bouts' = bouts
      /\ job' = job /\ faults' \in 0..MaxFaults
      /\ leader' = IF leader = p THEN None ELSE leader
  <2>1. Fault => faults' \in 0..MaxFaults
    BY OfRest
  <2> QED BY <2>1 DEF Crash
<1>o. ASSUME NEW c \in Bouts
      PROVE \/ card[c].home = p /\ card'[c] = Draft /\ \A l \in Lanes : lane'[c][l] = "idle"
            \/ card[c].home # p /\ card'[c] = card[c] /\ lane'[c] = lane[c]
  <2>1. /\ card'[c] = IF card[c].home = p THEN Draft ELSE card[c]
        /\ lane'[c] = IF card[c].home = p THEN [l \in Lanes |-> "idle"] ELSE lane[c]
    BY DEF Crash
  <2>2. CASE card[c].home = p
    BY <2>1, <2>2
  <2>3. CASE card[c].home # p
    BY <2>1, <2>3
  <2> QED BY <2>2, <2>3
<1>d. Draft.home = None /\ Draft.held = 0
  BY DEF Draft
<1>1. SpikeTypeOK'
  <2>1. card' \in [Bouts -> Card]
    <3>1. ASSUME NEW c \in Bouts PROVE card'[c] \in Card
      BY <1>o, <1>t
    <3>2. DOMAIN card' = Bouts /\ card' = [c \in Bouts |-> card'[c]]
      BY DEF Crash
    <3> QED BY <3>1, <3>2
  <2>2. lane' \in [Bouts -> [Lanes -> LaneAt]]
    <3>1. [l \in Lanes |-> "idle"] \in [Lanes -> LaneAt]
      BY DEF LaneAt
    <3> QED BY <3>1, <1>t DEF Crash
  <2>3. leader' \in Process \cup {None}
    BY <1>u, <1>t DEF SpikeTypeOK
  <2> QED BY <1>t, <1>u, <2>1, <2>2, <2>3 DEF SpikeTypeOK, Card, LaneAt
<1>2. (slot.claim <= bouts /\ (slot.state \in {"warming", "ready"} <=> slot.claim = 0))'
  BY <1>u DEF SpikeInv
<1>3. ASSUME NEW c \in Bouts, c > bouts'
      PROVE (card[c] = Draft /\ \A l \in Lanes : lane[c][l] = "idle" /\ job[c][l] = "none")'
  <2>1. /\ card[c] = Draft /\ \A l \in Lanes : lane[c][l] = "idle" /\ job[c][l] = "none"
    BY <1>3, <1>u DEF SpikeInv
  <2> QED BY <2>1, <1>o, <1>u
<1>4. ASSUME NEW c \in Bouts
      PROVE CardFits(card[c], lane[c])'
  <2>1. CardFits(card[c], lane[c])
    BY DEF SpikeInv
  <2>2. CASE card'[c] = card[c] /\ lane'[c] = lane[c]
    BY <2>1, <2>2 DEF CardFits, Lives, Ends, Attends, LanesFit
  <2>3. CASE card'[c] = Draft /\ \A l \in Lanes : lane'[c][l] = "idle"
    <3>1. Ends(card[c])'
      BY <2>3 DEF Ends, Draft, Terminal
    <3>2. Attends(card[c])'
      BY <2>3 DEF Attends, Draft, Terminal
    <3>3. LanesFit(card[c], lane[c])'
      BY <2>3 DEF LanesFit, Draft, Terminal
    <3>4. Lives(card[c])'
      BY <2>3 DEF Lives, Draft
    <3> QED BY <3>1, <3>2, <3>3, <3>4 DEF CardFits
  <2> QED BY <1>o, <2>2, <2>3
<1>5. ASSUME NEW c \in Bouts
      PROVE BoutFits(c, card[c], lane[c], job[c])'
  <2>1. BoutFits(c, card[c], lane[c], job[c])
    BY DEF SpikeInv
  <2>2. CASE card'[c] = Draft
    BY <2>2, <1>d DEF BoutFits
  <2>3. CASE card'[c] = card[c] /\ lane'[c] = lane[c]
    BY <2>1, <2>3, <1>u DEF BoutFits, Quiet, Row
  <2> QED BY <1>o, <2>2, <2>3
<1>6. ASSUME NEW c \in Bouts
      PROVE Adopts(c, card[c])' /\ Akin(c, card[c])'
  <2>1. Adopts(c, card[c]) /\ Akin(c, card[c]) /\ card[c] \in Card
    BY <1>t DEF SpikeInv
  <2>2. CASE card'[c] = Draft
    BY <2>2, <1>d DEF Adopts, Akin
  <2>3. CASE card[c].home # p /\ card'[c] = card[c]
    <3>1. slot.claim # 0 => slot.claim \in Bouts
      BY <1>t DEF SpikeTypeOK, Bouts
    <3>2. Akin(c, card[c])'
      <4>1. CASE card[c].home # None /\ ~card[c].passed /\ slot.claim \notin {0, c}
        <5>1. card[slot.claim].home = card[c].home /\ slot.claim \in Bouts
          BY <2>1, <3>1, <4>1 DEF Akin
        <5>2. card'[slot.claim] = card[slot.claim]
          BY <5>1, <1>o, <2>3
        <5> QED BY <5>1, <5>2, <2>3, <1>u DEF Akin
      <4>2. CASE ~(card[c].home # None /\ ~card[c].passed /\ slot.claim \notin {0, c})
        BY <4>2, <2>3, <1>u DEF Akin
      <4> QED BY <4>1, <4>2
    <3>3. Adopts(c, card[c])'
      <4>1. CASE /\ card[c].home # None /\ ~card[c].passed /\ card[c].work = "fence"
                 /\ card[c].held \notin {0, c} /\ slot.claim = card[c].held
        <5>1. card[slot.claim].home = card[c].home /\ slot.claim \in Bouts
          BY <2>1, <3>1, <4>1 DEF Akin
        <5>2. card'[slot.claim] = card[slot.claim]
          BY <5>1, <1>o, <2>3
        <5>3. Lapsed(slot.claim)'
          BY <5>2, <4>1, <2>1, <1>u DEF Adopts, Lapsed, Terminal
        <5> QED BY <5>3, <4>1, <2>3, <1>u DEF Adopts
      <4>2. CASE ~(/\ card[c].home # None /\ ~card[c].passed /\ card[c].work = "fence"
                   /\ card[c].held \notin {0, c} /\ slot.claim = card[c].held)
        BY <4>2, <2>3, <1>u DEF Adopts
      <4> QED BY <4>1, <4>2
    <3> QED BY <3>2, <3>3
  <2> QED BY <1>o, <2>2, <2>3
<1> QED BY <1>1, <1>2, <1>3, <1>4, <1>5, <1>6 DEF SpikeInv

(* A bout is claimed.                                                       *)
LEMMA ClaimKeeps ==
  ASSUME SpikeInv, NEW p \in Process, Claim(p)
  PROVE SpikeInv'
<1> USE NamesAssumption, BoundsAssumption
<1> DEFINE b == bouts + 1
           w == [Draft EXCEPT !.home = p, !.state = "CHECKING", !.ring = "checking",
                              !.clean = "checking", !.held = b, !.run = "arm"]
<1>t. /\ card \in [Bouts -> Card] /\ lane \in [Bouts -> [Lanes -> LaneAt]]
      /\ job \in [Bouts -> [Lanes -> JobAt]] /\ SpikeTypeOK /\ bouts \in 0..MaxBout
  BY DEF SpikeInv, SpikeTypeOK, Card, LaneAt, JobAt
<1>b. b \in Bouts /\ b \in Nat /\ bouts \in Nat /\ b \in 0..MaxBout /\ b > bouts /\ b # 0
  BY <1>t DEF Claim, Bouts
<1>c. PICK a : a = b
  OBVIOUS
<1>u. /\ bouts' = a /\ slot' = [state |-> "claimed", claim |-> a]
      /\ main' = Row(a, "checking") /\ back' = Row(a, "checking")
      /\ leader' = p /\ leader = p /\ lane' = lane /\ job' = job /\ faults' = faults
      /\ back.bout = 0 /\ slot.state = "ready"
  BY <1>c DEF Claim
<1>e. /\ slot'.claim = a /\ slot'.state = "claimed" /\ slot.claim = 0
      /\ \A l \in Lanes : lane[a][l] = "idle" /\ job[a][l] = "none"
  BY <1>b, <1>c, <1>u DEF SpikeInv
<1>w. PICK q : q = w
  OBVIOUS
<1>f. /\ q.home = p /\ q.state = "CHECKING" /\ q.sealed = FALSE /\ q.ring = "checking"
      /\ q.clean = "checking" /\ q.held = a /\ q.owed = FALSE /\ q.run = "arm"
      /\ q.failing = FALSE /\ q.off = "none" /\ q.work = "none" /\ q.loop = FALSE
      /\ q.late = FALSE /\ q.passed = FALSE
  BY <1>w, <1>c DEF Draft
<1>k. q \in Card
  BY <1>w, <1>b DEF Draft, Card, Phase
<1>o. /\ card' = [card EXCEPT ![a] = q] /\ card'[a] = q
      /\ \A c \in Bouts : c # a => card'[c] = card[c]
  <2>1. card' = [card EXCEPT ![a] = q]
    BY <1>w, <1>c DEF Claim, Put
  <2> QED BY <2>1, <1>t, <1>b, <1>c
<1>1. SpikeTypeOK'
  <2>1. card' \in [Bouts -> Card]
    BY <1>o, <1>t, <1>k
  <2>2. Row(a, "checking") \in Rings
    BY <1>b, <1>c DEF Row, Rings, Phase
  <2>3. slot' \in [state : {"warming", "ready", "claimed", "running", "cleaning"},
                   claim : 0..MaxBout]
    BY <1>u, <1>b, <1>c
  <2> QED BY <1>t, <1>u, <1>b, <1>c, <2>1, <2>2, <2>3 DEF SpikeTypeOK, Card, Rings
<1>2. (slot.claim <= bouts /\ (slot.state \in {"warming", "ready"} <=> slot.claim = 0))'
  BY <1>u, <1>e, <1>b, <1>c
<1>3. ASSUME NEW c \in Bouts, c > bouts'
      PROVE (card[c] = Draft /\ \A l \in Lanes : lane[c][l] = "idle" /\ job[c][l] = "none")'
  <2>1. c # a /\ c > bouts
    BY <1>3, <1>u, <1>b, <1>c DEF Bouts
  <2> QED BY <2>1, <1>o, <1>u DEF SpikeInv
<1>4. ASSUME NEW c \in Bouts
      PROVE CardFits(card[c], lane[c])'
  <2>1. CASE c = a
    <3>1. card'[c] = q /\ \A l \in Lanes : lane'[c][l] = "idle"
      BY <2>1, <1>o, <1>e, <1>u
    <3> QED BY <3>1, <1>f DEF CardFits, Lives, Ends, Attends, LanesFit, Terminal
  <2>2. CASE c # a
    <3>1. CardFits(card[c], lane[c]) /\ card'[c] = card[c] /\ lane'[c] = lane[c]
      BY <2>2, <1>o, <1>u DEF SpikeInv
    <3> QED BY <3>1 DEF CardFits, Lives, Ends, Attends, LanesFit
  <2> QED BY <2>1, <2>2
<1>5. ASSUME NEW c \in Bouts
      PROVE (BoutFits(c, card[c], lane[c], job[c]) /\ Adopts(c, card[c]) /\ Akin(c, card[c]))'
  <2>1. CASE c = a
    <3>1. card'[c] = q /\ a <= bouts'
      BY <2>1, <1>o, <1>u, <1>b, <1>c
    <3> QED BY <3>1, <2>1, <1>f, <1>e, <1>u DEF BoutFits, Adopts, Akin
  <2>2. CASE c # a
    <3>1. /\ BoutFits(c, card[c], lane[c], job[c]) /\ card'[c] = card[c]
          /\ card[c] \in Card /\ c # 0
      BY <2>2, <1>o, <1>t DEF SpikeInv, Bouts
    <3>2. card[c].home # None =>
            /\ card[c].held <= bouts' /\ card[c].held # a
            /\ ~card[c].passed => card[c].home = p
      <4>1. card[c].held \in Nat
        BY <3>1 DEF Card
      <4> QED BY <4>1, <3>1, <1>b, <1>c, <1>u DEF BoutFits
    <3>3. BoutFits(c, card[c], lane[c], job[c])'
      <4>1. back # Row(c, "round5_cleanup")
        BY <1>u, <3>1 DEF Row
      <4> QED BY <4>1, <3>1, <3>2, <2>2, <1>e, <1>u DEF BoutFits, Quiet
    <3> QED BY <3>1, <3>2, <3>3, <2>2, <1>e, <1>o, <1>f DEF Adopts, Akin
  <2> QED BY <2>1, <2>2
<1> QED BY <1>1, <1>2, <1>3, <1>4, <1>5 DEF SpikeInv

LEMMA StutterKeeps ==
  ASSUME SpikeInv, UNCHANGED vars
  PROVE SpikeInv'
BY DEF SpikeInv, SpikeTypeOK, vars, CardFits, Lives, Ends, Attends, LanesFit, BoutFits,
   Quiet,
       Row, Adopts, Lapsed, Akin, Terminal

LEMMA Invariance ==
  ASSUME SpikeInv, [Next]_vars PROVE SpikeInv'
<1>1. ASSUME NEW p \in Process, Claim(p) \/ TakesOver(p) \/ Crash(p)
      PROVE SpikeInv'
  BY <1>1, ClaimKeeps, TakesOverKeeps, CrashKeeps
<1>2. ASSUME NEW b \in 1..bouts, Arm(b) \/ Abandon(b) \/ Bell(b) \/ BellRefused(b) \/ BellLapses(b)
      PROVE SpikeInv'
  BY <1>2, ArmKeeps, AbandonKeeps, BellKeeps
<1>3. ASSUME NEW b \in 1..bouts, NEW l \in Lanes,
             Stages(b) \/ Dispatches(b, l) \/ LaneProves(b, l) \/ LaneMisses(b, l)
             \/ LaneRaises(b, l)
      PROVE SpikeInv'
  BY <1>3, LanesKeep
<1>4. ASSUME NEW b \in 1..bouts, Run(b) \/ CommitBreaks(b) \/ Towel(b)
      PROVE SpikeInv'
  BY <1>4, RunKeeps
<1>5. ASSUME NEW b \in 1..bouts,
             Handoff(b) \/ HandoffGivesUp(b) \/ Worker(b) \/ RetryCleanup(b)
      PROVE SpikeInv'
  BY <1>5, HandoffKeeps, WorkerKeeps
<1>6. ASSUME NEW b \in 1..bouts, LosesMain(b) \/ LosesBack(b)
      PROVE SpikeInv'
  BY <1>6, LossKeeps
<1>7. CASE MainEnds \/ BackEnds \/ Coordinator \/ Rewarms
  BY <1>7, RowsKeep, CoordinatorKeeps
<1>8. ASSUME NEW b \in 1..bouts, Outlived(b)
      PROVE SpikeInv'
  BY <1>8, RowsKeep
<1>9. CASE UNCHANGED vars
  BY <1>9, StutterKeeps
<1>l. Lakebase \in Lanes
  BY DEF Lanes
<1> QED BY <1>1, <1>2, <1>3, <1>4, <1>5, <1>6, <1>7, <1>8, <1>9, <1>l DEF Next

-----------------------------------------------------------------------------
(* The state of every bout, of the slot and of both rings is always one the *)
(* record and the rows can hold.                                            *)
THEOREM SpikeTypeCorrect ==
  Spec => []SpikeTypeOK
<1>1. SpikeInv => SpikeTypeOK
  BY DEF SpikeInv
<1> QED BY Initially, Invariance, <1>1, PTL DEF Spec

(* Once the slot has moved on from a bout whose process coordinated it to   *)
(* the end, no runner holds a job of it (NoStrayJob).                       *)
THEOREM JobsAreSettled ==
  Spec => []NoStrayJob
<1>1. ASSUME SpikeInv PROVE NoStrayJob
  <2>1. \A b \in 1..bouts : b \in Bouts
    BY <1>1, OfRest
  <2>2. \A b \in Bouts : BoutFits(b, card[b], lane[b], job[b])
    BY <1>1 DEF SpikeInv
  <2> QED BY <2>1, <2>2 DEF NoStrayJob, BoutFits
<1> QED BY Initially, Invariance, <1>1, PTL DEF Spec

(* Cleanup that is owed has something running that will take it up          *)
(* (OwedIsAttended).                                                        *)
THEOREM CleanupIsAttended ==
  Spec => []OwedIsAttended
<1>1. ASSUME SpikeInv PROVE OwedIsAttended
  <2>1. \A b \in Bouts : Attends(card[b])
    BY <1>1 DEF SpikeInv, CardFits
  <2> QED BY <2>1 DEF OwedIsAttended, Attends, Busy
<1> QED BY Initially, Invariance, <1>1, PTL DEF Spec

-----------------------------------------------------------------------------
(* What a step does to the outcome of a bout, and to what it holds.         *)
Absorbs(c) ==
  card[c].sealed => \/ card'[c].sealed /\ card'[c].state = card[c].state
                    \/ card'[c].home = None
Proves(c) ==
  card'[c].sealed /\ ~card[c].sealed /\ card'[c].state = "VERIFIED" =>
    /\ main = Row(c, "cooldown") /\ back = Row(c, "run_committed")
    /\ \A l \in Lanes : lane[c][l] = "valid"
Frees(c) ==
  /\ card[c].sealed \/ card[c].owed
  /\ main.bout = c /\ main'.bout = 0
  /\ card[c].ring # "none" /\ card'[c].ring = "none"
  => slot.claim # c
Spares(c) ==
  ~card[c].passed /\ card[c].work = "fence" /\ card'[c].work = "converge" =>
    \/ slot.claim = c \/ card[slot.claim].state \in Terminal \/ ~OwnsBack(slot.claim)
Honest(c) == Absorbs(c) /\ Proves(c) /\ Frees(c) /\ Spares(c)

(* Most steps publish nothing, release nothing and fence nothing.           *)
LEMMA Steady ==
  ASSUME NEW c \in Bouts, card'[c].sealed = card[c].sealed,
         card[c].sealed => card'[c].state = card[c].state,
         card'[c].ring # "none" \/ card[c].ring = "none" \/ main' = main,
         card'[c].work # "converge" \/ card[c].work # "fence"
  PROVE Honest(c)
<1>1. c # 0
  BY DEF Bouts
<1> QED BY <1>1 DEF Honest, Absorbs, Proves, Frees, Spares

(* A step of one bout leaves every other what it was.                       *)
Apart(b) ==
  \A c \in Bouts : c # b =>
    \/ card'[c] = card[c]
    \/ card'[c] = [card[c] EXCEPT !.passed =
                     card[c].passed \/ (c = slot.claim /\ slot.state # "cleaning")]

LEMMA PutsApart ==
  ASSUME NEW b \in Bouts, NEW w, card \in [Bouts -> Card], Put(b, w) \/ FencedBy(b, w)
  PROVE Apart(b)
BY DEF Put, FencedBy, Apart

LEMMA Others ==
  ASSUME SpikeInv, NEW b \in Bouts, Apart(b), Honest(b)
  PROVE \A c \in Bouts : Honest(c)
<1>1. ASSUME NEW c \in Bouts, c # b
      PROVE Honest(c)
  <2>1. card[c] \in Card
    BY DEF SpikeInv, SpikeTypeOK, Card
  <2>2. /\ card'[c].sealed = card[c].sealed /\ card'[c].state = card[c].state
        /\ card'[c].ring = card[c].ring /\ card'[c].work = card[c].work
    BY <1>1, <2>1 DEF Apart, Card
  <2> QED BY <2>2, Steady
<1> QED BY <1>1

(* The arm and the bell of a bout.                                          *)
LEMMA ArmHonest ==
  ASSUME SpikeInv, NEW b \in 1..bouts, 
         Arm(b) \/ Abandon(b) \/ Bell(b) \/ BellRefused(b) \/ BellLapses(b)
  PROVE \A c \in Bouts : Honest(c)
<1>b. b \in Bouts
  BY OfRest
<1>c. card \in [Bouts -> Card] /\ card[b] \in Card
  BY <1>b DEF SpikeInv, SpikeTypeOK, Card
<1>e. /\ card[b].sealed => card[b].state \notin {"CHECKING", "ARMED", "RUNNING"}
      /\ card[b].run \in {"arm", "readback"} => ~card[b].sealed
      /\ card[b].off = "fence" => card[b].work = "none"
  BY <1>b, OfBout DEF CardFits, Ends, Attends, Terminal
<1>1. CASE ArmStages(b)
  <2>1. card' = card
    BY <1>1 DEF ArmStages
  <2> QED BY <2>1, Steady
<1>2. CASE ArmDone(b)
  <2>1. /\ card'[b].sealed = card[b].sealed
        /\ card[b].sealed => card'[b].state = card[b].state
        /\ card'[b].ring # "none" \/ card[b].ring = "none" \/ main' = main
        /\ card'[b].work # "converge" \/ card[b].work # "fence"
    BY <1>2, <1>b, <1>c, <1>e DEF ArmDone, Put, Card
  <2>2. Apart(b)
    <3>1. \E w : Put(b, w) \/ FencedBy(b, w)
      BY <1>2 DEF ArmDone
    <3> QED BY <3>1, <1>b, <1>c, PutsApart
  <2> QED BY <2>1, <2>2, <1>b, Others, Steady
<1>3. CASE ArmFails(b)
  <2>1. /\ card'[b].sealed = card[b].sealed
        /\ card[b].sealed => card'[b].state = card[b].state
        /\ card'[b].ring # "none" \/ card[b].ring = "none" \/ main' = main
        /\ card'[b].work # "converge" \/ card[b].work # "fence"
    BY <1>3, <1>b, <1>c, <1>e DEF ArmFails, Put, Card
  <2>2. Apart(b)
    <3>1. \E w : Put(b, w) \/ FencedBy(b, w)
      BY <1>3 DEF ArmFails
    <3> QED BY <3>1, <1>b, <1>c, PutsApart
  <2> QED BY <2>1, <2>2, <1>b, Others, Steady
<1>4. CASE Abandon(b)
  <2>1. /\ card'[b].sealed = card[b].sealed
        /\ card[b].sealed => card'[b].state = card[b].state
        /\ card'[b].ring # "none" \/ card[b].ring = "none" \/ main' = main
        /\ card'[b].work # "converge" \/ card[b].work # "fence"
    BY <1>4, <1>b, <1>c, <1>e DEF Abandon, Put, Card, Owing
  <2>2. Apart(b)
    <3>1. \E w : Put(b, w) \/ FencedBy(b, w)
      BY <1>4 DEF Abandon
    <3> QED BY <3>1, <1>b, <1>c, PutsApart
  <2> QED BY <2>1, <2>2, <1>b, Others, Steady
<1>5. CASE Bell(b)
  <2>1. /\ card'[b].sealed = card[b].sealed
        /\ card[b].sealed => card'[b].state = card[b].state
        /\ card'[b].ring # "none" \/ card[b].ring = "none" \/ main' = main
        /\ card'[b].work # "converge" \/ card[b].work # "fence"
    BY <1>5, <1>b, <1>c, <1>e DEF Bell, Put, Card, CanRing
  <2>2. Apart(b)
    <3>1. \E w : Put(b, w) \/ FencedBy(b, w)
      BY <1>5 DEF Bell
    <3> QED BY <3>1, <1>b, <1>c, PutsApart
  <2> QED BY <2>1, <2>2, <1>b, Others, Steady
<1>6. CASE BellRefused(b)
  <2>1. /\ card'[b].sealed = card[b].sealed
        /\ card[b].sealed => card'[b].state = card[b].state
        /\ card'[b].ring # "none" \/ card[b].ring = "none" \/ main' = main
        /\ card'[b].work # "converge" \/ card[b].work # "fence"
    BY <1>6, <1>b, <1>c, <1>e DEF BellRefused, Put, Card, Owing
  <2>2. Apart(b)
    <3>1. \E w : Put(b, w) \/ FencedBy(b, w)
      BY <1>6 DEF BellRefused
    <3> QED BY <3>1, <1>b, <1>c, PutsApart
  <2> QED BY <2>1, <2>2, <1>b, Others, Steady
<1>7. CASE BellLapses(b)
  <2>1. /\ card'[b].sealed = card[b].sealed
        /\ card[b].sealed => card'[b].state = card[b].state
        /\ card'[b].ring # "none" \/ card[b].ring = "none" \/ main' = main
        /\ card'[b].work # "converge" \/ card[b].work # "fence"
    BY <1>7, <1>b, <1>c, <1>e DEF BellLapses, Put, Card, Owing, CanRing
  <2>2. Apart(b)
    <3>1. \E w : Put(b, w) \/ FencedBy(b, w)
      BY <1>7 DEF BellLapses
    <3> QED BY <3>1, <1>b, <1>c, PutsApart
  <2> QED BY <2>1, <2>2, <1>b, Others, Steady
<1>8. CASE ArmLost(b)
  <2>1. /\ card'[b].sealed = card[b].sealed
        /\ card'[b].work = card[b].work
        /\ ~card[b].sealed
    BY <1>8, <1>b, <1>c, <1>e DEF ArmLost, Put, Card
  <2>2. Apart(b)
    <3>1. \E w : Put(b, w) \/ FencedBy(b, w)
      BY <1>8 DEF ArmLost
    <3> QED BY <3>1, <1>b, <1>c, PutsApart
  <2>4. ~card[b].owed
    BY <1>b, <1>8, OfBout DEF ArmLost, CardFits, Ends, Attends, Terminal
  <2>3. Honest(b)
    BY <2>1, <2>4 DEF Honest, Absorbs, Proves, Frees, Spares
  <2> QED BY <2>2, <2>3, <1>b, Others
<1> QED BY <1>1, <1>2, <1>3, <1>4, <1>5, <1>6, <1>7, <1>8 DEF Arm

(* The lanes.                                                               *)
LEMMA LanesHonest ==
  ASSUME SpikeInv, NEW b \in 1..bouts, NEW l \in Lanes,
         Stages(b) \/ Dispatches(b, l) \/ LaneProves(b, l) \/ LaneMisses(b, l)
         \/ LaneRaises(b, l)
  PROVE \A c \in Bouts : Honest(c)
<1>b. b \in Bouts
  BY OfRest
<1>c. card \in [Bouts -> Card] /\ card[b] \in Card
  BY <1>b DEF SpikeInv, SpikeTypeOK, Card
<1>e. /\ card[b].sealed => card[b].state \notin {"CHECKING", "ARMED", "RUNNING"}
      /\ card[b].run \in {"arm", "readback"} => ~card[b].sealed
      /\ card[b].off = "fence" => card[b].work = "none"
  BY <1>b, OfBout DEF CardFits, Ends, Attends, Terminal
<1>1. CASE Stages(b)
  <2>1. card' = card
    BY <1>1 DEF Stages
  <2> QED BY <2>1, Steady
<1>2. CASE Dispatches(b, l)
  <2>1. card' = card
    BY <1>2 DEF Dispatches
  <2> QED BY <2>1, Steady
<1>3. CASE LaneProves(b, l)
  <2>1. card' = card
    BY <1>3 DEF LaneProves
  <2> QED BY <2>1, Steady
<1>4. CASE LaneMisses(b, l)
  <2>1. /\ card'[b].sealed = card[b].sealed
        /\ card[b].sealed => card'[b].state = card[b].state
        /\ card'[b].ring # "none" \/ card[b].ring = "none" \/ main' = main
        /\ card'[b].work # "converge" \/ card[b].work # "fence"
    BY <1>4, <1>b, <1>c, <1>e DEF LaneMisses, Put, Card
  <2>2. Apart(b)
    <3>1. \E w : Put(b, w) \/ FencedBy(b, w)
      BY <1>4 DEF LaneMisses
    <3> QED BY <3>1, <1>b, <1>c, PutsApart
  <2> QED BY <2>1, <2>2, <1>b, Others, Steady
<1>5. CASE LaneRaises(b, l)
  <2>1. /\ card'[b].sealed = card[b].sealed
        /\ card[b].sealed => card'[b].state = card[b].state
        /\ card'[b].ring # "none" \/ card[b].ring = "none" \/ main' = main
        /\ card'[b].work # "converge" \/ card[b].work # "fence"
    BY <1>5, <1>b, <1>c, <1>e DEF LaneRaises, Put, Card
  <2>2. Apart(b)
    <3>1. \E w : Put(b, w) \/ FencedBy(b, w)
      BY <1>5 DEF LaneRaises
    <3> QED BY <3>1, <1>b, <1>c, PutsApart
  <2> QED BY <2>1, <2>2, <1>b, Others, Steady
<1> QED BY <1>1, <1>2, <1>3, <1>4, <1>5

(* The run: its failure and its verdict are published, each once.           *)
LEMMA RunHonest ==
  ASSUME SpikeInv, NEW b \in 1..bouts, Run(b) \/ CommitBreaks(b) \/ Towel(b)
  PROVE \A c \in Bouts : Honest(c)
<1>b. b \in Bouts
  BY OfRest
<1>c. card \in [Bouts -> Card] /\ card[b] \in Card
  BY <1>b DEF SpikeInv, SpikeTypeOK, Card
<1>e. /\ card[b].sealed => card[b].state \notin {"CHECKING", "ARMED", "RUNNING"}
      /\ card[b].run \in {"arm", "readback"} => ~card[b].sealed
      /\ card[b].off = "fence" => card[b].work = "none"
  BY <1>b, OfBout DEF CardFits, Ends, Attends, Terminal
<1>1. CASE SetupEnds(b)
  <2>1. /\ card'[b].sealed = card[b].sealed
        /\ card[b].sealed => card'[b].state = card[b].state
        /\ card'[b].ring # "none" \/ card[b].ring = "none" \/ main' = main
        /\ card'[b].work # "converge" \/ card[b].work # "fence"
    BY <1>1, <1>b, <1>c, <1>e DEF SetupEnds, Put, Card
  <2>2. Apart(b)
    <3>1. \E w : Put(b, w) \/ FencedBy(b, w)
      BY <1>1 DEF SetupEnds
    <3> QED BY <3>1, <1>b, <1>c, PutsApart
  <2> QED BY <2>1, <2>2, <1>b, Others, Steady
<1>2. CASE BurstEnds(b)
  <2>1. /\ card'[b].sealed = card[b].sealed
        /\ card[b].sealed => card'[b].state = card[b].state
        /\ card'[b].ring # "none" \/ card[b].ring = "none" \/ main' = main
        /\ card'[b].work # "converge" \/ card[b].work # "fence"
    BY <1>2, <1>b, <1>c, <1>e DEF BurstEnds, Put, Card
  <2>2. Apart(b)
    <3>1. \E w : Put(b, w) \/ FencedBy(b, w)
      BY <1>2 DEF BurstEnds
    <3> QED BY <3>1, <1>b, <1>c, PutsApart
  <2> QED BY <2>1, <2>2, <1>b, Others, Steady
<1>3. CASE Commits(b)
  <2>1. /\ card'[b].sealed = card[b].sealed
        /\ card[b].sealed => card'[b].state = card[b].state
        /\ card'[b].ring # "none" \/ card[b].ring = "none" \/ main' = main
        /\ card'[b].work # "converge" \/ card[b].work # "fence"
    BY <1>3, <1>b, <1>c, <1>e DEF Commits, Put, Card
  <2>2. Apart(b)
    <3>1. \E w : Put(b, w) \/ FencedBy(b, w)
      BY <1>3 DEF Commits
    <3> QED BY <3>1, <1>b, <1>c, PutsApart
  <2> QED BY <2>1, <2>2, <1>b, Others, Steady
<1>4. CASE CommitRefused(b)
  <2>1. /\ card'[b].sealed = card[b].sealed
        /\ card[b].sealed => card'[b].state = card[b].state
        /\ card'[b].ring # "none" \/ card[b].ring = "none" \/ main' = main
        /\ card'[b].work # "converge" \/ card[b].work # "fence"
    BY <1>4, <1>b, <1>c, <1>e DEF CommitRefused, Put, Card
  <2>2. Apart(b)
    <3>1. \E w : Put(b, w) \/ FencedBy(b, w)
      BY <1>4 DEF CommitRefused
    <3> QED BY <3>1, <1>b, <1>c, PutsApart
  <2> QED BY <2>1, <2>2, <1>b, Others, Steady
<1>5. CASE CommitBreaks(b)
  <2>p. PICK w : /\ Put(b, w) \/ FencedBy(b, w)
                 /\ ~card[b].sealed
                 /\ \E v : w = [card[b] EXCEPT !.state = v, !.run = "none"]
    BY <1>5 DEF CommitBreaks
  <2>q. card'[b] = w
    BY <2>p, <1>b, <1>c DEF Put, FencedBy
  <2>1. /\ card'[b].sealed = card[b].sealed
        /\ card[b].sealed => card'[b].state = card[b].state
        /\ card'[b].ring # "none" \/ card[b].ring = "none" \/ main' = main
        /\ card'[b].work # "converge" \/ card[b].work # "fence"
    BY <2>p, <2>q, <1>c, <1>e DEF Card
  <2>2. Apart(b)
    BY <2>p, <1>b, <1>c, PutsApart
  <2> QED BY <2>1, <2>2, <1>b, Others, Steady
<1>6. CASE RunStops(b)
  <2>1. /\ card'[b].sealed = card[b].sealed
        /\ card[b].sealed => card'[b].state = card[b].state
        /\ card'[b].ring # "none" \/ card[b].ring = "none" \/ main' = main
        /\ card'[b].work # "converge" \/ card[b].work # "fence"
    BY <1>6, <1>b, <1>c, <1>e DEF RunStops, Put, Card
  <2>2. Apart(b)
    <3>1. \E w : Put(b, w) \/ FencedBy(b, w)
      BY <1>6 DEF RunStops
    <3> QED BY <3>1, <1>b, <1>c, PutsApart
  <2> QED BY <2>1, <2>2, <1>b, Others, Steady
<1>7. CASE ReadsBack(b)
  <2>1. /\ card'[b].ring = card[b].ring /\ card'[b].work = card[b].work
        /\ ~card[b].sealed
        /\ card'[b].sealed => /\ card'[b].state = card[b].state
                              /\ OwnsMain(b) /\ back = Row(b, "run_committed")
    BY <1>7, <1>b, <1>c, <1>e DEF ReadsBack, Put, Card
  <2>2. Apart(b)
    <3>1. \E w : Put(b, w) \/ FencedBy(b, w)
      BY <1>7 DEF ReadsBack
    <3> QED BY <3>1, <1>b, <1>c, PutsApart
  <2>4. /\ card[b].ring = "cooldown"
        /\ card[b].state = "VERIFIED" => \A l \in Lanes : lane[b][l] = "valid"
    BY <1>b, <1>7, OfBout DEF ReadsBack, CardFits, Ends, LanesFit
  <2>3. Honest(b)
    BY <2>1, <2>4 DEF Honest, Absorbs, Proves, Frees, Spares, OwnsMain
  <2> QED BY <2>2, <2>3, <1>b, Others
<1>8. CASE PublishFailure(b)
  <2>p. PICK w : /\ Put(b, w) \/ FencedBy(b, w)
                 /\ card[b].sealed => w = [card[b] EXCEPT !.run = "none", !.failing = FALSE]
                 /\ ~card[b].sealed =>
                      w = [[card[b] EXCEPT !.run = "none", !.failing = FALSE] EXCEPT
                            !.state = "FAILED", !.open = FALSE, !.owed = FALSE, !.sealed = TRUE,
                            !.off = "cancel", !.ring = IF OwnsMain(b) /\ card[b].ring = "run_committed"
                                                       THEN "cooldown" ELSE @]
    BY <1>8 DEF PublishFailure
  <2>q. card'[b] = w
    BY <2>p, <1>b, <1>c DEF Put, FencedBy
  <2>1. /\ card'[b].ring = card[b].ring \/ card'[b].ring # "none"
        /\ card'[b].work = card[b].work
        /\ card[b].sealed => card'[b].sealed /\ card'[b].state = card[b].state
        /\ ~card[b].sealed => card'[b].state = "FAILED"
    <3>1. CASE card[b].sealed
      <4>1. w = [card[b] EXCEPT !.run = "none", !.failing = FALSE]
        BY <3>1, <2>p
      <4> QED BY <4>1, <3>1, <2>q, <1>c, <1>e DEF Card
    <3>2. CASE ~card[b].sealed
      BY <3>2, <2>p, <2>q, <1>c, <1>e, ZenonT(60) DEF Card
    <3> QED BY <2>p, <3>1, <3>2
  <2>2. Apart(b)
    BY <2>p, <1>b, <1>c, PutsApart
  <2>3. Honest(b)
    BY <2>1 DEF Honest, Absorbs, Proves, Frees, Spares
  <2> QED BY <2>2, <2>3, <1>b, Others
<1>9. CASE Towel(b)
  <2>1. /\ card'[b].ring # "none" /\ card'[b].work = card[b].work
        /\ card'[b].state = "TOWELLED" /\ ~card[b].sealed
    BY <1>9, <1>b, <1>c, <1>e DEF Towel, Put, Card
  <2>2. Apart(b)
    <3>1. \E w : Put(b, w) \/ FencedBy(b, w)
      BY <1>9 DEF Towel
    <3> QED BY <3>1, <1>b, <1>c, PutsApart
  <2>3. Honest(b)
    BY <2>1 DEF Honest, Absorbs, Proves, Frees, Spares
  <2> QED BY <2>2, <2>3, <1>b, Others
<1> QED BY <1>1, <1>2, <1>3, <1>4, <1>5, <1>6, <1>7, <1>8, <1>9 DEF Run

(* A lost lease: only a bout that has nothing left to clean gives its ring back.*)
LEMMA LossHonest ==
  ASSUME SpikeInv, NEW b \in 1..bouts, LosesMain(b) \/ LosesBack(b)
  PROVE \A c \in Bouts : Honest(c)
<1>b. b \in Bouts
  BY OfRest
<1>c. card \in [Bouts -> Card] /\ card[b] \in Card
  BY <1>b DEF SpikeInv, SpikeTypeOK, Card
<1>e. /\ card[b].sealed => card[b].state \notin {"CHECKING", "ARMED", "RUNNING"}
      /\ card[b].run \in {"arm", "readback"} => ~card[b].sealed
      /\ card[b].off = "fence" => card[b].work = "none"
  BY <1>b, OfBout DEF CardFits, Ends, Attends, Terminal
<1>1. CASE LosesMain(b)
  <2>1. /\ card'[b].sealed = card[b].sealed
        /\ card[b].sealed => card'[b].state = card[b].state
        /\ card'[b].ring # "none" \/ card[b].ring = "none" \/ main' = main
        /\ card'[b].work # "converge" \/ card[b].work # "fence"
    BY <1>1, <1>b, <1>c, <1>e DEF LosesMain, Put, Card, Stopped
  <2>2. Apart(b)
    <3>1. \E w : Put(b, w) \/ FencedBy(b, w)
      BY <1>1 DEF LosesMain
    <3> QED BY <3>1, <1>b, <1>c, PutsApart
  <2> QED BY <2>1, <2>2, <1>b, Others, Steady
<1>2. CASE LosesBack(b)
  <2>p. PICK w : /\ Put(b, w) \/ FencedBy(b, w)
                 /\ \/ w = [card[b] EXCEPT !.clean = "none"]
                    \/ w = Stopped([card[b] EXCEPT !.clean = "none"])
                    \/ w = [[card[b] EXCEPT !.clean = "none"] EXCEPT !.ring = "none"]
                 /\ main' = main \/ (~Busy(b) /\ (card[b].sealed \/ card[b].state \in Terminal))
    BY <1>2 DEF LosesBack
  <2>q. card'[b] = w
    BY <2>p, <1>b, <1>c DEF Put, FencedBy
  <2>1. /\ card'[b].sealed = card[b].sealed /\ card'[b].state = card[b].state
        /\ card'[b].work = card[b].work
    <3>1. CASE w = [card[b] EXCEPT !.clean = "none"]
      BY <3>1, <2>p, <2>q, <1>c, <1>e DEF Card, Stopped
    <3>2. CASE w = Stopped([card[b] EXCEPT !.clean = "none"])
      BY <3>2, <2>p, <2>q, <1>c, <1>e DEF Card, Stopped
    <3>3. CASE w = [[card[b] EXCEPT !.clean = "none"] EXCEPT !.ring = "none"]
      BY <3>3, <2>p, <2>q, <1>c, <1>e DEF Card, Stopped
    <3> QED BY <2>p, <3>1, <3>2, <3>3
  <2>2. Apart(b)
    BY <2>p, <1>b, <1>c, PutsApart
  <2>4. ~Busy(b) /\ (card[b].sealed \/ card[b].owed) => card[b].ring = "none"
    BY <1>b, OfBout DEF CardFits, Attends, Busy
  <2>5. b # 0
    BY <1>b DEF Bouts
  <2>3. Honest(b)
    BY <2>p, <2>1, <2>4, <2>5 DEF Honest, Absorbs, Proves, Frees, Spares
  <2> QED BY <2>2, <2>3, <1>b, Others
<1> QED BY <1>1, <1>2

(* The handoff to cleanup.                                                  *)
LEMMA HandoffHonest ==
  ASSUME SpikeInv, NEW b \in 1..bouts, Handoff(b) \/ HandoffGivesUp(b)
  PROVE \A c \in Bouts : Honest(c)
<1>b. b \in Bouts
  BY OfRest
<1>c. card \in [Bouts -> Card] /\ card[b] \in Card
  BY <1>b DEF SpikeInv, SpikeTypeOK, Card
<1>e. /\ card[b].sealed => card[b].state \notin {"CHECKING", "ARMED", "RUNNING"}
      /\ card[b].run \in {"arm", "readback"} => ~card[b].sealed
      /\ card[b].off = "fence" => card[b].work = "none"
  BY <1>b, OfBout DEF CardFits, Ends, Attends, Terminal
<1>1. CASE HandoffCancels(b)
  <2>1. /\ card'[b].sealed = card[b].sealed
        /\ card[b].sealed => card'[b].state = card[b].state
        /\ card'[b].ring # "none" \/ card[b].ring = "none" \/ main' = main
        /\ card'[b].work # "converge" \/ card[b].work # "fence"
    BY <1>1, <1>b, <1>c, <1>e DEF HandoffCancels, Put, Card
  <2>2. Apart(b)
    <3>1. \E w : Put(b, w) \/ FencedBy(b, w)
      BY <1>1 DEF HandoffCancels
    <3> QED BY <3>1, <1>b, <1>c, PutsApart
  <2> QED BY <2>1, <2>2, <1>b, Others, Steady
<1>2. CASE HandoffGivesUp(b)
  <2>1. /\ card'[b].sealed = card[b].sealed
        /\ card[b].sealed => card'[b].state = card[b].state
        /\ card'[b].ring # "none" \/ card[b].ring = "none" \/ main' = main
        /\ card'[b].work # "converge" \/ card[b].work # "fence"
    BY <1>2, <1>b, <1>c, <1>e DEF HandoffGivesUp, Put, Card
  <2>2. Apart(b)
    <3>1. \E w : Put(b, w) \/ FencedBy(b, w)
      BY <1>2 DEF HandoffGivesUp
    <3> QED BY <3>1, <1>b, <1>c, PutsApart
  <2> QED BY <2>1, <2>2, <1>b, Others, Steady
<1>3. CASE LateStops(b)
  <2>1. /\ card'[b].sealed = card[b].sealed
        /\ card[b].sealed => card'[b].state = card[b].state
        /\ card'[b].ring # "none" \/ card[b].ring = "none" \/ main' = main
        /\ card'[b].work # "converge" \/ card[b].work # "fence"
    BY <1>3, <1>b, <1>c, <1>e DEF LateStops, Put, Card
  <2>2. Apart(b)
    <3>1. \E w : Put(b, w) \/ FencedBy(b, w)
      BY <1>3 DEF LateStops
    <3> QED BY <3>1, <1>b, <1>c, PutsApart
  <2> QED BY <2>1, <2>2, <1>b, Others, Steady
<1>4. CASE HandoffFences(b)
  <2>p. PICK w : /\ Put(b, w) \/ FencedBy(b, w)
                 /\ card[b].off = "fence"
                 /\ \/ w = [[card[b] EXCEPT !.off = "none", !.clean = Retained(b, FALSE)]
                                EXCEPT !.work = IF @ = "none" THEN "look" ELSE @]
                    \/ w = Owing([card[b] EXCEPT !.off = "none", !.clean = Retained(b, FALSE)])
    BY <1>4 DEF HandoffFences
  <2>q. card'[b] = w
    BY <2>p, <1>b, <1>c DEF Put, FencedBy
  <2>1. /\ card'[b].sealed = card[b].sealed
        /\ card[b].sealed => card'[b].state = card[b].state
        /\ card'[b].ring # "none" \/ card[b].ring = "none" \/ main' = main
        /\ card'[b].work # "converge" \/ card[b].work # "fence"
    <3>1. CASE w = [[card[b] EXCEPT !.off = "none", !.clean = Retained(b, FALSE)]
                      EXCEPT !.work = IF @ = "none" THEN "look" ELSE @]
      <4>1. /\ w.sealed = card[b].sealed /\ w.state = card[b].state /\ w.ring = card[b].ring
            /\ w.work = "look"
        BY <2>p, <3>1, <1>c, <1>e DEF Card
      <4> QED BY <2>q, <4>1
    <3>2. CASE w = Owing([card[b] EXCEPT !.off = "none", !.clean = Retained(b, FALSE)])
      <4>1. /\ w.sealed = card[b].sealed /\ w.state = card[b].state /\ w.ring = card[b].ring
            /\ w.work = card[b].work
        BY <3>2, <1>c DEF Card, Owing
      <4> QED BY <2>p, <2>q, <4>1, <1>e
    <3> QED BY <2>p, <3>1, <3>2
  <2>2. Apart(b)
    BY <2>p, <1>b, <1>c, PutsApart
  <2> QED BY <2>1, <2>2, <1>b, Others, Steady
<1> QED BY <1>1, <1>2, <1>3, <1>4 DEF Handoff

(* The worker, which fences and releases.                                   *)
LEMMA WorkerHonest ==
  ASSUME SpikeInv, NEW b \in 1..bouts, Worker(b) \/ RetryCleanup(b)
  PROVE \A c \in Bouts : Honest(c)
<1>b. b \in Bouts
  BY OfRest
<1>c. card \in [Bouts -> Card] /\ card[b] \in Card
  BY <1>b DEF SpikeInv, SpikeTypeOK, Card
<1>e. /\ card[b].sealed => card[b].state \notin {"CHECKING", "ARMED", "RUNNING"}
      /\ card[b].run \in {"arm", "readback"} => ~card[b].sealed
      /\ card[b].off = "fence" => card[b].work = "none"
  BY <1>b, OfBout DEF CardFits, Ends, Attends, Terminal
<1>1. CASE LoopRuns(b)
  <2>1. /\ card'[b].sealed = card[b].sealed
        /\ card[b].sealed => card'[b].state = card[b].state
        /\ card'[b].ring # "none" \/ card[b].ring = "none" \/ main' = main
        /\ card'[b].work # "converge" \/ card[b].work # "fence"
    BY <1>1, <1>b, <1>c, <1>e DEF LoopRuns, Put, Card, Looked
  <2>2. Apart(b)
    <3>1. \E w : Put(b, w) \/ FencedBy(b, w)
      BY <1>1 DEF LoopRuns
    <3> QED BY <3>1, <1>b, <1>c, PutsApart
  <2> QED BY <2>1, <2>2, <1>b, Others, Steady
<1>2. CASE Looks(b)
  <2>1. /\ card'[b].sealed = card[b].sealed
        /\ card[b].sealed => card'[b].state = card[b].state
        /\ card'[b].ring # "none" \/ card[b].ring = "none" \/ main' = main
        /\ card'[b].work # "converge" \/ card[b].work # "fence"
    BY <1>2, <1>b, <1>c, <1>e DEF Looks, Put, Card, Looked
  <2>2. Apart(b)
    <3>1. \E w : Put(b, w) \/ FencedBy(b, w)
      BY <1>2 DEF Looks
    <3> QED BY <3>1, <1>b, <1>c, PutsApart
  <2> QED BY <2>1, <2>2, <1>b, Others, Steady
<1>3. CASE Leases(b)
  <2>1. /\ card'[b].sealed = card[b].sealed
        /\ card[b].sealed => card'[b].state = card[b].state
        /\ card'[b].ring # "none" \/ card[b].ring = "none" \/ main' = main
        /\ card'[b].work # "converge" \/ card[b].work # "fence"
    BY <1>3, <1>b, <1>c, <1>e DEF Leases, Put, Card, Pending, Owing
  <2>2. Apart(b)
    <3>1. \E w : Put(b, w) \/ FencedBy(b, w)
      BY <1>3 DEF Leases
    <3> QED BY <3>1, <1>b, <1>c, PutsApart
  <2> QED BY <2>1, <2>2, <1>b, Others, Steady
<1>4. CASE Converges(b)
  <2>p. PICK w : /\ Put(b, w) \/ FencedBy(b, w)
                 /\ card[b].work = "converge"
                 /\ \/ w = [card[b] EXCEPT !.held = 0, !.work = "main"] \/ w = Pending(card[b])
                    \/ w = Pending([card[b] EXCEPT !.held = slot.claim])
    BY <1>4 DEF Converges
  <2>q. card'[b] = w
    BY <2>p, <1>b, <1>c DEF Put, FencedBy
  <2>1. /\ card'[b].sealed = card[b].sealed
        /\ card[b].sealed => card'[b].state = card[b].state
        /\ card'[b].ring # "none" \/ card[b].ring = "none" \/ main' = main
        /\ card'[b].work # "converge" \/ card[b].work # "fence"
    <3>1. CASE w = [card[b] EXCEPT !.held = 0, !.work = "main"]
      BY <3>1, <2>p, <2>q, <1>c, <1>e DEF Card, Pending, Owing
    <3>2. CASE w = Pending(card[b])
      BY <3>2, <2>p, <2>q, <1>c, <1>e DEF Card, Pending, Owing
    <3>3. CASE w = Pending([card[b] EXCEPT !.held = slot.claim])
      BY <3>3, <2>p, <2>q, <1>c, <1>e DEF Card, Pending, Owing
    <3> QED BY <2>p, <3>1, <3>2, <3>3
  <2>2. Apart(b)
    BY <2>p, <1>b, <1>c, PutsApart
  <2> QED BY <2>1, <2>2, <1>b, Others, Steady
<1>5. CASE ReleasesBack(b)
  <2>1. /\ card'[b].sealed = card[b].sealed
        /\ card[b].sealed => card'[b].state = card[b].state
        /\ card'[b].ring # "none" \/ card[b].ring = "none" \/ main' = main
        /\ card'[b].work # "converge" \/ card[b].work # "fence"
    BY <1>5, <1>b, <1>c, <1>e DEF ReleasesBack, Put, Card, Pending, Owing
  <2>2. Apart(b)
    <3>1. \E w : Put(b, w) \/ FencedBy(b, w)
      BY <1>5 DEF ReleasesBack
    <3> QED BY <3>1, <1>b, <1>c, PutsApart
  <2> QED BY <2>1, <2>2, <1>b, Others, Steady
<1>6. CASE RetryCleanup(b)
  <2>1. /\ card'[b].sealed = card[b].sealed
        /\ card[b].sealed => card'[b].state = card[b].state
        /\ card'[b].ring # "none" \/ card[b].ring = "none" \/ main' = main
        /\ card'[b].work # "converge" \/ card[b].work # "fence"
    BY <1>6, <1>b, <1>c, <1>e DEF RetryCleanup, Put, Card
  <2>2. Apart(b)
    <3>1. \E w : Put(b, w) \/ FencedBy(b, w)
      BY <1>6 DEF RetryCleanup
    <3> QED BY <3>1, <1>b, <1>c, PutsApart
  <2> QED BY <2>1, <2>2, <1>b, Others, Steady
<1>7. CASE Fences(b)
  <2>p. PICK w : /\ Put(b, w) \/ FencedBy(b, w)
                 /\ \/ w = [card[b] EXCEPT !.work = "converge"] /\ CanFence(b, card[b].held)
                    \/ w = Pending(card[b])
    BY <1>7 DEF Fences
  <2>q. card'[b] = w
    BY <2>p, <1>b, <1>c DEF Put, FencedBy
  <2>1. /\ card'[b].sealed = card[b].sealed /\ card'[b].state = card[b].state
        /\ card'[b].ring = card[b].ring
        /\ card'[b].work = "converge" => CanFence(b, card[b].held)
    BY <2>p, <2>q, <1>c, <1>e, ZenonT(60) DEF Card, Pending, Owing
  <2>2. Apart(b)
    BY <2>p, <1>b, <1>c, PutsApart
  <2>4. Spares(b)
    <3>1. CASE CanFence(b, card[b].held) /\ ~card[b].passed /\ slot.claim # b
      <4>1. /\ card[b].work = "fence" /\ card[b].held # 0 /\ slot.claim = card[b].held
            /\ card[b].home # None
        BY <3>1, <1>7, <1>b, OfBout DEF Fences, CanFence, CardFits, Lives
      <4>2. Lapsed(slot.claim)
        BY <4>1, <3>1, <1>b, OfBout DEF Adopts
      <4>3. ~OwnsBack(slot.claim) \/ card[slot.claim].state \in Terminal
        BY <4>2 DEF Lapsed, OwnsBack, Row
      <4> QED BY <4>3 DEF Spares
    <3>2. CASE ~(CanFence(b, card[b].held) /\ ~card[b].passed /\ slot.claim # b)
      BY <2>1, <3>2 DEF Spares
    <3> QED BY <3>1, <3>2
  <2>3. Honest(b)
    BY <2>1, <2>4 DEF Honest, Absorbs, Proves, Frees
  <2> QED BY <2>2, <2>3, <1>b, Others
<1>8. CASE ReleasesMain(b)
  <2>1. /\ card'[b].sealed = card[b].sealed /\ card'[b].state = card[b].state
        /\ card'[b].work # "converge"
    BY <1>8, <1>b, <1>c, <1>e DEF ReleasesMain, Put, Card, Pending, Owing
  <2>2. Apart(b)
    <3>1. \E w : Put(b, w) \/ FencedBy(b, w)
      BY <1>8 DEF ReleasesMain
    <3> QED BY <3>1, <1>b, <1>c, PutsApart
  <2>4. slot.claim # b
    BY <1>8, <1>b, OfBout DEF ReleasesMain, CardFits, Lives, BoutFits
  <2>3. Honest(b)
    BY <2>1, <2>4 DEF Honest, Absorbs, Proves, Frees, Spares
  <2> QED BY <2>2, <2>3, <1>b, Others
<1> QED BY <1>1, <1>2, <1>3, <1>4, <1>5, <1>6, <1>7, <1>8 DEF Worker

(* The claim of a bout, the other processes and the rows publish and        *)
(* release nothing.                                                         *)
LEMMA RestHonest ==
  ASSUME SpikeInv,
         \/ \E p \in Process : Claim(p) \/ TakesOver(p) \/ Crash(p)
         \/ \E b \in 1..bouts : Outlived(b)
         \/ MainEnds \/ BackEnds \/ Coordinator \/ Rewarms
  PROVE \A c \in Bouts : Honest(c)
<1> USE NamesAssumption
<1>c. card \in [Bouts -> Card] /\ bouts \in 0..MaxBout /\ SpikeInv
  BY DEF SpikeInv, SpikeTypeOK, Card
<1>1. ASSUME NEW p \in Process, Claim(p)
      PROVE \A c \in Bouts : Honest(c)
  <2>0. bouts < MaxBout
    BY <1>1 DEF Claim
  <2>1. bouts + 1 \in Bouts /\ bouts + 1 > bouts
    BY <2>0, <1>c, BoundsAssumption DEF Bouts
  <2>2. PICK b \in Bouts : b = bouts + 1
    BY <2>1
  <2>3. PICK w : /\ Put(b, w)
                /\ w = [Draft EXCEPT !.home = p, !.state = "CHECKING", !.ring = "checking",
                                     !.clean = "checking", !.held = b, !.run = "arm"]
    BY <1>1, <2>2 DEF Claim
  <2>4. card'[b] = w /\ Apart(b)
    BY <1>c, <2>3, PutsApart DEF Put
  <2>5. card[b] = Draft
    BY <2>1, <2>2 DEF SpikeInv
  <2>7. w.sealed = FALSE /\ w.work = "none"
    BY <2>3 DEF Draft
  <2>6. Honest(b)
    BY <2>3, <2>4, <2>5, <2>7 DEF Honest, Absorbs, Proves, Frees, Spares, Draft
  <2> QED BY <2>4, <2>6, Others
<1>2. ASSUME NEW p \in Process, TakesOver(p), NEW c \in Bouts
      PROVE Honest(c)
  <2>1. /\ card'[c].sealed = card[c].sealed /\ card'[c].state = card[c].state
        /\ card'[c].ring = card[c].ring /\ card'[c].work = card[c].work
    BY <1>2, <1>c DEF TakesOver, Card
  <2> QED BY <2>1, Steady
<1>3. ASSUME NEW p \in Process, Crash(p), NEW c \in Bouts
      PROVE Honest(c)
  <2>1. main' = main /\ c # 0 /\ card'[c] \in {Draft, card[c]}
    BY <1>3 DEF Crash, Bouts
  <2>2. CASE card'[c] = Draft
    <3>1. /\ card'[c].home = None /\ card'[c].sealed = FALSE /\ card'[c].work = "none"
      BY <2>2 DEF Draft
    <3> QED BY <2>1, <3>1 DEF Honest, Absorbs, Proves, Frees, Spares
  <2>3. CASE card'[c] = card[c]
    BY <2>3, Steady
  <2> QED BY <2>1, <2>2, <2>3
<1>4. CASE \/ \E b \in 1..bouts : Outlived(b)
           \/ MainEnds \/ BackEnds \/ Coordinator \/ Rewarms
  <2>1. card' = card
    BY <1>4 DEF Outlived, MainEnds, BackEnds, Coordinator, Settles, Advances, Inherits,
       Rewarms
  <2> QED BY <2>1, Steady
<1> QED BY <1>1, <1>2, <1>3, <1>4

LEMMA Honesty ==
  ASSUME SpikeInv, Next
  PROVE \A c \in Bouts : Honest(c)
<1>l. Lakebase \in Lanes
  BY DEF Lanes
<1>1. ASSUME NEW b \in 1..bouts, Arm(b) \/ Abandon(b) \/ Bell(b) \/ BellRefused(b) \/ BellLapses(b)
      PROVE \A c \in Bouts : Honest(c)
  BY <1>1, ArmHonest
<1>2. ASSUME NEW b \in 1..bouts, NEW l \in Lanes,
             Stages(b) \/ Dispatches(b, l) \/ LaneProves(b, l) \/ LaneMisses(b, l)
             \/ LaneRaises(b, l)
      PROVE \A c \in Bouts : Honest(c)
  BY <1>2, LanesHonest
<1>3. ASSUME NEW b \in 1..bouts, Run(b) \/ CommitBreaks(b) \/ Towel(b)
      PROVE \A c \in Bouts : Honest(c)
  BY <1>3, RunHonest
<1>4. ASSUME NEW b \in 1..bouts,
             Handoff(b) \/ HandoffGivesUp(b) \/ Worker(b) \/ RetryCleanup(b)
      PROVE \A c \in Bouts : Honest(c)
  BY <1>4, HandoffHonest, WorkerHonest
<1>5. ASSUME NEW b \in 1..bouts, LosesMain(b) \/ LosesBack(b)
      PROVE \A c \in Bouts : Honest(c)
  BY <1>5, LossHonest
<1> QED BY <1>1, <1>2, <1>3, <1>4, <1>5, <1>l, RestHonest DEF Next

(* A published outcome is absorbing (OutcomeStands).                        *)
THEOREM OutcomesStand ==
  Spec => OutcomeStands
<1>1. ASSUME SpikeInv, [Next]_vars
      PROVE [\A b \in Bouts : card[b].sealed =>
               \/ card'[b].sealed /\ card'[b].state = card[b].state
               \/ card'[b].home = None]_vars
  BY <1>1, Honesty DEF Honest, Absorbs
<1> QED BY Initially, Invariance, <1>1, PTL DEF Spec, OutcomeStands

(* A verdict is published as VERIFIED only while both rows are the bout's   *)
(* and both lanes proved (VerdictIsProved).                                 *)
THEOREM VerdictsAreProved ==
  Spec => VerdictIsProved
<1>1. ASSUME SpikeInv, [Next]_vars
      PROVE [\A b \in Bouts :
               card'[b].sealed /\ ~card[b].sealed /\ card'[b].state = "VERIFIED" =>
                 /\ main = Row(b, "cooldown") /\ back = Row(b, "run_committed")
                 /\ \A l \in Lanes : lane[b][l] = "valid"]_vars
  BY <1>1, Honesty DEF Honest, Proves
<1> QED BY Initially, Invariance, <1>1, PTL DEF Spec, VerdictIsProved

(* A bout with an outcome, or with cleanup owed, gives its ring back only   *)
(* once the slot no longer bears its claim (RingOutlastsCleanup).           *)
THEOREM RingsOutlastCleanup ==
  Spec => RingOutlastsCleanup
<1>1. ASSUME SpikeInv, [Next]_vars
      PROVE [\A b \in Bouts :
               /\ card[b].sealed \/ card[b].owed
               /\ main.bout = b /\ main'.bout = 0
               /\ card[b].ring # "none" /\ card'[b].ring = "none"
               => slot.claim # b]_vars
  BY <1>1, Honesty DEF Honest, Frees
<1> QED BY Initially, Invariance, <1>1, PTL DEF Spec, RingOutlastsCleanup

(* A stale worker, of a process that coordinated the slot throughout,       *)
(* cleans no other bout that still holds its cleanup ring and has no        *)
(* outcome yet (OthersClaimStands).                                         *)
THEOREM OthersClaimsStand ==
  Spec => OthersClaimStands
<1>1. ASSUME SpikeInv, [Next]_vars
      PROVE [\A b \in Bouts : ~card[b].passed /\ card[b].work = "fence" /\ card'[b].work = "converge" =>
               LET c == slot.claim IN
               c = b \/ card[c].state \in Terminal \/ ~OwnsBack(c)]_vars
  BY <1>1, Honesty DEF Honest, Spares
<1> QED BY Initially, Invariance, <1>1, PTL DEF Spec, OthersClaimStands
=============================================================================
