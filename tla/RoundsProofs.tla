----------------------------- MODULE RoundsProofs -----------------------------
(***************************************************************************)
(* Proofs about the bouts of Round 6 and of Round 2, for any number of     *)
(* bouts, lanes, orders, parts and faults, of the specification that       *)
(* MCRounds checks.                                                        *)
(***************************************************************************)
EXTENDS MCRounds, TLAPS

-----------------------------------------------------------------------------
(* Round 6.                                                                 *)
Young == {"none", "look", "park", "purge", "armed"}

(* What a bout's card, its settlement and what it issued have to do with    *)
(* each other.                                                              *)
CardFits(b, w, n) ==
  /\ b > n => w.run = "none"
  /\ w.run \in Young => ~w.rang
  /\ w.job # "none" \/ w.towel # "none" => w.run = "over"
  /\ w.towel = "FAILED" => w.job = "none"
  /\ w.parked # {} => w.run = "park" \/ w.job = "parking"

(* A call on the wire is of a bout that rang and has not drained it.        *)
CallFits(w) == w.rang /\ w.job \in {"none", "pending", "gaveUp"}

(* An order in a source keeps its bout from being settled, and from parking *)
(* without having noted that a delete failed.                               *)
RowFits(w) == w.job # "settled" /\ (w.job = "parking" => w.bad)

(* A part of the pipeline that is not at rest is one some bout that rang    *)
(* has yet to see at rest: seeing it parked, and starting it again, are     *)
(* never the work of the same bout.                                         *)
Owes(w, p) == w.rang /\ w.job # "settled" /\ p \notin w.parked

RaceInv ==
  /\ R6!RaceTypeOK /\ holder <= begun
  /\ \A b \in Bouts : CardFits(b, bout[b], begun)
  /\ \A c \in calls : CallFits(bout[c.bout])
  /\ \A r \in rows : RowFits(bout[r.bout])
  /\ \A p \in Parts : part[p] # "parked" => \E d \in Bouts : Owes(bout[d], p)

-----------------------------------------------------------------------------
(* A step of one bout, or of a call of its, changes that bout's record, and *)
(* what it adds is that bout's: what the step has to keep is about it alone. *)
LEMMA OneCard ==
  ASSUME RaceInv,
         NEW b \in Bouts, NEW w \in R6!Card, bout' = [bout EXCEPT ![b] = w],
         holder' \in 0..MaxBout, prior' \in 0..MaxBout, slips' \in 0..MaxFaults,
         begun' \in 0..MaxBout, begun <= begun', holder' <= begun',
         \A c \in calls' : c \in calls \/ (c \in R6!Call /\ c.bout = b),
         \A r \in rows' : r \in rows \/ (r \in R6!Row /\ r.bout = b),
         part' \in [Parts -> {"parked", "starting", "running", "stopping"}],
         \A p \in Parts : part'[p] # "parked" => part[p] # "parked" \/ Owes(w, p),
         CardFits(b, w, begun'),
         \A c \in calls' : c.bout = b => CallFits(w),
         \A r \in rows' : r.bout = b => RowFits(w),
         \A p \in Parts : part'[p] # "parked" /\ Owes(bout[b], p) => Owes(w, p)
  PROVE  RaceInv'
<1>1. bout \in [Bouts -> R6!Card] /\ calls \subseteq R6!Call /\ rows \subseteq R6!Row
  BY DEF RaceInv, R6!RaceTypeOK, R6!Bouts, Bouts
<1>2. /\ bout' \in [Bouts -> R6!Card]
      /\ bout'[b] = w
      /\ \A d \in Bouts : d # b => bout'[d] = bout[d]
  BY <1>1
<1>3. R6!RaceTypeOK'
  BY <1>1, <1>2 DEF RaceInv, R6!RaceTypeOK, R6!Bouts, Bouts
<1>4. ASSUME NEW d \in Bouts
      PROVE  CardFits(d, bout'[d], begun')
  <2>1. CASE d = b
    BY <1>2, <2>1
  <2>2. CASE d # b
    <3>1. CardFits(d, bout[d], begun)
      BY DEF RaceInv
    <3>2. d > begun' => d > begun
      BY <1>1 DEF RaceInv, R6!RaceTypeOK, Bouts
    <3> QED
      BY <1>2, <2>2, <3>1, <3>2 DEF CardFits
  <2> QED
    BY <2>1, <2>2
<1>5. ASSUME NEW c \in calls'
      PROVE  CallFits(bout'[c.bout])
  <2>1. c \in R6!Call /\ c.bout \in Bouts
    BY <1>1 DEF R6!Call, R6!Bouts, Bouts
  <2>2. CASE c.bout = b
    BY <1>2, <2>2
  <2>3. CASE c.bout # b
    BY <1>2, <2>1, <2>3 DEF RaceInv
  <2> QED
    BY <2>2, <2>3
<1>6. ASSUME NEW r \in rows'
      PROVE  RowFits(bout'[r.bout])
  <2>1. r \in R6!Row /\ r.bout \in Bouts
    BY <1>1 DEF R6!Row, R6!Bouts, Bouts
  <2>2. CASE r.bout = b
    BY <1>2, <2>2
  <2>3. CASE r.bout # b
    BY <1>2, <2>1, <2>3 DEF RaceInv
  <2> QED
    BY <2>2, <2>3
<1>7. ASSUME NEW p \in Parts, part'[p] # "parked"
      PROVE  \E d \in Bouts : Owes(bout'[d], p)
  <2>0. CASE Owes(w, p)
    BY <1>2, <2>0
  <2>1. CASE part[p] # "parked"
    <3>1. PICK d \in Bouts : Owes(bout[d], p)
      BY <2>1 DEF RaceInv
    <3>2. CASE d = b
      BY <1>2, <1>7, <3>1, <3>2
    <3>3. CASE d # b
      BY <1>2, <3>1, <3>3
    <3> QED
      BY <3>2, <3>3
  <2> QED
    BY <1>7, <2>0, <2>1
<1> QED
  BY <1>3, <1>4, <1>5, <1>6, <1>7 DEF RaceInv

(* A bout's record, and what the invariant says of it.                      *)
LEMMA OfOne ==
  ASSUME RaceInv, NEW b \in Bouts
  PROVE  /\ bout[b] \in R6!Card /\ CardFits(b, bout[b], begun)
         /\ \A c \in calls : c.bout = b => CallFits(bout[b])
         /\ \A r \in rows : r.bout = b => RowFits(bout[b])
         /\ bout \in [Bouts -> R6!Card]
         /\ part \in [Parts -> {"parked", "starting", "running", "stopping"}]
         /\ holder \in 0..MaxBout /\ begun \in 0..MaxBout /\ prior \in 0..MaxBout
         /\ holder <= begun /\ slips \in 0..MaxFaults /\ b \in 0..MaxBout /\ 0 \in 0..MaxBout
  BY BoundsAssumption DEF RaceInv, R6!RaceTypeOK, R6!Bouts, Bouts

-----------------------------------------------------------------------------
(* Steps of a bout's card.                                                  *)
LEMMA CardKeeps ==
  ASSUME RaceInv, NEW b \in Bouts,
         \/ R6!Look(b)
         \/ R6!AtRest(b)
         \/ R6!Purge(b)
         \/ R6!RaceEnds(b)
         \/ R6!Schedule(b)
         \/ R6!Drains(b)
         \/ R6!Deletes(b)
         \/ R6!Settles(b)
         \/ R6!PrepareFails(b)
         \/ R6!BellFails(b)
         \/ R6!RaceFails(b)
         \/ R6!TowelGivesUp(b)
         \/ R6!DeletesSome(b)
         \/ R6!Loses(b)
         \/ R6!LosesTowel(b)
         \/ R6!Claim(b)
         \/ R6!Abandon(b)
         \/ R6!Towel(b)
         \/ R6!TowelRetry(b)
  PROVE  RaceInv'
<1>a. /\ bout \in [Bouts -> R6!Card]
      /\ part \in [Parts -> {"parked", "starting", "running", "stopping"}]
      /\ \A p \in Parts : part[p] # "parked" => part[p] # "parked"
  BY OfOne
<1>b. bout[b] \in R6!Card
  BY <1>a
<1>c. 0 \in 0..Attempts
  BY RaceAssumption
<1>1. CASE R6!Look(b)
  <2> DEFINE w == [bout[b] EXCEPT !.run = "park",
                                  !.early = \E c \in 1..(b - 1) : bout[c].run = "publish"]
  <2>1. bout' = [bout EXCEPT ![b] = w]
    BY <1>1, <1>a DEF R6!Look, R6!Sets, R6!Due
  <2>2. w \in R6!Card
    BY <1>b, <1>c DEF R6!Card
  <2>3. /\ CardFits(b, w, begun')
        /\ \A c \in calls' : c.bout = b => CallFits(w)
        /\ \A r \in rows' : r.bout = b => RowFits(w)
        /\ \A p \in Parts : part'[p] # "parked" /\ Owes(bout[b], p) => Owes(w, p)
    BY <1>1, OfOne
       DEF R6!Look, R6!Card, R6!ring, R6!Slip, CardFits, CallFits, RowFits, Owes, Young
  <2>4. /\ holder' \in 0..MaxBout /\ prior' \in 0..MaxBout /\ slips' \in 0..MaxFaults
        /\ begun' \in 0..MaxBout /\ begun <= begun' /\ holder' <= begun'
        /\ calls' \subseteq calls /\ rows' \subseteq rows /\ part' = part
    BY <1>1, OfOne, BoundsAssumption DEF R6!Look, R6!ring, R6!Slip
  <2> HIDE DEF w
  <2> QED
    BY <2>1, <2>2, <2>3, <2>4, <1>a, OneCard
<1>2. CASE R6!AtRest(b)
  <2> DEFINE w == [bout[b] EXCEPT !.run = "purge", !.parked = {}]
  <2>1. bout' = [bout EXCEPT ![b] = w]
    BY <1>2, <1>a DEF R6!AtRest, R6!Sets, R6!Due
  <2>2. w \in R6!Card
    BY <1>b, <1>c DEF R6!Card
  <2>3. /\ CardFits(b, w, begun')
        /\ \A c \in calls' : c.bout = b => CallFits(w)
        /\ \A r \in rows' : r.bout = b => RowFits(w)
        /\ \A p \in Parts : part'[p] # "parked" /\ Owes(bout[b], p) => Owes(w, p)
    BY <1>2, OfOne
       DEF R6!AtRest, R6!Card, R6!ring, R6!Slip, CardFits, CallFits, RowFits, Owes, Young
  <2>4. /\ holder' \in 0..MaxBout /\ prior' \in 0..MaxBout /\ slips' \in 0..MaxFaults
        /\ begun' \in 0..MaxBout /\ begun <= begun' /\ holder' <= begun'
        /\ calls' \subseteq calls /\ rows' \subseteq rows /\ part' = part
    BY <1>2, OfOne, BoundsAssumption DEF R6!AtRest, R6!ring, R6!Slip
  <2> HIDE DEF w
  <2> QED
    BY <2>1, <2>2, <2>3, <2>4, <1>a, OneCard
<1>3. CASE R6!Purge(b)
  <2> DEFINE w == [bout[b] EXCEPT !.run = "armed"]
  <2>1. bout' = [bout EXCEPT ![b] = w]
    BY <1>3, <1>a DEF R6!Purge, R6!Sets, R6!Due
  <2>2. w \in R6!Card
    BY <1>b, <1>c DEF R6!Card
  <2>3. /\ CardFits(b, w, begun')
        /\ \A c \in calls' : c.bout = b => CallFits(w)
        /\ \A r \in rows' : r.bout = b => RowFits(w)
        /\ \A p \in Parts : part'[p] # "parked" /\ Owes(bout[b], p) => Owes(w, p)
    BY <1>3, OfOne
       DEF R6!Purge, R6!Card, R6!ring, R6!Slip, CardFits, CallFits, RowFits, Owes, Young
  <2>4. /\ holder' \in 0..MaxBout /\ prior' \in 0..MaxBout /\ slips' \in 0..MaxFaults
        /\ begun' \in 0..MaxBout /\ begun <= begun' /\ holder' <= begun'
        /\ calls' \subseteq calls /\ rows' \subseteq rows /\ part' = part
    BY <1>3, OfOne, BoundsAssumption DEF R6!Purge, R6!ring, R6!Slip
  <2> HIDE DEF w
  <2> QED
    BY <2>1, <2>2, <2>3, <2>4, <1>a, OneCard
<1>4. CASE R6!RaceEnds(b)
  <2> DEFINE w == [bout[b] EXCEPT !.run = "publish"]
  <2>1. bout' = [bout EXCEPT ![b] = w]
    BY <1>4, <1>a DEF R6!RaceEnds, R6!Sets, R6!Due
  <2>2. w \in R6!Card
    BY <1>b, <1>c DEF R6!Card
  <2>3. /\ CardFits(b, w, begun')
        /\ \A c \in calls' : c.bout = b => CallFits(w)
        /\ \A r \in rows' : r.bout = b => RowFits(w)
        /\ \A p \in Parts : part'[p] # "parked" /\ Owes(bout[b], p) => Owes(w, p)
    BY <1>4, OfOne
       DEF R6!RaceEnds, R6!Card, R6!ring, R6!Slip, CardFits, CallFits, RowFits, Owes, Young
  <2>4. /\ holder' \in 0..MaxBout /\ prior' \in 0..MaxBout /\ slips' \in 0..MaxFaults
        /\ begun' \in 0..MaxBout /\ begun <= begun' /\ holder' <= begun'
        /\ calls' \subseteq calls /\ rows' \subseteq rows /\ part' = part
    BY <1>4, OfOne, BoundsAssumption DEF R6!RaceEnds, R6!ring, R6!Slip
  <2> HIDE DEF w
  <2> QED
    BY <2>1, <2>2, <2>3, <2>4, <1>a, OneCard
<1>5. CASE R6!Schedule(b)
  <2> DEFINE w == [bout[b] EXCEPT !.run = "over", !.job = "pending", !.tries = 0, !.bad = FALSE]
  <2>1. bout' = [bout EXCEPT ![b] = w]
    BY <1>5, <1>a DEF R6!Schedule, R6!Sets, R6!Due
  <2>2. w \in R6!Card
    BY <1>b, <1>c DEF R6!Card
  <2>3. /\ CardFits(b, w, begun')
        /\ \A c \in calls' : c.bout = b => CallFits(w)
        /\ \A r \in rows' : r.bout = b => RowFits(w)
        /\ \A p \in Parts : part'[p] # "parked" /\ Owes(bout[b], p) => Owes(w, p)
    BY <1>5, OfOne
       DEF R6!Schedule, R6!Card, R6!ring, R6!Slip, CardFits, CallFits, RowFits, Owes, Young
  <2>4. /\ holder' \in 0..MaxBout /\ prior' \in 0..MaxBout /\ slips' \in 0..MaxFaults
        /\ begun' \in 0..MaxBout /\ begun <= begun' /\ holder' <= begun'
        /\ calls' \subseteq calls /\ rows' \subseteq rows /\ part' = part
    BY <1>5, OfOne, BoundsAssumption DEF R6!Schedule, R6!ring, R6!Slip
  <2> HIDE DEF w
  <2> QED
    BY <2>1, <2>2, <2>3, <2>4, <1>a, OneCard
<1>6. CASE R6!Drains(b)
  <2> DEFINE w == [bout[b] EXCEPT !.job = "deleting", !.bad = FALSE]
  <2>1. bout' = [bout EXCEPT ![b] = w]
    BY <1>6, <1>a DEF R6!Drains, R6!Sets, R6!Due
  <2>2. w \in R6!Card
    BY <1>b, <1>c DEF R6!Card
  <2>3. /\ CardFits(b, w, begun')
        /\ \A c \in calls' : c.bout = b => CallFits(w)
        /\ \A r \in rows' : r.bout = b => RowFits(w)
        /\ \A p \in Parts : part'[p] # "parked" /\ Owes(bout[b], p) => Owes(w, p)
    BY <1>6, OfOne
       DEF R6!Drains, R6!Card, R6!ring, R6!Slip, CardFits, CallFits, RowFits, Owes, Young,
           R6!InFlight, R6!Of
  <2>4. /\ holder' \in 0..MaxBout /\ prior' \in 0..MaxBout /\ slips' \in 0..MaxFaults
        /\ begun' \in 0..MaxBout /\ begun <= begun' /\ holder' <= begun'
        /\ calls' \subseteq calls /\ rows' \subseteq rows /\ part' = part
    BY <1>6, OfOne, BoundsAssumption DEF R6!Drains, R6!ring, R6!Slip, R6!InFlight, R6!Of
  <2> HIDE DEF w
  <2> QED
    BY <2>1, <2>2, <2>3, <2>4, <1>a, OneCard
<1>7. CASE R6!Deletes(b)
  <2> DEFINE w == [bout[b] EXCEPT !.job = "parking"]
  <2>1. bout' = [bout EXCEPT ![b] = w]
    BY <1>7, <1>a DEF R6!Deletes, R6!Sets, R6!Due
  <2>2. w \in R6!Card
    BY <1>b, <1>c DEF R6!Card
  <2>3. /\ CardFits(b, w, begun')
        /\ \A c \in calls' : c.bout = b => CallFits(w)
        /\ \A r \in rows' : r.bout = b => RowFits(w)
        /\ \A p \in Parts : part'[p] # "parked" /\ Owes(bout[b], p) => Owes(w, p)
    BY <1>7, OfOne
       DEF R6!Deletes, R6!Card, R6!ring, R6!Slip, CardFits, CallFits, RowFits, Owes, Young,
           R6!RowsOf
  <2>4. /\ holder' \in 0..MaxBout /\ prior' \in 0..MaxBout /\ slips' \in 0..MaxFaults
        /\ begun' \in 0..MaxBout /\ begun <= begun' /\ holder' <= begun'
        /\ calls' \subseteq calls /\ rows' \subseteq rows /\ part' = part
    BY <1>7, OfOne, BoundsAssumption DEF R6!Deletes, R6!ring, R6!Slip, R6!RowsOf
  <2> HIDE DEF w
  <2> QED
    BY <2>1, <2>2, <2>3, <2>4, <1>a, OneCard
<1>8. CASE R6!Settles(b)
  <2> DEFINE w == [bout[b] EXCEPT !.job = "settled", !.parked = {},
                                  !.towel = IF @ = "none" THEN @ ELSE "READY"]
  <2>1. bout' = [bout EXCEPT ![b] = w]
    BY <1>8, <1>a DEF R6!Settles, R6!Sets, R6!Due
  <2>2. w \in R6!Card
    BY <1>b, <1>c DEF R6!Card
  <2>3. /\ CardFits(b, w, begun')
        /\ \A c \in calls' : c.bout = b => CallFits(w)
        /\ \A r \in rows' : r.bout = b => RowFits(w)
        /\ \A p \in Parts : part'[p] # "parked" /\ Owes(bout[b], p) => Owes(w, p)
    BY <1>8, OfOne
       DEF R6!Settles, R6!Card, R6!ring, R6!Slip, CardFits, CallFits, RowFits, Owes, Young
  <2>4. /\ holder' \in 0..MaxBout /\ prior' \in 0..MaxBout /\ slips' \in 0..MaxFaults
        /\ begun' \in 0..MaxBout /\ begun <= begun' /\ holder' <= begun'
        /\ calls' \subseteq calls /\ rows' \subseteq rows /\ part' = part
    BY <1>8, OfOne, BoundsAssumption DEF R6!Settles, R6!ring, R6!Slip
  <2> HIDE DEF w
  <2> QED
    BY <2>1, <2>2, <2>3, <2>4, <1>a, OneCard
<1>9. CASE R6!PrepareFails(b)
  <2> DEFINE w == [bout[b] EXCEPT !.run = "over", !.parked = {}]
  <2>1. bout' = [bout EXCEPT ![b] = w]
    BY <1>9, <1>a DEF R6!PrepareFails, R6!Sets, R6!Due
  <2>2. w \in R6!Card
    BY <1>b, <1>c DEF R6!Card
  <2>3. /\ CardFits(b, w, begun')
        /\ \A c \in calls' : c.bout = b => CallFits(w)
        /\ \A r \in rows' : r.bout = b => RowFits(w)
        /\ \A p \in Parts : part'[p] # "parked" /\ Owes(bout[b], p) => Owes(w, p)
    BY <1>9, OfOne
       DEF R6!PrepareFails, R6!Card, R6!ring, R6!Slip, CardFits, CallFits, RowFits, Owes, Young
  <2>4. /\ holder' \in 0..MaxBout /\ prior' \in 0..MaxBout /\ slips' \in 0..MaxFaults
        /\ begun' \in 0..MaxBout /\ begun <= begun' /\ holder' <= begun'
        /\ calls' \subseteq calls /\ rows' \subseteq rows /\ part' = part
    BY <1>9, OfOne, BoundsAssumption DEF R6!PrepareFails, R6!ring, R6!Slip
  <2> HIDE DEF w
  <2> QED
    BY <2>1, <2>2, <2>3, <2>4, <1>a, OneCard
<1>10. CASE R6!BellFails(b)
  <2> DEFINE w == [bout[b] EXCEPT !.run = "publish", !.rang = TRUE]
  <2>1. bout' = [bout EXCEPT ![b] = w]
    BY <1>10, <1>a DEF R6!BellFails, R6!Sets, R6!Due
  <2>2. w \in R6!Card
    BY <1>b, <1>c DEF R6!Card
  <2>3. /\ CardFits(b, w, begun')
        /\ \A c \in calls' : c.bout = b => CallFits(w)
        /\ \A r \in rows' : r.bout = b => RowFits(w)
        /\ \A p \in Parts : part'[p] # "parked" /\ Owes(bout[b], p) => Owes(w, p)
    BY <1>10, OfOne
       DEF R6!BellFails, R6!Card, R6!ring, R6!Slip, CardFits, CallFits, RowFits, Owes, Young
  <2>4. /\ holder' \in 0..MaxBout /\ prior' \in 0..MaxBout /\ slips' \in 0..MaxFaults
        /\ begun' \in 0..MaxBout /\ begun <= begun' /\ holder' <= begun'
        /\ calls' \subseteq calls /\ rows' \subseteq rows /\ part' = part
    BY <1>10, OfOne, BoundsAssumption DEF R6!BellFails, R6!ring, R6!Slip
  <2> HIDE DEF w
  <2> QED
    BY <2>1, <2>2, <2>3, <2>4, <1>a, OneCard
<1>11. CASE R6!RaceFails(b)
  <2> DEFINE w == [bout[b] EXCEPT !.run = "publish"]
  <2>1. bout' = [bout EXCEPT ![b] = w]
    BY <1>11, <1>a DEF R6!RaceFails, R6!Sets, R6!Due
  <2>2. w \in R6!Card
    BY <1>b, <1>c DEF R6!Card
  <2>3. /\ CardFits(b, w, begun')
        /\ \A c \in calls' : c.bout = b => CallFits(w)
        /\ \A r \in rows' : r.bout = b => RowFits(w)
        /\ \A p \in Parts : part'[p] # "parked" /\ Owes(bout[b], p) => Owes(w, p)
    BY <1>11, OfOne
       DEF R6!RaceFails, R6!Card, R6!ring, R6!Slip, CardFits, CallFits, RowFits, Owes, Young
  <2>4. /\ holder' \in 0..MaxBout /\ prior' \in 0..MaxBout /\ slips' \in 0..MaxFaults
        /\ begun' \in 0..MaxBout /\ begun <= begun' /\ holder' <= begun'
        /\ calls' \subseteq calls /\ rows' \subseteq rows /\ part' = part
    BY <1>11, OfOne, BoundsAssumption DEF R6!RaceFails, R6!ring, R6!Slip
  <2> HIDE DEF w
  <2> QED
    BY <2>1, <2>2, <2>3, <2>4, <1>a, OneCard
<1>12. CASE R6!TowelGivesUp(b)
  <2> DEFINE w == [bout[b] EXCEPT !.towel = "FAILED", !.job = "none"]
  <2>1. bout' = [bout EXCEPT ![b] = w]
    BY <1>12, <1>a DEF R6!TowelGivesUp, R6!Sets, R6!Due
  <2>2. w \in R6!Card
    BY <1>b, <1>c DEF R6!Card
  <2>3. /\ CardFits(b, w, begun')
        /\ \A c \in calls' : c.bout = b => CallFits(w)
        /\ \A r \in rows' : r.bout = b => RowFits(w)
        /\ \A p \in Parts : part'[p] # "parked" /\ Owes(bout[b], p) => Owes(w, p)
    BY <1>12, OfOne
       DEF R6!TowelGivesUp, R6!Card, R6!ring, R6!Slip, CardFits, CallFits, RowFits, Owes, Young
  <2>4. /\ holder' \in 0..MaxBout /\ prior' \in 0..MaxBout /\ slips' \in 0..MaxFaults
        /\ begun' \in 0..MaxBout /\ begun <= begun' /\ holder' <= begun'
        /\ calls' \subseteq calls /\ rows' \subseteq rows /\ part' = part
    BY <1>12, OfOne, BoundsAssumption DEF R6!TowelGivesUp, R6!ring, R6!Slip
  <2> HIDE DEF w
  <2> QED
    BY <2>1, <2>2, <2>3, <2>4, <1>a, OneCard
<1>13. CASE R6!DeletesSome(b)
  <2> DEFINE w == [bout[b] EXCEPT !.job = "parking", !.bad = TRUE]
  <2>1. bout' = [bout EXCEPT ![b] = w]
    BY <1>13, <1>a DEF R6!DeletesSome, R6!Sets, R6!Due
  <2>2. w \in R6!Card
    BY <1>b, <1>c DEF R6!Card
  <2>3. /\ CardFits(b, w, begun')
        /\ \A c \in calls' : c.bout = b => CallFits(w)
        /\ \A r \in rows' : r.bout = b => RowFits(w)
        /\ \A p \in Parts : part'[p] # "parked" /\ Owes(bout[b], p) => Owes(w, p)
    BY <1>13, OfOne
       DEF R6!DeletesSome, R6!Card, R6!ring, R6!Slip, CardFits, CallFits, RowFits, Owes, Young
  <2>4. /\ holder' \in 0..MaxBout /\ prior' \in 0..MaxBout /\ slips' \in 0..MaxFaults
        /\ begun' \in 0..MaxBout /\ begun <= begun' /\ holder' <= begun'
        /\ calls' \subseteq calls /\ rows' \subseteq rows /\ part' = part
    BY <1>13, OfOne, BoundsAssumption DEF R6!DeletesSome, R6!ring, R6!Slip
  <2> HIDE DEF w
  <2> QED
    BY <2>1, <2>2, <2>3, <2>4, <1>a, OneCard
<1>14. CASE R6!Loses(b)
  <2> DEFINE w == [bout[b] EXCEPT !.run = "over", !.job = "pending", !.tries = 0, !.bad = FALSE,
                                  !.lost = TRUE, !.parked = {},
                                  !.early = @ \/ ~R6!PriorIsDone(b)]
  <2>1. bout' = [bout EXCEPT ![b] = w]
    BY <1>14, <1>a DEF R6!Loses, R6!Sets, R6!Due
  <2>2. w \in R6!Card
    BY <1>b, <1>c DEF R6!Card
  <2>3. /\ CardFits(b, w, begun')
        /\ \A c \in calls' : c.bout = b => CallFits(w)
        /\ \A r \in rows' : r.bout = b => RowFits(w)
        /\ \A p \in Parts : part'[p] # "parked" /\ Owes(bout[b], p) => Owes(w, p)
    BY <1>14, OfOne
       DEF R6!Loses, R6!Card, R6!ring, R6!Slip, CardFits, CallFits, RowFits, Owes, Young
  <2>4. /\ holder' \in 0..MaxBout /\ prior' \in 0..MaxBout /\ slips' \in 0..MaxFaults
        /\ begun' \in 0..MaxBout /\ begun <= begun' /\ holder' <= begun'
        /\ calls' \subseteq calls /\ rows' \subseteq rows /\ part' = part
    BY <1>14, OfOne, BoundsAssumption DEF R6!Loses, R6!ring, R6!Slip
  <2> HIDE DEF w
  <2> QED
    BY <2>1, <2>2, <2>3, <2>4, <1>a, OneCard
<1>15. CASE R6!LosesTowel(b)
  <2> DEFINE w == [bout[b] EXCEPT !.towel = "FAILED", !.job = "none", !.lost = TRUE,
                                  !.parked = {}]
  <2>1. bout' = [bout EXCEPT ![b] = w]
    BY <1>15, <1>a DEF R6!LosesTowel, R6!Sets, R6!Due
  <2>2. w \in R6!Card
    BY <1>b, <1>c DEF R6!Card
  <2>3. /\ CardFits(b, w, begun')
        /\ \A c \in calls' : c.bout = b => CallFits(w)
        /\ \A r \in rows' : r.bout = b => RowFits(w)
        /\ \A p \in Parts : part'[p] # "parked" /\ Owes(bout[b], p) => Owes(w, p)
    BY <1>15, OfOne
       DEF R6!LosesTowel, R6!Card, R6!ring, R6!Slip, CardFits, CallFits, RowFits, Owes, Young
  <2>4. /\ holder' \in 0..MaxBout /\ prior' \in 0..MaxBout /\ slips' \in 0..MaxFaults
        /\ begun' \in 0..MaxBout /\ begun <= begun' /\ holder' <= begun'
        /\ calls' \subseteq calls /\ rows' \subseteq rows /\ part' = part
    BY <1>15, OfOne, BoundsAssumption DEF R6!LosesTowel, R6!ring, R6!Slip
  <2> HIDE DEF w
  <2> QED
    BY <2>1, <2>2, <2>3, <2>4, <1>a, OneCard
<1>16. CASE R6!Claim(b)
  <2> DEFINE w == [bout[b] EXCEPT !.run = "look"]
  <2>1. bout' = [bout EXCEPT ![b] = w]
    BY <1>16, <1>a DEF R6!Claim, R6!Sets, R6!Due
  <2>2. w \in R6!Card
    BY <1>b, <1>c DEF R6!Card
  <2>3. /\ CardFits(b, w, begun')
        /\ \A c \in calls' : c.bout = b => CallFits(w)
        /\ \A r \in rows' : r.bout = b => RowFits(w)
        /\ \A p \in Parts : part'[p] # "parked" /\ Owes(bout[b], p) => Owes(w, p)
    BY <1>16, OfOne
       DEF R6!Claim, R6!Card, R6!ring, R6!Slip, CardFits, CallFits, RowFits, Owes, Young
  <2>4. /\ holder' \in 0..MaxBout /\ prior' \in 0..MaxBout /\ slips' \in 0..MaxFaults
        /\ begun' \in 0..MaxBout /\ begun <= begun' /\ holder' <= begun'
        /\ calls' \subseteq calls /\ rows' \subseteq rows /\ part' = part
    BY <1>16, OfOne, BoundsAssumption DEF R6!Claim, R6!ring, R6!Slip
  <2> HIDE DEF w
  <2> QED
    BY <2>1, <2>2, <2>3, <2>4, <1>a, OneCard
<1>17. CASE R6!Abandon(b)
  <2> DEFINE w == [bout[b] EXCEPT !.run = "over"]
  <2>1. bout' = [bout EXCEPT ![b] = w]
    BY <1>17, <1>a DEF R6!Abandon, R6!Sets, R6!Due
  <2>2. w \in R6!Card
    BY <1>b, <1>c DEF R6!Card
  <2>3. /\ CardFits(b, w, begun')
        /\ \A c \in calls' : c.bout = b => CallFits(w)
        /\ \A r \in rows' : r.bout = b => RowFits(w)
        /\ \A p \in Parts : part'[p] # "parked" /\ Owes(bout[b], p) => Owes(w, p)
    BY <1>17, OfOne
       DEF R6!Abandon, R6!Card, R6!ring, R6!Slip, CardFits, CallFits, RowFits, Owes, Young
  <2>4. /\ holder' \in 0..MaxBout /\ prior' \in 0..MaxBout /\ slips' \in 0..MaxFaults
        /\ begun' \in 0..MaxBout /\ begun <= begun' /\ holder' <= begun'
        /\ calls' \subseteq calls /\ rows' \subseteq rows /\ part' = part
    BY <1>17, OfOne, BoundsAssumption DEF R6!Abandon, R6!ring, R6!Slip
  <2> HIDE DEF w
  <2> QED
    BY <2>1, <2>2, <2>3, <2>4, <1>a, OneCard
<1>18. CASE R6!Towel(b)
  <2> DEFINE w == [bout[b] EXCEPT !.run = "over", !.job = "pending", !.tries = 0, !.bad = FALSE,
                                  !.towel = "CLEANING"]
  <2>1. bout' = [bout EXCEPT ![b] = w]
    BY <1>18, <1>a DEF R6!Towel, R6!Sets, R6!Due
  <2>2. w \in R6!Card
    BY <1>b, <1>c DEF R6!Card
  <2>3. /\ CardFits(b, w, begun')
        /\ \A c \in calls' : c.bout = b => CallFits(w)
        /\ \A r \in rows' : r.bout = b => RowFits(w)
        /\ \A p \in Parts : part'[p] # "parked" /\ Owes(bout[b], p) => Owes(w, p)
    BY <1>18, OfOne
       DEF R6!Towel, R6!Card, R6!ring, R6!Slip, CardFits, CallFits, RowFits, Owes, Young
  <2>4. /\ holder' \in 0..MaxBout /\ prior' \in 0..MaxBout /\ slips' \in 0..MaxFaults
        /\ begun' \in 0..MaxBout /\ begun <= begun' /\ holder' <= begun'
        /\ calls' \subseteq calls /\ rows' \subseteq rows /\ part' = part
    BY <1>18, OfOne, BoundsAssumption DEF R6!Towel, R6!ring, R6!Slip
  <2> HIDE DEF w
  <2> QED
    BY <2>1, <2>2, <2>3, <2>4, <1>a, OneCard
<1>19. CASE R6!TowelRetry(b)
  <2> DEFINE w == [bout[b] EXCEPT !.run = "over", !.job = "pending", !.tries = 0, !.bad = FALSE,
                                  !.towel = "CLEANING"]
  <2>1. bout' = [bout EXCEPT ![b] = w]
    BY <1>19, <1>a DEF R6!TowelRetry, R6!Sets, R6!Due
  <2>2. w \in R6!Card
    BY <1>b, <1>c DEF R6!Card
  <2>3. /\ CardFits(b, w, begun')
        /\ \A c \in calls' : c.bout = b => CallFits(w)
        /\ \A r \in rows' : r.bout = b => RowFits(w)
        /\ \A p \in Parts : part'[p] # "parked" /\ Owes(bout[b], p) => Owes(w, p)
    BY <1>19, OfOne
       DEF R6!TowelRetry, R6!Card, R6!ring, R6!Slip, CardFits, CallFits, RowFits, Owes, Young
  <2>4. /\ holder' \in 0..MaxBout /\ prior' \in 0..MaxBout /\ slips' \in 0..MaxFaults
        /\ begun' \in 0..MaxBout /\ begun <= begun' /\ holder' <= begun'
        /\ calls' \subseteq calls /\ rows' \subseteq rows /\ part' = part
    BY <1>19, OfOne, BoundsAssumption DEF R6!TowelRetry, R6!ring, R6!Slip
  <2> HIDE DEF w
  <2> QED
    BY <2>1, <2>2, <2>3, <2>4, <1>a, OneCard
<1> QED
  BY <1>1, <1>2, <1>3, <1>4, <1>5, <1>6, <1>7, <1>8, <1>9, <1>10, <1>11, <1>12, <1>13, <1>14,
     <1>15, <1>16, <1>17, <1>18, <1>19

(* A settlement that failed is tried again, or given up.                    *)
LEMMA AgainKeeps ==
  ASSUME RaceInv, NEW b \in Bouts, R6!Retries(b) \/ R6!ParkFails(b)
  PROVE  RaceInv'
<1> DEFINE w == R6!Again(b)
<1>1. bout' = [bout EXCEPT ![b] = w] /\ bout[b] \in R6!Card /\ bout[b].job = "parking"
      /\ part \in [Parts -> {"parked", "starting", "running", "stopping"}]
  BY OfOne DEF R6!Retries, R6!ParkFails
<1>2. /\ w \in R6!Card
      /\ w.run = bout[b].run /\ w.rang = bout[b].rang /\ w.towel = bout[b].towel
      /\ w.job \in {"pending", "gaveUp"} /\ w.parked = {} /\ (w.job = "gaveUp" => w.towel = "none")
  <2>1. CASE bout[b].tries + 1 < Attempts \/ bout[b].towel # "none"
    <3> DEFINE n == IF bout[b].tries + 1 < Attempts THEN bout[b].tries + 1 ELSE bout[b].tries
    <3>1. n \in 0..Attempts
      BY <1>1, RaceAssumption DEF R6!Card
    <3>2. w = [bout[b] EXCEPT !.job = "pending", !.parked = {}, !.tries = n]
      BY <1>1, <2>1 DEF R6!Again, R6!Card
    <3> HIDE DEF n, w
    <3> QED
      BY <1>1, <3>1, <3>2 DEF R6!Card
  <2>2. CASE ~(bout[b].tries + 1 < Attempts \/ bout[b].towel # "none")
    <3>1. w = [bout[b] EXCEPT !.job = "gaveUp", !.parked = {}]
      BY <2>2 DEF R6!Again
    <3> HIDE DEF w
    <3> QED
      BY <1>1, <2>2, <3>1 DEF R6!Card
  <2> QED
    BY <2>1, <2>2
<1> HIDE DEF w
<1>3. /\ CardFits(b, w, begun)
      /\ \A c \in calls : c.bout = b => CallFits(w)
      /\ \A r \in rows : r.bout = b => RowFits(w)
      /\ \A p \in Parts : part[p] # "parked" /\ Owes(bout[b], p) => Owes(w, p)
  BY <1>1, <1>2, OfOne DEF CardFits, CallFits, RowFits, Owes, Young
<1>4. /\ holder' \in 0..MaxBout /\ prior' \in 0..MaxBout /\ slips' \in 0..MaxFaults
      /\ begun' \in 0..MaxBout /\ begun <= begun' /\ holder' <= begun' /\ begun' = begun
      /\ calls' = calls /\ rows' = rows /\ part' = part
  BY OfOne, BoundsAssumption DEF R6!Retries, R6!ParkFails, R6!ring, R6!Slip
<1> QED
  BY <1>1, <1>2, <1>3, <1>4, OneCard

(* A part is stopped, or seen at rest.                                      *)
LEMMA ParkKeeps ==
  ASSUME RaceInv, NEW b \in Bouts, NEW p \in Parts, R6!StopPart(b, p) \/ R6!SeenParked(b, p)
  PROVE  RaceInv'
<1>1. /\ bout \in [Bouts -> R6!Card] /\ bout[b] \in R6!Card
      /\ part \in [Parts -> {"parked", "starting", "running", "stopping"}]
  BY OfOne
<1>2. /\ holder' \in 0..MaxBout /\ prior' \in 0..MaxBout /\ slips' \in 0..MaxFaults
      /\ begun' \in 0..MaxBout /\ begun <= begun' /\ holder' <= begun' /\ begun' = begun
      /\ calls' = calls /\ rows' = rows
  BY OfOne DEF R6!StopPart, R6!SeenParked, R6!ring
<1>3. CASE R6!StopPart(b, p)
  <2>1. bout' = [bout EXCEPT ![b] = bout[b]]
    BY <1>1, <1>3 DEF R6!StopPart
  <2>2. /\ part' \in [Parts -> {"parked", "starting", "running", "stopping"}]
        /\ \A q \in Parts : part'[q] # "parked" => part[q] # "parked"
    BY <1>1, <1>3 DEF R6!StopPart
  <2>3. /\ CardFits(b, bout[b], begun)
        /\ \A c \in calls : c.bout = b => CallFits(bout[b])
        /\ \A r \in rows : r.bout = b => RowFits(bout[b])
    BY OfOne
  <2> QED
    BY <1>1, <1>2, <2>1, <2>2, <2>3, OneCard
<1>4. CASE R6!SeenParked(b, p)
  <2> DEFINE w == [bout[b] EXCEPT !.parked = bout[b].parked \cup {p}]
  <2>1. bout' = [bout EXCEPT ![b] = w] /\ part' = part /\ part[p] = "parked"
    BY <1>1, <1>4 DEF R6!SeenParked, R6!Sets
  <2>2. w \in R6!Card
    BY <1>1 DEF R6!Card
  <2>3. /\ CardFits(b, w, begun)
        /\ \A c \in calls : c.bout = b => CallFits(w)
        /\ \A r \in rows : r.bout = b => RowFits(w)
        /\ \A q \in Parts : part[q] # "parked" /\ Owes(bout[b], q) => Owes(w, q)
    BY <1>4, <2>1, OfOne DEF R6!SeenParked, R6!Parking, R6!Card, CardFits, CallFits, RowFits, Owes
  <2> HIDE DEF w
  <2> QED
    BY <1>1, <1>2, <2>1, <2>2, <2>3, OneCard
<1> QED
  BY <1>3, <1>4

(* The bell issues its bout's calls.                                        *)
LEMMA BellKeeps ==
  ASSUME RaceInv, NEW b \in Bouts, R6!Bell(b)
  PROVE  RaceInv'
<1> DEFINE w == [bout[b] EXCEPT !.run = "race", !.rang = TRUE]
<1>1. bout' = [bout EXCEPT ![b] = w] /\ bout[b] \in R6!Card /\ bout[b].run = "armed"
      /\ part \in [Parts -> {"parked", "starting", "running", "stopping"}]
  BY OfOne DEF R6!Bell
<1>2. w \in R6!Card
  BY <1>1 DEF R6!Card
<1>3. /\ CardFits(b, w, begun) /\ CallFits(w)
      /\ \A r \in rows : r.bout = b => RowFits(w)
      /\ \A p \in Parts : part[p] # "parked" /\ Owes(bout[b], p) => Owes(w, p)
  BY <1>1, OfOne DEF R6!Card, CardFits, CallFits, RowFits, Owes, Young
<1>4. /\ holder' \in 0..MaxBout /\ prior' \in 0..MaxBout /\ slips' \in 0..MaxFaults
      /\ begun' \in 0..MaxBout /\ begun <= begun' /\ holder' <= begun' /\ begun' = begun
      /\ rows' = rows /\ part' = part
  BY OfOne DEF R6!Bell, R6!ring
<1>5. \A c \in calls' : c \in calls \/ (c \in R6!Call /\ c.bout = b)
  BY DEF R6!Bell, R6!Call, R6!Bouts, Bouts
<1> HIDE DEF w
<1> QED
  BY <1>1, <1>2, <1>3, <1>4, <1>5, OneCard

(* A call is served, or fails.  What it adds is its bout's, which has yet   *)
(* to drain it.                                                             *)
LEMMA CallKeeps ==
  ASSUME RaceInv, NEW c \in calls, R6!Served(c) \/ R6!Refused(c)
  PROVE  RaceInv'
<1> DEFINE b == c.bout
           row == [bout |-> c.bout, order |-> c.call, lane |-> c.at]
           w == [bout[b] EXCEPT !.bad = TRUE]
<1>1. /\ b \in Bouts
      /\ c.call \in Orders => row \in R6!Row /\ row.bout = b
      /\ c.call = "start" => c.at \in Parts
  BY RaceAssumption DEF RaceInv, R6!RaceTypeOK, R6!Call, R6!Row, R6!Bouts, Bouts
<1>2. /\ bout \in [Bouts -> R6!Card] /\ bout[b] \in R6!Card
      /\ part \in [Parts -> {"parked", "starting", "running", "stopping"}]
      /\ CallFits(bout[b])
  BY <1>1, OfOne
<1>3. /\ holder' \in 0..MaxBout /\ prior' \in 0..MaxBout /\ slips' \in 0..MaxFaults
      /\ begun' \in 0..MaxBout /\ begun <= begun' /\ holder' <= begun' /\ begun' = begun
      /\ calls' \subseteq calls
  BY <1>1, OfOne, BoundsAssumption
     DEF R6!Served, R6!Commits, R6!Starts, R6!NoSlot, R6!Refused, R6!ring, R6!Slip
<1>4. \A p \in Parts : Owes(bout[b], p)
  BY <1>1, <1>2, OfOne DEF CardFits, CallFits, Owes, Young
<1>5. /\ RowFits(bout[b]) /\ CardFits(b, bout[b], begun)
      /\ \A r \in rows : r.bout = b => RowFits(bout[b])
  BY <1>1, <1>2, OfOne DEF CallFits, RowFits
<1>6. CASE R6!Commits(c) \/ R6!Starts(c)
  <2>1. bout' = [bout EXCEPT ![b] = bout[b]]
    BY <1>2, <1>6 DEF R6!Commits, R6!Starts
  <2>2. part' \in [Parts -> {"parked", "starting", "running", "stopping"}]
    BY <1>1, <1>2, <1>6 DEF R6!Commits, R6!Starts
  <2>3. \A r \in rows' : r \in rows \/ (r \in R6!Row /\ r.bout = b)
    BY <1>1, <1>6 DEF R6!Commits, R6!Starts
  <2> HIDE DEF b, row, w
  <2> QED
    BY <1>1, <1>2, <1>3, <1>4, <1>5, <2>1, <2>2, <2>3, OneCard
<1>7. CASE R6!NoSlot(c) \/ R6!Refused(c)
  <2>1. bout' = [bout EXCEPT ![b] = w] /\ part' = part
    BY <1>7 DEF R6!NoSlot, R6!Refused
  <2>2. w \in R6!Card
    BY <1>2 DEF R6!Card
  <2>3. CardFits(b, w, begun) /\ CallFits(w) /\ RowFits(w) /\ \A p \in Parts : Owes(w, p)
    BY <1>1, <1>2, <1>4, <1>5, OfOne DEF R6!Card, CardFits, CallFits, RowFits, Owes
  <2>4. \A r \in rows' : r \in rows \/ (r \in R6!Row /\ r.bout = b)
    BY <1>1, <1>7 DEF R6!NoSlot, R6!Refused
  <2> HIDE DEF b, row, w
  <2> QED
    BY <1>1, <1>2, <1>3, <2>1, <2>2, <2>3, <2>4, OneCard
<1> QED
  BY <1>6, <1>7 DEF R6!Served

(* The pipeline comes up or stops: whoever owed a part owes it still.       *)
LEMMA PipelineKeeps ==
  ASSUME RaceInv, NEW p \in Parts, R6!Pipeline(p)
  PROVE  RaceInv'
<1>1. part \in [Parts -> {"parked", "starting", "running", "stopping"}] /\ part[p] # "parked"
  BY DEF RaceInv, R6!RaceTypeOK, R6!Pipeline, R6!ComesUp, R6!Stops
<1>2. PICK b \in Bouts : Owes(bout[b], p)
  BY <1>1 DEF RaceInv
<1>3. /\ part' \in [Parts -> {"parked", "starting", "running", "stopping"}]
      /\ \A q \in Parts : part'[q] # "parked" => part[q] # "parked"
  BY <1>1 DEF R6!Pipeline, R6!ComesUp, R6!Stops
<1>4. /\ holder' \in 0..MaxBout /\ prior' \in 0..MaxBout /\ slips' \in 0..MaxFaults
      /\ begun' \in 0..MaxBout /\ begun <= begun' /\ holder' <= begun' /\ begun' = begun
      /\ calls' = calls /\ rows' = rows /\ bout' = bout
  BY OfOne DEF R6!Pipeline, R6!ComesUp, R6!Stops, R6!ring
<1>5. bout' = [bout EXCEPT ![b] = bout[b]]
  BY <1>4, OfOne
<1>6. /\ bout[b] \in R6!Card /\ CardFits(b, bout[b], begun)
      /\ \A c \in calls : c.bout = b => CallFits(bout[b])
      /\ \A r \in rows : r.bout = b => RowFits(bout[b])
  BY OfOne
<1> QED
  BY <1>3, <1>4, <1>5, <1>6, OneCard

(* The process dies.  Every bout that rang and was not settled stays owed   *)
(* all it started; what was on the wire is some such bout's.                *)
LEMMA CrashKeeps ==
  ASSUME RaceInv, R6!Crash
  PROVE  RaceInv'
<1>1. /\ bout \in [Bouts -> R6!Card] /\ calls \subseteq R6!Call /\ rows \subseteq R6!Row
      /\ part \in [Parts -> {"parked", "starting", "running", "stopping"}]
      /\ \A b \in Bouts : CardFits(b, bout[b], begun)
  BY DEF RaceInv, R6!RaceTypeOK, R6!Bouts, Bouts
<1>2. PICK landed \in SUBSET calls :
        /\ rows' = rows \cup {[bout |-> c.bout, order |-> c.call, lane |-> c.at] :
                               c \in {d \in landed : d.call \in Orders}}
        /\ part' = [p \in Parts |->
             IF part[p] = "parked" /\ \E c \in landed : c.call = "start" /\ c.at = p
             THEN "starting" ELSE part[p]]
  BY DEF R6!Crash
<1>3. /\ calls' = {} /\ holder' = 0 /\ prior' = 0 /\ begun' = begun /\ slips' \in 0..MaxFaults
      /\ 0 \in 0..MaxBout /\ begun \in 0..MaxBout /\ 0 <= begun
  <2>1. slips \in 0..MaxFaults /\ begun \in 0..MaxBout
    BY DEF RaceInv, R6!RaceTypeOK
  <2>2. /\ calls' = {} /\ holder' = 0 /\ prior' = 0 /\ begun' = begun
        /\ slips < MaxFaults /\ slips' = slips + 1
    BY DEF R6!Crash, R6!Slip
  <2> QED
    BY <2>1, <2>2, BoundsAssumption
<1>4. ASSUME NEW b \in Bouts
      PROVE  /\ bout'[b] \in R6!Card /\ CardFits(b, bout'[b], begun)
             /\ bout[b].job = "settled" \/ bout[b].run = "none" => bout'[b] = bout[b]
             /\ bout[b].job # "settled" => bout'[b].job # "settled"
             /\ bout[b].job # "settled" => bout'[b].rang = bout[b].rang /\ bout'[b].job = "none"
             /\ bout[b].job # "settled" => bout'[b].parked = {}
  <2>1. bout[b] \in R6!Card /\ CardFits(b, bout[b], begun)
    BY <1>1
  <2>2. CASE bout[b].run = "none" \/ bout[b].job = "settled"
    <3>1. bout'[b] = bout[b]
      BY <2>2 DEF R6!Crash, R6!Bouts, Bouts
    <3> QED
      BY <2>1, <2>2, <3>1 DEF CardFits
  <2>3. CASE ~(bout[b].run = "none" \/ bout[b].job = "settled")
    <3>1. bout'[b] = [R6!Fresh EXCEPT !.run = "dead", !.rang = bout[b].rang]
      BY <2>3 DEF R6!Crash, R6!Bouts, Bouts
    <3>2. R6!Fresh \in R6!Card
      BY RaceAssumption DEF R6!Fresh, R6!Card
    <3>3. /\ bout'[b].run = "dead" /\ bout'[b].rang = bout[b].rang /\ bout'[b].job = "none"
          /\ bout'[b].towel = "none" /\ bout'[b].parked = {}
      BY <3>1 DEF R6!Fresh
    <3>4. bout'[b] \in R6!Card
      BY <2>1, <3>1, <3>2 DEF R6!Card
    <3>5. CardFits(b, bout'[b], begun)
      BY <2>1, <2>3, <3>3 DEF CardFits, Young
    <3> QED
      BY <2>3, <3>3, <3>4, <3>5
  <2> QED
    BY <2>2, <2>3
<1>5. DOMAIN bout' = Bouts /\ bout' \in [Bouts -> R6!Card]
  BY <1>4 DEF R6!Crash, R6!Bouts, Bouts
<1>6. rows' \subseteq R6!Row
  <2>1. ASSUME NEW c \in landed, c.call \in Orders
        PROVE  [bout |-> c.bout, order |-> c.call, lane |-> c.at] \in R6!Row
    BY <1>1, <2>1, RaceAssumption DEF R6!Call, R6!Row
  <2> QED
    BY <1>1, <1>2, <2>1
<1>7. ASSUME NEW r \in rows'
      PROVE  RowFits(bout'[r.bout])
  <2>1. r.bout \in Bouts
    BY <1>6 DEF R6!Row, R6!Bouts, Bouts
  <2>2. bout[r.bout].job # "settled"
    <3>1. CASE r \in rows
      BY <3>1 DEF RaceInv, RowFits
    <3>2. CASE r \notin rows
      <4>1. PICK c \in landed : r = [bout |-> c.bout, order |-> c.call, lane |-> c.at]
        BY <1>2, <3>2
      <4> QED
        BY <4>1 DEF RaceInv, CallFits
    <3> QED
      BY <3>1, <3>2
  <2> QED
    BY <1>4, <2>1, <2>2 DEF RowFits
<1>8. ASSUME NEW p \in Parts, part'[p] # "parked"
      PROVE  \E d \in Bouts : Owes(bout'[d], p)
  <2>1. \E d \in Bouts : bout[d].rang /\ bout[d].job # "settled"
    <3>1. CASE part[p] # "parked"
      BY <3>1 DEF RaceInv, Owes
    <3>2. CASE part[p] = "parked"
      <4>1. PICK c \in landed : c.call = "start" /\ c.at = p
        BY <1>2, <1>8, <3>2
      <4>2. c.bout \in Bouts /\ CallFits(bout[c.bout])
        BY <1>1 DEF RaceInv, R6!Call, R6!Bouts, Bouts
      <4> QED
        BY <4>2 DEF CallFits
    <3> QED
      BY <3>1, <3>2
  <2> QED
    BY <1>4, <2>1 DEF Owes
<1>9. part' \in [Parts -> {"parked", "starting", "running", "stopping"}]
  BY <1>1, <1>2
<1>10. R6!RaceTypeOK' /\ holder' <= begun'
  BY <1>3, <1>5, <1>6, <1>9 DEF R6!RaceTypeOK, R6!Bouts, Bouts
<1> QED
  BY <1>3, <1>4, <1>7, <1>8, <1>10 DEF RaceInv

-----------------------------------------------------------------------------
(* What holds of every state of Round 6's bouts.                            *)
LEMMA RaceInvariance == RoundsSpec => []RaceInv
<1>1. RoundsInit => RaceInv
  <2>1. R6!Fresh \in R6!Card
    BY RaceAssumption DEF R6!Fresh, R6!Card
  <2> QED
    BY <2>1, BoundsAssumption, RaceAssumption
       DEF RoundsInit, R6!Init, RaceInv, R6!RaceTypeOK, R6!Bouts, Bouts, R6!Fresh, CardFits,
           Young
<1>2. ASSUME RaceInv, [RoundsNext]_<<vars, R6!raceVars>>
      PROVE  RaceInv'
  <2>1. CASE UNCHANGED R6!raceVars
    BY <1>2, <2>1 DEF R6!raceVars, RaceInv, R6!RaceTypeOK
  <2>2. CASE R6!Next
    <3>1. CASE \E p \in Parts : R6!Pipeline(p)
      BY <1>2, <3>1, PipelineKeeps
    <3>2. CASE \E c \in calls : R6!Served(c) \/ R6!Refused(c)
      BY <1>2, <3>2, CallKeeps
    <3>3. ASSUME NEW b \in Bouts, R6!CardStep(b) \/ R6!Mishap(b) \/ R6!Operator(b)
          PROVE  RaceInv'
      BY <1>2, <3>3, CardKeeps, AgainKeeps, ParkKeeps, BellKeeps
         DEF R6!CardStep, R6!Mishap, R6!Operator
    <3>4. CASE R6!Crash
      BY <1>2, <3>4, CrashKeeps
    <3> QED
      BY <2>2, <3>1, <3>2, <3>3, <3>4 DEF R6!Next, R6!Bouts, Bouts
  <2> QED
    BY <1>2, <2>1, <2>2 DEF RoundsNext, R6!raceVars
<1> QED
  BY <1>1, <1>2, PTL DEF RoundsSpec

(* A settlement that reports success leaves nothing of its bout in a source *)
(* or on its way, and the AWS pipeline runs, billed, only while a bout that *)
(* rang has not been settled: for any number of bouts, parts and tries,     *)
(* whatever fails, with processes that crash.                               *)
THEOREM SettlementIsComplete == RoundsSpec => []SettledLeavesNothing
<1>1. RaceInv => SettledLeavesNothing
  <2> SUFFICES ASSUME RaceInv PROVE SettledLeavesNothing
    OBVIOUS
  <2>1. \A b \in Bouts : bout[b].job = "settled" => R6!Of(b) = {} /\ R6!RowsOf(b) = {}
    BY DEF RaceInv, CallFits, RowFits, R6!Of, R6!RowsOf
  <2>2. (\E p \in Parts : part[p] # "parked") =>
          \E b \in Bouts : bout[b].rang /\ bout[b].job # "settled"
    BY DEF RaceInv, Owes
  <2> QED
    BY <2>1, <2>2 DEF SettledLeavesNothing, R6!SettledLeavesNothing, R6!Bouts, Bouts
<1> QED
  BY <1>1, RaceInvariance, PTL

-----------------------------------------------------------------------------
(* Whose settlements a race can meet.                                       *)

(* A settlement that is still at work, and a bout that has given the ring   *)
(* back, by itself or by its operator's towel, over what Prepare found.     *)
AtWork(w) == w.job \in {"pending", "deleting", "parking"}
Looked(b) ==
  \/ bout[b].run \in {"park", "purge", "armed", "race", "publish"}
  \/ holder = b /\ bout[b].towel # "none"

(* No Prepare and no loss of the ring has passed over a settlement.         *)
Heeded == \A b \in Bouts : ~bout[b].early

SettleInv ==
  /\ holder # 0 => holder = begun
  /\ \A b \in Bouts :
       /\ bout[b].run \in {"look", "park", "purge", "armed", "race"} => holder = b
       /\ bout[b].run \in {"none", "look"} => ~bout[b].early /\ ~bout[b].lost
       /\ bout[b].lost => bout[b].run = "over" /\ holder # b
       /\ bout[b].lost /\ AtWork(bout[b]) => holder = 0
       /\ AtWork(bout[b]) /\ bout[b].towel # "none" => holder = b
       /\ Heeded /\ AtWork(bout[b]) => prior = b \/ bout[b].lost \/ holder = b
       /\ Heeded /\ Looked(b) =>
            \A c \in Bouts \ {b} :
              /\ bout[c].run # "publish"
              /\ AtWork(bout[c]) => bout[c].lost

(* A step of one bout: what it may do to the ring, what its own record must *)
(* then say, ...                                                            *)
Turns(b) ==
  /\ \A d \in Bouts \ {b} : bout'[d] = bout[d]
  /\ \/ holder' = holder /\ begun' = begun
     \/ holder = b /\ holder' = 0
     \/ /\ holder = 0 /\ holder' = b /\ begun' = b
        /\ \A d \in Bouts : bout[d].lost => ~AtWork(bout[d])
  /\ bout'[b].run # "none" /\ (bout'[b].run = "look" => ~bout'[b].early)
  /\ bout'[b].run \in {"look", "park", "purge", "armed", "race"} => holder' = b
  /\ bout'[b].lost => bout'[b].run = "over" /\ holder' # b
  /\ bout'[b].lost /\ AtWork(bout'[b]) => holder' = 0
  /\ AtWork(bout'[b]) /\ bout'[b].towel # "none" => holder' = b
  /\ bout[b].early => bout'[b].early
  /\ bout[b].lost => bout'[b].lost

(* ... what it may do to what the process remembers, and which new records  *)
(* only a bout that has looked may have.                                    *)
Minds(b) ==
  /\ \/ prior' = prior
     \/ prior' = b /\ \A d \in Bouts \ {b} : AtWork(bout[d]) => bout[d].lost
  /\ AtWork(bout'[b]) => prior' = b \/ bout'[b].lost \/ holder' = b
  /\ \/ Looked(b)
     \/ /\ bout'[b].run = "publish" => bout[b].run = "publish"
        /\ AtWork(bout'[b]) => AtWork(bout[b]) \/ bout'[b].lost
  /\ Looked(b)' =>
       \A c \in Bouts \ {b} :
         bout[c].run # "publish" /\ (AtWork(bout[c]) => bout[c].lost)

LEMMA BoutMoves ==
  ASSUME RaceInv, RaceInv', SettleInv, NEW b \in Bouts, Turns(b), Heeded /\ Heeded' => Minds(b)
  PROVE  SettleInv'
<1>1. Heeded' => Heeded /\ Minds(b)
  BY DEF Heeded, Turns
<1>2. ASSUME NEW d \in Bouts \ {b}
      PROVE  /\ bout'[d].run \in {"look", "park", "purge", "armed", "race"} => holder' = d
             /\ bout'[d].run \in {"none", "look"} => ~bout'[d].early /\ ~bout'[d].lost
             /\ AtWork(bout'[d]) /\ bout'[d].towel # "none" => holder' = d
             /\ bout'[d].lost => bout'[d].run = "over" /\ holder' # d
             /\ bout'[d].lost /\ AtWork(bout'[d]) => holder' = 0
             /\ Heeded' /\ AtWork(bout'[d]) => prior' = d \/ bout'[d].lost \/ holder' = d
             /\ Looked(d)' => Looked(d)
  <2>1. bout'[d] = bout[d] /\ d \in Bouts /\ d # b /\ d # 0
    BY DEF Bouts, Turns
  <2> QED
    BY <1>1, <2>1 DEF SettleInv, Looked, Turns, Minds
<1>3. ASSUME Heeded', NEW d \in Bouts, Looked(d)', NEW c \in Bouts \ {d}
      PROVE  bout'[c].run # "publish" /\ (AtWork(bout'[c]) => bout'[c].lost)
  <2>1. CASE d = b
    BY <1>1, <1>3, <2>1 DEF Turns, Minds
  <2>2. CASE d # b /\ c # b
    BY <1>1, <1>2, <1>3, <2>2 DEF SettleInv, Turns
  <2>3. CASE d # b /\ c = b
    <3>1. Looked(d) /\ bout[b].run # "publish" /\ (AtWork(bout[b]) => bout[b].lost)
      BY <1>1, <1>2, <1>3, <2>3 DEF SettleInv
    <3>2. ~Looked(b)
      BY <1>1, <1>3, <2>3, <3>1 DEF SettleInv, Looked
    <3> QED
      BY <1>1, <1>3, <2>3, <3>1, <3>2 DEF Minds, Turns
  <2> QED
    BY <2>1, <2>2, <2>3
<1>4. holder' # 0 => holder' = begun'
  BY DEF SettleInv, Turns
<1>5. /\ bout'[b].run \in {"look", "park", "purge", "armed", "race"} => holder' = b
      /\ bout'[b].run \in {"none", "look"} => ~bout'[b].early /\ ~bout'[b].lost
      /\ AtWork(bout'[b]) /\ bout'[b].towel # "none" => holder' = b
      /\ bout'[b].lost => bout'[b].run = "over" /\ holder' # b
      /\ bout'[b].lost /\ AtWork(bout'[b]) => holder' = 0
      /\ Heeded' /\ AtWork(bout'[b]) => prior' = b \/ bout'[b].lost \/ holder' = b
  BY <1>1 DEF Turns, Minds
<1> QED
  BY <1>2, <1>3, <1>4, <1>5 DEF SettleInv

(* A step that leaves the ring, what the process remembers, and what        *)
(* matters here of every record.                                            *)
LEMMA BoutRests ==
  ASSUME SettleInv, holder' = holder, begun' = begun, prior' = prior,
         \A d \in Bouts :
           /\ bout'[d].run = bout[d].run /\ bout'[d].early = bout[d].early
           /\ bout'[d].lost = bout[d].lost
           /\ bout'[d].towel # "none" => bout[d].towel # "none"
           /\ AtWork(bout'[d]) => AtWork(bout[d])
  PROVE  SettleInv'
<1>1. Heeded' = Heeded
  BY DEF Heeded
<1>2. \A d \in Bouts : Looked(d)' => Looked(d)
  BY DEF Looked
<1> QED
  BY <1>1, <1>2 DEF SettleInv

(* The steps of a bout that hold, give back or lose the ring, or schedule.  *)
LEMMA SettleMoves ==
  ASSUME RaceInv, RaceInv', SettleInv, NEW b \in Bouts,
         \/ R6!Look(b)
         \/ R6!AtRest(b)
         \/ R6!Purge(b)
         \/ R6!Bell(b)
         \/ R6!RaceEnds(b)
         \/ R6!RaceFails(b)
         \/ R6!BellFails(b)
         \/ R6!PrepareFails(b)
         \/ R6!Abandon(b)
         \/ R6!Schedule(b)
         \/ R6!Towel(b)
         \/ R6!TowelRetry(b)
         \/ R6!Settles(b)
         \/ R6!Loses(b)
         \/ R6!LosesTowel(b)
         \/ R6!Claim(b)
  PROVE  SettleInv'
<1>a. /\ bout \in [Bouts -> R6!Card] /\ bout[b] \in R6!Card /\ CardFits(b, bout[b], begun)
      /\ b \in Bouts
      /\ b # 0 /\ holder <= begun /\ begun \in 0..MaxBout /\ holder \in 0..MaxBout
  BY OfOne DEF Bouts
<1>b. /\ holder # 0 => holder = begun
      /\ bout[b].run \in {"look", "park", "purge", "armed", "race"} => holder = b
      /\ bout[b].run \in {"none", "look"} => ~bout[b].early /\ ~bout[b].lost
      /\ AtWork(bout[b]) /\ bout[b].towel # "none" => holder = b
      /\ bout[b].lost => bout[b].run = "over" /\ holder # b
      /\ bout[b].lost /\ AtWork(bout[b]) => holder = 0
      /\ Heeded /\ AtWork(bout[b]) => prior = b \/ bout[b].lost \/ holder = b
      /\ Heeded /\ Looked(b) =>
           \A c \in Bouts \ {b} :
             /\ bout[c].run # "publish"
             /\ AtWork(bout[c]) => bout[c].lost
  BY DEF SettleInv
<1>c. ASSUME Heeded, R6!PriorIsDone(b), holder = b, NEW c \in Bouts \ {b}, AtWork(bout[c])
      PROVE  bout[c].lost
  BY <1>c DEF SettleInv, AtWork, R6!PriorIsDone, R6!Settling, R6!Bouts, Bouts
<1>d. ASSUME holder = b, NEW c \in Bouts \ {b}, bout[c].run = "publish"
      PROVE  c \in 1..(b - 1)
  <2>1. ~(c > begun) /\ begun = b
    BY <1>b, <1>a, <1>d DEF RaceInv, CardFits
  <2> QED
    BY <2>1 DEF Bouts
<1>1. CASE R6!Look(b)
  <2>1. bout' = [bout EXCEPT ![b] =
         [bout[b] EXCEPT !.run = "park",
           !.early = \E c \in 1..(b - 1) : bout[c].run = "publish"]]
    BY <1>1, <1>a DEF R6!Look, R6!Sets, R6!Due
  <2>2. /\ \A d \in Bouts \ {b} : bout'[d] = bout[d]
        /\ bout'[b].run = "park"
        /\ bout'[b].job = bout[b].job
        /\ bout'[b].towel = bout[b].towel
        /\ bout'[b].lost = bout[b].lost
        /\ bout'[b].early = (\E c \in 1..(b - 1) : bout[c].run = "publish")
    BY <2>1, <1>a DEF R6!Card
  <2>3. Turns(b)
    BY <1>1, <1>a, <1>b, <2>2 DEF Turns, R6!Look, R6!ring, CardFits, AtWork
  <2>4. Heeded /\ Heeded' => Minds(b)
    BY <1>1, <1>a, <1>b, <1>c, <1>d, <2>2 DEF Minds, Heeded, R6!Look, CardFits, AtWork, Looked
  <2> QED
    BY <2>3, <2>4, BoutMoves
<1>2. CASE R6!AtRest(b)
  <2>1. bout' = [bout EXCEPT ![b] =
         [bout[b] EXCEPT !.run = "purge", !.parked = {}]]
    BY <1>2, <1>a DEF R6!AtRest, R6!Sets, R6!Due
  <2>2. /\ \A d \in Bouts \ {b} : bout'[d] = bout[d]
        /\ bout'[b].run = "purge"
        /\ bout'[b].job = bout[b].job
        /\ bout'[b].towel = bout[b].towel
        /\ bout'[b].lost = bout[b].lost
        /\ bout'[b].early = bout[b].early
    BY <2>1, <1>a DEF R6!Card
  <2>3. Turns(b)
    BY <1>2, <1>a, <1>b, <2>2 DEF Turns, R6!AtRest, R6!ring, CardFits, AtWork
  <2>4. Heeded /\ Heeded' => Minds(b)
    BY <1>2, <1>a, <1>b, <2>2 DEF Minds, Heeded, R6!AtRest, R6!ring, CardFits, AtWork, Looked
  <2> QED
    BY <2>3, <2>4, BoutMoves
<1>3. CASE R6!Purge(b)
  <2>1. bout' = [bout EXCEPT ![b] =
         [bout[b] EXCEPT !.run = "armed"]]
    BY <1>3, <1>a DEF R6!Purge, R6!Sets, R6!Due
  <2>2. /\ \A d \in Bouts \ {b} : bout'[d] = bout[d]
        /\ bout'[b].run = "armed"
        /\ bout'[b].job = bout[b].job
        /\ bout'[b].towel = bout[b].towel
        /\ bout'[b].lost = bout[b].lost
        /\ bout'[b].early = bout[b].early
    BY <2>1, <1>a DEF R6!Card
  <2>3. Turns(b)
    BY <1>3, <1>a, <1>b, <2>2 DEF Turns, R6!Purge, R6!ring, CardFits, AtWork
  <2>4. Heeded /\ Heeded' => Minds(b)
    BY <1>3, <1>a, <1>b, <2>2 DEF Minds, Heeded, R6!Purge, R6!ring, CardFits, AtWork, Looked
  <2> QED
    BY <2>3, <2>4, BoutMoves
<1>4. CASE R6!Bell(b)
  <2>1. bout' = [bout EXCEPT ![b] =
         [bout[b] EXCEPT !.run = "race", !.rang = TRUE]]
    BY <1>4, <1>a DEF R6!Bell, R6!Sets, R6!Due
  <2>2. /\ \A d \in Bouts \ {b} : bout'[d] = bout[d]
        /\ bout'[b].run = "race"
        /\ bout'[b].job = bout[b].job
        /\ bout'[b].towel = bout[b].towel
        /\ bout'[b].lost = bout[b].lost
        /\ bout'[b].early = bout[b].early
    BY <2>1, <1>a DEF R6!Card
  <2>3. Turns(b)
    BY <1>4, <1>a, <1>b, <2>2 DEF Turns, R6!Bell, R6!ring, CardFits, AtWork
  <2>4. Heeded /\ Heeded' => Minds(b)
    BY <1>4, <1>a, <1>b, <2>2 DEF Minds, Heeded, R6!Bell, R6!ring, CardFits, AtWork, Looked
  <2> QED
    BY <2>3, <2>4, BoutMoves
<1>5. CASE R6!RaceEnds(b)
  <2>1. bout' = [bout EXCEPT ![b] =
         [bout[b] EXCEPT !.run = "publish"]]
    BY <1>5, <1>a DEF R6!RaceEnds, R6!Sets, R6!Due
  <2>2. /\ \A d \in Bouts \ {b} : bout'[d] = bout[d]
        /\ bout'[b].run = "publish"
        /\ bout'[b].job = bout[b].job
        /\ bout'[b].towel = bout[b].towel
        /\ bout'[b].lost = bout[b].lost
        /\ bout'[b].early = bout[b].early
    BY <2>1, <1>a DEF R6!Card
  <2>3. Turns(b)
    BY <1>5, <1>a, <1>b, <2>2 DEF Turns, R6!RaceEnds, R6!ring, CardFits, AtWork
  <2>4. Heeded /\ Heeded' => Minds(b)
    BY <1>5, <1>a, <1>b, <2>2 DEF Minds, Heeded, R6!RaceEnds, R6!ring, CardFits, AtWork, Looked
  <2> QED
    BY <2>3, <2>4, BoutMoves
<1>6. CASE R6!RaceFails(b)
  <2>1. bout' = [bout EXCEPT ![b] =
         [bout[b] EXCEPT !.run = "publish"]]
    BY <1>6, <1>a DEF R6!RaceFails, R6!Sets, R6!Due
  <2>2. /\ \A d \in Bouts \ {b} : bout'[d] = bout[d]
        /\ bout'[b].run = "publish"
        /\ bout'[b].job = bout[b].job
        /\ bout'[b].towel = bout[b].towel
        /\ bout'[b].lost = bout[b].lost
        /\ bout'[b].early = bout[b].early
    BY <2>1, <1>a DEF R6!Card
  <2>3. Turns(b)
    BY <1>6, <1>a, <1>b, <2>2 DEF Turns, R6!RaceFails, R6!ring, CardFits, AtWork
  <2>4. Heeded /\ Heeded' => Minds(b)
    BY <1>6, <1>a, <1>b, <2>2 DEF Minds, Heeded, R6!RaceFails, R6!ring, CardFits, AtWork, Looked
  <2> QED
    BY <2>3, <2>4, BoutMoves
<1>7. CASE R6!BellFails(b)
  <2>1. bout' = [bout EXCEPT ![b] =
         [bout[b] EXCEPT !.run = "publish", !.rang = TRUE]]
    BY <1>7, <1>a DEF R6!BellFails, R6!Sets, R6!Due
  <2>2. /\ \A d \in Bouts \ {b} : bout'[d] = bout[d]
        /\ bout'[b].run = "publish"
        /\ bout'[b].job = bout[b].job
        /\ bout'[b].towel = bout[b].towel
        /\ bout'[b].lost = bout[b].lost
        /\ bout'[b].early = bout[b].early
    BY <2>1, <1>a DEF R6!Card
  <2>3. Turns(b)
    BY <1>7, <1>a, <1>b, <2>2 DEF Turns, R6!BellFails, R6!ring, CardFits, AtWork
  <2>4. Heeded /\ Heeded' => Minds(b)
    BY <1>7, <1>a, <1>b, <2>2 DEF Minds, Heeded, R6!BellFails, R6!ring, CardFits, AtWork, Looked
  <2> QED
    BY <2>3, <2>4, BoutMoves
<1>8. CASE R6!PrepareFails(b)
  <2>1. bout' = [bout EXCEPT ![b] =
         [bout[b] EXCEPT !.run = "over", !.parked = {}]]
    BY <1>8, <1>a DEF R6!PrepareFails, R6!Sets, R6!Due
  <2>2. /\ \A d \in Bouts \ {b} : bout'[d] = bout[d]
        /\ bout'[b].run = "over"
        /\ bout'[b].job = bout[b].job
        /\ bout'[b].towel = bout[b].towel
        /\ bout'[b].lost = bout[b].lost
        /\ bout'[b].early = bout[b].early
    BY <2>1, <1>a DEF R6!Card
  <2>3. Turns(b)
    BY <1>8, <1>a, <1>b, <2>2 DEF Turns, R6!PrepareFails, R6!ring, CardFits, AtWork
  <2>4. Heeded /\ Heeded' => Minds(b)
    BY <1>8, <1>a, <1>b, <2>2
       DEF Minds, Heeded, R6!PrepareFails, R6!ring, CardFits, AtWork, Looked
  <2> QED
    BY <2>3, <2>4, BoutMoves
<1>9. CASE R6!Abandon(b)
  <2>1. bout' = [bout EXCEPT ![b] =
         [bout[b] EXCEPT !.run = "over"]]
    BY <1>9, <1>a DEF R6!Abandon, R6!Sets, R6!Due
  <2>2. /\ \A d \in Bouts \ {b} : bout'[d] = bout[d]
        /\ bout'[b].run = "over"
        /\ bout'[b].job = bout[b].job
        /\ bout'[b].towel = bout[b].towel
        /\ bout'[b].lost = bout[b].lost
        /\ bout'[b].early = bout[b].early
    BY <2>1, <1>a DEF R6!Card
  <2>3. Turns(b)
    BY <1>9, <1>a, <1>b, <2>2 DEF Turns, R6!Abandon, R6!ring, CardFits, AtWork
  <2>4. Heeded /\ Heeded' => Minds(b)
    BY <1>9, <1>a, <1>b, <2>2 DEF Minds, Heeded, R6!Abandon, R6!ring, CardFits, AtWork, Looked
  <2> QED
    BY <2>3, <2>4, BoutMoves
<1>10. CASE R6!Schedule(b)
  <2>1. bout' = [bout EXCEPT ![b] =
         [bout[b] EXCEPT !.run = "over", !.job = "pending", !.tries = 0, !.bad = FALSE]]
    BY <1>10, <1>a DEF R6!Schedule, R6!Sets, R6!Due
  <2>2. /\ \A d \in Bouts \ {b} : bout'[d] = bout[d]
        /\ bout'[b].run = "over"
        /\ bout'[b].job = "pending"
        /\ bout'[b].towel = bout[b].towel
        /\ bout'[b].lost = bout[b].lost
        /\ bout'[b].early = bout[b].early
    BY <2>1, <1>a DEF R6!Card
  <2>3. Turns(b)
    BY <1>10, <1>a, <1>b, <2>2 DEF Turns, R6!Schedule, R6!ring, CardFits, AtWork
  <2>4. Heeded /\ Heeded' => Minds(b)
    BY <1>10, <1>a, <1>b, <2>2 DEF Minds, Heeded, R6!Schedule, R6!ring, CardFits, AtWork, Looked
  <2> QED
    BY <2>3, <2>4, BoutMoves
<1>11. CASE R6!Towel(b)
  <2>1. bout' = [bout EXCEPT ![b] =
         [bout[b] EXCEPT !.run = "over", !.job = "pending", !.tries = 0, !.bad = FALSE,
           !.towel = "CLEANING"]]
    BY <1>11, <1>a DEF R6!Towel, R6!Sets, R6!Due
  <2>2. /\ \A d \in Bouts \ {b} : bout'[d] = bout[d]
        /\ bout'[b].run = "over"
        /\ bout'[b].job = "pending"
        /\ bout'[b].towel = "CLEANING"
        /\ bout'[b].lost = bout[b].lost
        /\ bout'[b].early = bout[b].early
    BY <2>1, <1>a DEF R6!Card
  <2>3. Turns(b)
    BY <1>11, <1>a, <1>b, <2>2 DEF Turns, R6!Towel, R6!ring, CardFits, AtWork
  <2>4. Heeded /\ Heeded' => Minds(b)
    BY <1>11, <1>a, <1>b, <2>2 DEF Minds, Heeded, R6!Towel, R6!ring, CardFits, AtWork, Looked
  <2> QED
    BY <2>3, <2>4, BoutMoves
<1>12. CASE R6!TowelRetry(b)
  <2>1. bout' = [bout EXCEPT ![b] =
         [bout[b] EXCEPT !.run = "over", !.job = "pending", !.tries = 0, !.bad = FALSE,
           !.towel = "CLEANING"]]
    BY <1>12, <1>a DEF R6!TowelRetry, R6!Sets, R6!Due
  <2>2. /\ \A d \in Bouts \ {b} : bout'[d] = bout[d]
        /\ bout'[b].run = "over"
        /\ bout'[b].job = "pending"
        /\ bout'[b].towel = "CLEANING"
        /\ bout'[b].lost = bout[b].lost
        /\ bout'[b].early = bout[b].early
    BY <2>1, <1>a DEF R6!Card
  <2>3. Turns(b)
    BY <1>12, <1>a, <1>b, <2>2 DEF Turns, R6!TowelRetry, R6!ring, CardFits, AtWork
  <2>4. Heeded /\ Heeded' => Minds(b)
    BY <1>12, <1>a, <1>b, <2>2
       DEF Minds, Heeded, R6!TowelRetry, R6!ring, CardFits, AtWork, Looked
  <2> QED
    BY <2>3, <2>4, BoutMoves
<1>13. CASE R6!Settles(b)
  <2>1. bout' = [bout EXCEPT ![b] =
         [bout[b] EXCEPT !.job = "settled", !.parked = {},
           !.towel = IF @ = "none" THEN @ ELSE "READY"]]
    BY <1>13, <1>a DEF R6!Settles, R6!Sets, R6!Due
  <2>2. /\ \A d \in Bouts \ {b} : bout'[d] = bout[d]
        /\ bout'[b].run = bout[b].run
        /\ bout'[b].job = "settled"
        /\ bout'[b].towel = (IF bout[b].towel = "none" THEN "none" ELSE "READY")
        /\ bout'[b].lost = bout[b].lost
        /\ bout'[b].early = bout[b].early
    BY <2>1, <1>a DEF R6!Card
  <2>3. Turns(b)
    BY <1>13, <1>a, <1>b, <2>2 DEF Turns, R6!Settles, R6!ring, CardFits, AtWork
  <2>4. Heeded /\ Heeded' => Minds(b)
    BY <1>13, <1>a, <1>b, <2>2 DEF Minds, Heeded, R6!Settles, R6!ring, CardFits, AtWork, Looked
  <2> QED
    BY <2>3, <2>4, BoutMoves
<1>14. CASE R6!Loses(b)
  <2>1. bout' = [bout EXCEPT ![b] =
         [bout[b] EXCEPT !.run = "over", !.job = "pending", !.tries = 0, !.bad = FALSE,
           !.lost = TRUE, !.parked = {}, !.early = @ \/ ~R6!PriorIsDone(b)]]
    BY <1>14, <1>a DEF R6!Loses, R6!Sets, R6!Due
  <2>2. /\ \A d \in Bouts \ {b} : bout'[d] = bout[d]
        /\ bout'[b].run = "over"
        /\ bout'[b].job = "pending"
        /\ bout'[b].towel = bout[b].towel
        /\ bout'[b].lost = TRUE
        /\ bout'[b].early = (bout[b].early \/ ~R6!PriorIsDone(b))
    BY <2>1, <1>a DEF R6!Card
  <2>3. Turns(b)
    BY <1>14, <1>a, <1>b, <2>2 DEF Turns, R6!Loses, R6!ring, CardFits, AtWork
  <2>4. Heeded /\ Heeded' => Minds(b)
    BY <1>14, <1>a, <1>b, <1>c, <1>d, <2>2 DEF Minds, Heeded, R6!Loses, CardFits, AtWork, Looked
  <2> QED
    BY <2>3, <2>4, BoutMoves
<1>15. CASE R6!LosesTowel(b)
  <2>1. bout' = [bout EXCEPT ![b] =
         [bout[b] EXCEPT !.towel = "FAILED", !.job = "none", !.lost = TRUE, !.parked = {}]]
    BY <1>15, <1>a DEF R6!LosesTowel, R6!Sets, R6!Due
  <2>2. /\ \A d \in Bouts \ {b} : bout'[d] = bout[d]
        /\ bout'[b].run = bout[b].run
        /\ bout'[b].job = "none"
        /\ bout'[b].towel = "FAILED"
        /\ bout'[b].lost = TRUE
        /\ bout'[b].early = bout[b].early
    BY <2>1, <1>a DEF R6!Card
  <2>3. Turns(b)
    BY <1>15, <1>a, <1>b, <2>2 DEF Turns, R6!LosesTowel, R6!ring, CardFits, AtWork
  <2>4. Heeded /\ Heeded' => Minds(b)
    BY <1>15, <1>a, <1>b, <2>2
       DEF Minds, Heeded, R6!LosesTowel, R6!ring, CardFits, AtWork, Looked
  <2> QED
    BY <2>3, <2>4, BoutMoves
<1>16. CASE R6!Claim(b)
  <2>1. bout' = [bout EXCEPT ![b] =
         [bout[b] EXCEPT !.run = "look"]]
    BY <1>16, <1>a DEF R6!Claim, R6!Sets, R6!Due
  <2>2. /\ \A d \in Bouts \ {b} : bout'[d] = bout[d]
        /\ bout'[b].run = "look"
        /\ bout'[b].job = bout[b].job
        /\ bout'[b].towel = bout[b].towel
        /\ bout'[b].lost = bout[b].lost
        /\ bout'[b].early = bout[b].early
    BY <2>1, <1>a DEF R6!Card
  <2>3. Turns(b)
    BY <1>16, <1>a, <1>b, <2>2
       DEF Turns, R6!Claim, R6!ring, CardFits, AtWork, R6!Unstopped, R6!Settling, R6!Bouts,
           Bouts
  <2>4. Heeded /\ Heeded' => Minds(b)
    BY <1>16, <1>a, <1>b, <2>2
       DEF Minds, Heeded, R6!Claim, R6!ring, CardFits, AtWork, Looked, R6!Unstopped,
           R6!Settling, R6!Bouts, Bouts
  <2> QED
    BY <2>3, <2>4, BoutMoves
<1> QED
  BY <1>1, <1>2, <1>3, <1>4, <1>5, <1>6, <1>7, <1>8, <1>9, <1>10, <1>11, <1>12, <1>13, <1>14,
     <1>15, <1>16

(* The other steps of a bout, of a call and of the pipeline.                *)
LEMMA OthersRest ==
  ASSUME RaceInv, RaceInv', SettleInv,
         \/ \E p \in Parts : R6!Pipeline(p)
         \/ \E c \in calls : R6!Served(c) \/ R6!Refused(c)
         \/ \E b \in Bouts :
              \/ R6!Drains(b) \/ R6!Deletes(b) \/ R6!DeletesSome(b) \/ R6!Retries(b)
              \/ R6!ParkFails(b) \/ R6!TowelGivesUp(b)
              \/ \E p \in Parts : R6!StopPart(b, p) \/ R6!SeenParked(b, p)
  PROVE  SettleInv'
<1>1. bout \in [Bouts -> R6!Card] /\ \A c \in calls : c.bout \in Bouts
  BY DEF RaceInv, R6!RaceTypeOK, R6!Call, R6!Bouts, Bouts
<1>2. CASE \E p \in Parts : R6!Pipeline(p)
  BY <1>2, BoutRests DEF R6!Pipeline, R6!ComesUp, R6!Stops, R6!ring
<1>3. ASSUME NEW c \in calls, R6!Served(c) \/ R6!Refused(c)
      PROVE  SettleInv'
  <2>1. bout' = bout \/ bout' = [bout EXCEPT ![c.bout].bad = TRUE]
    BY <1>3 DEF R6!Served, R6!Commits, R6!Starts, R6!NoSlot, R6!Refused
  <2>2. holder' = holder /\ begun' = begun /\ prior' = prior
    BY <1>3 DEF R6!Served, R6!Commits, R6!Starts, R6!NoSlot, R6!Refused, R6!ring
  <2>3. \A d \in Bouts :
          /\ bout'[d].run = bout[d].run /\ bout'[d].early = bout[d].early
          /\ bout'[d].lost = bout[d].lost /\ bout'[d].towel = bout[d].towel
          /\ bout'[d].job = bout[d].job
    BY <1>1, <2>1 DEF R6!Card
  <2> QED
    BY <2>2, <2>3, BoutRests DEF AtWork
<1>4. ASSUME NEW b \in Bouts,
             \/ R6!Drains(b) \/ R6!Deletes(b) \/ R6!DeletesSome(b)
             \/ R6!TowelGivesUp(b) \/ \E p \in Parts : R6!StopPart(b, p) \/ R6!SeenParked(b, p)
      PROVE  SettleInv'
  <2>1. holder' = holder /\ begun' = begun /\ prior' = prior
    BY <1>4 DEF R6!Drains, R6!Deletes, R6!DeletesSome, R6!TowelGivesUp, R6!StopPart,
                R6!SeenParked, R6!ring
  <2>2. \/ bout' = bout
        \/ bout' = [bout EXCEPT ![b].parked = bout'[b].parked]
        \/ /\ AtWork(bout[b])
           /\ \/ bout' = [bout EXCEPT ![b].job = "deleting", ![b].bad = FALSE]
              \/ bout' = [bout EXCEPT ![b].job = "parking"]
              \/ bout' = [bout EXCEPT ![b].job = "parking", ![b].bad = TRUE]
              \/ /\ bout[b].towel # "none"
                 /\ bout' = [bout EXCEPT ![b].towel = "FAILED", ![b].job = "none"]
    BY <1>1, <1>4 DEF R6!Drains, R6!Deletes, R6!DeletesSome, R6!TowelGivesUp, R6!StopPart,
                      R6!SeenParked, R6!Sets, AtWork, R6!Card
  <2>3. \A d \in Bouts :
          /\ bout'[d].run = bout[d].run /\ bout'[d].early = bout[d].early
          /\ bout'[d].lost = bout[d].lost
          /\ bout'[d].towel # "none" => bout[d].towel # "none"
          /\ AtWork(bout'[d]) => AtWork(bout[d])
    BY <1>1, <2>2 DEF R6!Card, AtWork
  <2> QED
    BY <2>1, <2>3, BoutRests
<1>5. ASSUME NEW b \in Bouts, R6!Retries(b) \/ R6!ParkFails(b)
      PROVE  SettleInv'
  <2>1. /\ holder' = holder /\ begun' = begun /\ prior' = prior
        /\ bout' = [bout EXCEPT ![b] = R6!Again(b)] /\ AtWork(bout[b])
    BY <1>5 DEF R6!Retries, R6!ParkFails, R6!ring, AtWork
  <2>2. LET w == R6!Again(b)
        IN  /\ w.run = bout[b].run /\ w.early = bout[b].early /\ w.lost = bout[b].lost
            /\ w.towel = bout[b].towel
    BY <1>1 DEF R6!Again, R6!Card
  <2>3. \A d \in Bouts :
          /\ bout'[d].run = bout[d].run /\ bout'[d].early = bout[d].early
          /\ bout'[d].lost = bout[d].lost
          /\ bout'[d].towel # "none" => bout[d].towel # "none"
          /\ AtWork(bout'[d]) => AtWork(bout[d])
    BY <1>1, <2>1, <2>2
  <2> QED
    BY <2>1, <2>3, BoutRests
<1> QED
  BY <1>2, <1>3, <1>4, <1>5

(* A crash leaves no settlement at work and no card alive.                  *)
LEMMA CrashSettles ==
  ASSUME RaceInv, SettleInv, R6!Crash
  PROVE  SettleInv'
<1>1. holder' = 0
  BY DEF R6!Crash
<1>2. ASSUME NEW b \in Bouts
      PROVE  /\ bout'[b].run \in {"none", "over", "dead"}
             /\ bout'[b].run = "none" => ~bout'[b].early /\ ~bout'[b].lost
             /\ bout'[b].lost => bout'[b].run = "over"
             /\ ~AtWork(bout'[b]) /\ b # 0
  <2>1. CardFits(b, bout[b], begun) /\ b # 0
    BY DEF RaceInv, Bouts
  <2>2. CASE bout[b].run = "none" \/ bout[b].job = "settled"
    <3>1. bout'[b] = bout[b]
      BY <2>2 DEF R6!Crash, R6!Bouts, Bouts
    <3> QED
      BY <2>1, <2>2, <3>1 DEF SettleInv, CardFits, AtWork
  <2>3. CASE ~(bout[b].run = "none" \/ bout[b].job = "settled")
    <3>1. bout'[b] = [R6!Fresh EXCEPT !.run = "dead", !.rang = bout[b].rang]
      BY <2>3 DEF R6!Crash, R6!Bouts, Bouts
    <3> QED
      BY <2>1, <3>1 DEF R6!Fresh, AtWork
  <2> QED
    BY <2>2, <2>3
<1> QED
  BY <1>1, <1>2 DEF SettleInv, Looked

LEMMA SettleInvariance == RoundsSpec => []SettleInv
<1>1. RoundsInit => SettleInv
  BY DEF RoundsInit, R6!Init, SettleInv, R6!Fresh, R6!Bouts, Bouts, AtWork, Looked
<1>2. ASSUME RaceInv, RaceInv', SettleInv, [RoundsNext]_<<vars, R6!raceVars>>
      PROVE  SettleInv'
  <2>1. CASE UNCHANGED R6!raceVars
    BY <1>2, <2>1 DEF R6!raceVars, SettleInv, Heeded, Looked
  <2>2. CASE R6!Next
    <3>1. CASE \/ \E p \in Parts : R6!Pipeline(p)
               \/ \E c \in calls : R6!Served(c) \/ R6!Refused(c)
      BY <1>2, <3>1, OthersRest
    <3>2. ASSUME NEW b \in Bouts, R6!CardStep(b) \/ R6!Mishap(b) \/ R6!Operator(b)
          PROVE  SettleInv'
      BY <1>2, <3>2, OthersRest, SettleMoves DEF R6!CardStep, R6!Mishap, R6!Operator
    <3>3. CASE R6!Crash
      BY <1>2, <3>3, CrashSettles
    <3> QED
      BY <2>2, <3>1, <3>2, <3>3 DEF R6!Next, R6!Bouts, Bouts
  <2> QED
    BY <1>2, <2>1, <2>2 DEF RoundsNext, R6!raceVars
<1> QED
  BY <1>1, <1>2, RaceInvariance, PTL DEF RoundsSpec

(* Nobody parks the pipeline under a race, as long as no bout so far looked *)
(* before an earlier one had scheduled its settlement, or lost the ring     *)
(* with an earlier settlement at work: for any number of bouts, although a  *)
(* process remembers one settlement only (_await_prior_round6_settlement).  *)
THEOREM RacesAreNotParked == RoundsSpec => NoRaceIsParked
<1>1. ASSUME RaceInv, SettleInv, [RoundsNext]_<<vars, R6!raceVars>>, ~UNCHANGED R6!raceVars,
             NEW b \in Bouts, bout[b].run = "race", \A c \in 1..b : ~bout[c].early,
             NEW p \in Parts, part'[p] = "stopping"
      PROVE  part[p] = "stopping"
  <2>1. holder = b /\ begun = b /\ b # 0
    BY <1>1 DEF SettleInv, Bouts
  <2>2. Heeded
    <3>1. ASSUME NEW c \in Bouts PROVE ~bout[c].early
      <4>1. c > b => bout[c].run = "none"
        BY <1>1, <2>1 DEF RaceInv, CardFits
      <4>2. c \in 1..b \/ c > b
        BY DEF Bouts
      <4> QED
        BY <1>1, <4>1, <4>2 DEF SettleInv
    <3> QED
      BY <3>1 DEF Heeded
  <2>3. ASSUME NEW d \in Bouts PROVE ~R6!Parking(d)
    <3>1. bout[d].run = "park" => d = b
      BY <1>1, <2>1 DEF SettleInv
    <3>2. bout[b].job = "none"
      BY <1>1 DEF RaceInv, CardFits
    <3>3. d # b => ~AtWork(bout[d])
      BY <1>1, <2>1, <2>2 DEF SettleInv, Looked
    <3> QED
      BY <1>1, <3>1, <3>2, <3>3 DEF R6!Parking, AtWork
  <2>4. part \in [Parts -> {"parked", "starting", "running", "stopping"}]
    BY <1>1 DEF RaceInv, R6!RaceTypeOK
  <2>5. CASE \E q \in Parts : R6!Pipeline(q)
    BY <1>1, <2>4, <2>5 DEF R6!Pipeline, R6!ComesUp, R6!Stops
  <2>6. CASE \E c \in calls : R6!Served(c) \/ R6!Refused(c)
    BY <1>1, <2>4, <2>6 DEF R6!Served, R6!Commits, R6!Starts, R6!NoSlot, R6!Refused
  <2>7. CASE \E d \in Bouts : R6!CardStep(d) \/ R6!Mishap(d) \/ R6!Operator(d)
    BY <1>1, <2>3, <2>7, ZenonT(60)
       DEF R6!CardStep, R6!Mishap, R6!Operator, R6!Look, R6!AtRest, R6!Purge, R6!RaceEnds,
           R6!Schedule, R6!Drains, R6!Deletes, R6!Settles, R6!Retries, R6!StopPart,
           R6!SeenParked, R6!PrepareFails, R6!BellFails, R6!RaceFails, R6!DeletesSome,
           R6!ParkFails, R6!TowelGivesUp, R6!Loses, R6!LosesTowel, R6!Claim, R6!Abandon,
           R6!Bell, R6!Towel, R6!TowelRetry
  <2>8. CASE R6!Crash
    BY <1>1, <2>4, <2>8 DEF R6!Crash
  <2> QED
    BY <1>1, <2>1, <2>5, <2>6, <2>7, <2>8
       DEF RoundsNext, R6!Next, R6!raceVars, R6!Bouts, Bouts
<1>2. RaceInv /\ SettleInv /\ [RoundsNext]_<<vars, R6!raceVars>> =>
        [\A b \in R6!Bouts : bout[b].run = "race" /\ (\A c \in 1..b : ~bout[c].early) =>
           \A p \in Parts : part'[p] = "stopping" => part[p] = "stopping"]_R6!raceVars
  BY <1>1 DEF R6!Bouts, Bouts
<1> QED
  BY <1>2, RaceInvariance, SettleInvariance, PTL
     DEF RoundsSpec, NoRaceIsParked, R6!NoRaceIsParked

-----------------------------------------------------------------------------
(* Round 2.  A bout that holds the ring, as far as its card knows.          *)
Holds(b) == card[b].phase \notin {"none", "gone"}

Before == {"DRAFT", "CHECKING", "ARMED", "RUNNING"}

(* The row is the bout's that holds it, the last to claim it; work without  *)
(* it is marked as lost, and stands in every claim's way.                   *)
Fenced(b) ==
  /\ Holds(b) => ring = b /\ bouts = b
  /\ RingWork(b) => bouts = b /\ (Holds(b) \/ card[b].lost)
  /\ b > bouts => card[b].state = "DRAFT" /\ card[b].phase = "none"

(* What a card does fits what it shows.                                     *)
Shown(b) ==
  /\ card[b].run = "arm" =>
       card[b].state = "CHECKING" /\ card[b].phase = "checking" /\ card[b].clean = "none"
  /\ card[b].run = "run" =>
       \/ card[b].state = "RUNNING"
       \/ card[b].state = "TOWELLED" /\ card[b].clean = "towel"
  /\ card[b].run = "stopping" => card[b].clean = "towel" \/ ~Holds(b)
  /\ card[b].state \in Before => card[b].towel = "none" /\ card[b].cooldown = "none"
                                 /\ card[b].clean = "none"
  /\ card[b].state = "ARMED" => card[b].phase = "armed" /\ card[b].run = "none"
  /\ card[b].state = "RUNNING" => card[b].phase = "run_committed" /\ card[b].run = "run"
  /\ card[b].clean = "towel" => card[b].phase = "towel_cleanup"
  /\ card[b].clean = "auto" => card[b].phase = "cooldown" /\ card[b].run = "none"

AtArm == {"inspect", "clearing", "clean", "failed"}
AtRun == {"recheck", "set", "create", "again", "await", "awaitWriter",
          "verified", "timedOut", "failed", "cancelled"}
AtClean == {"settle", "clearing", "gone", "stuck"}

(* The lanes of a bout are at one thing together, the one its card is at.   *)
Grouped(b) ==
  /\ ~Holds(b) => LanesIn(b, {"idle"})
  /\ card[b].run = "arm" => LanesIn(b, AtArm)
  /\ card[b].run = "run" => LanesIn(b, AtRun)
  /\ card[b].run = "stopping" =>
       LanesIn(b, IF card[b].clean = "none" THEN {"idle"} ELSE {"cancelled"})
  /\ card[b].run = "none" =>
       IF card[b].clean = "none"
       THEN \E ats \in {{"idle"}, {"clean"}, {"gone", "stuck"}} : LanesIn(b, ats)
       ELSE \E ats \in {{"idle"}, Ended, AtClean} : LanesIn(b, ats)

(* A call of the bout that can make something is on its way.                *)
Coming(b) == \E f \in flight : f.bout = b /\ f.call \in {"create", "writer"}

(* Nothing is inspected for removal before every such call has landed; a    *)
(* lane that is gone, and a bout that is cleaned up, has nothing more.      *)
Emptied(b) ==
  /\ (\E l \in Lanes : lane[b][l] = "gone" \/ (lane[b][l] = "clearing" /\ card[b].clean # "none"))
       => ~Coming(b)
  /\ \A l \in Lanes : lane[b][l] = "gone" => env[l].maker # b
  /\ card[b].cooldown = "READY" \/ (card[b].clean # "none" /\ LanesIn(b, {"idle"})) =>
       LanesIn(b, {"idle"}) /\ ~Coming(b) /\ \A l \in Lanes : env[l].maker # b

IsolatedInv ==
  /\ BoutTypeOK
  /\ token = bouts
  /\ \A l \in Lanes : env[l].life = "absent" => env[l].maker = 0
  /\ \A b \in Bouts : Fenced(b) /\ Shown(b) /\ Grouped(b) /\ Emptied(b)

(* What the invariant says of one bout.                                     *)
LEMMA OfBout ==
  ASSUME IsolatedInv, NEW b \in Bouts
  PROVE  /\ card[b] \in Card /\ lane[b] \in [Lanes -> At]
         /\ Fenced(b) /\ Shown(b) /\ Grouped(b) /\ Emptied(b)
         /\ card \in [Bouts -> Card] /\ lane \in [Bouts -> [Lanes -> At]]
         /\ env \in [Lanes -> Environment] /\ flight \subseteq Calls
         /\ ring \in 0..MaxBout /\ bouts \in 0..MaxBout /\ token = bouts
         /\ faults \in 0..MaxFaults /\ b \in 0..MaxBout /\ 0 \in 0..MaxBout
  BY BoundsAssumption DEF IsolatedInv, BoutTypeOK, Bouts

(* A bout whose card and lanes a step leaves alone keeps what is said of    *)
(* it, if the step takes neither its ring nor its place as the last one,    *)
(* and makes nothing for it.                                                *)
LEMMA Bystander ==
  ASSUME IsolatedInv, NEW d \in Bouts, card'[d] = card[d], lane'[d] = lane[d],
         Holds(d) => ring' = ring /\ bouts' = bouts,
         RingWork(d) => bouts' = bouts,
         bouts <= bouts', bouts' \in Nat,
         Coming(d)' => Coming(d),
         \A l \in Lanes : env'[l].maker = d => env[l].maker = d
  PROVE  Fenced(d)' /\ Shown(d)' /\ Grouped(d)' /\ Emptied(d)'
<1>1. Fenced(d) /\ Shown(d) /\ Grouped(d) /\ Emptied(d) /\ bouts \in Nat
  BY BoundsAssumption DEF IsolatedInv, BoutTypeOK
<1>2. Fenced(d)'
  <2>1. d > bouts' => d > bouts
    BY <1>1 DEF Bouts
  <2> QED
    BY <1>1, <2>1 DEF Fenced, Holds, RingWork
<1>3. Shown(d)'
  BY <1>1 DEF Shown, Holds
<1>4. Grouped(d)'
  BY <1>1 DEF Grouped, Holds, LanesIn
<1>5. Emptied(d)'
  BY <1>1 DEF Emptied, LanesIn
<1> QED
  BY <1>2, <1>3, <1>4, <1>5

(* A step of one bout: what it has to keep is about that bout alone.        *)
LEMMA OneBout ==
  ASSUME IsolatedInv, NEW b \in Bouts,
         NEW w \in Card, card' = [card EXCEPT ![b] = w],
         NEW v \in [Lanes -> At], lane' = [lane EXCEPT ![b] = v],
         ring' \in 0..MaxBout, bouts' \in 0..MaxBout, token' = bouts',
         env' \in [Lanes -> Environment], flight' \subseteq Calls, faults' \in 0..MaxFaults,
         ring' = ring \/ ring \in {0, b},
         bouts' = bouts \/ (bouts' = bouts + 1 /\ ring = 0 /\ ~Unstopped),
         \A f \in flight' : f \in flight \/ f.bout = b,
         \A l \in Lanes : env'[l].maker \in {0, b, env[l].maker},
         \A l \in Lanes : env'[l].life = "absent" => env'[l].maker = 0,
         Fenced(b)', Shown(b)', Grouped(b)', Emptied(b)'
  PROVE  IsolatedInv'
<1>1. card \in [Bouts -> Card] /\ lane \in [Bouts -> [Lanes -> At]] /\ bouts \in Nat
  BY OfBout DEF Bouts
<1>2. BoutTypeOK'
  <2>1. card' \in [Bouts -> Card] /\ lane' \in [Bouts -> [Lanes -> At]]
    BY <1>1
  <2> QED
    BY <2>1 DEF BoutTypeOK
<1>3. ASSUME NEW d \in Bouts, d # b
      PROVE  Fenced(d)' /\ Shown(d)' /\ Grouped(d)' /\ Emptied(d)'
  <2>1. card'[d] = card[d] /\ lane'[d] = lane[d]
    BY <1>1, <1>3
  <2>2. Fenced(d) /\ d # 0
    BY <1>3, OfBout DEF Bouts
  <2>3. Holds(d) => ring = d /\ ring # 0
    BY <2>2 DEF Fenced
  <2>4. Holds(d) => ring' = ring /\ bouts' = bouts
    BY <1>3, <2>3
  <2>5. RingWork(d) => bouts' = bouts
    BY <1>3, <2>2, <2>3 DEF Unstopped, Fenced
  <2>6. bouts <= bouts' /\ bouts' \in Nat
    BY <1>1
  <2>7. Coming(d)' => Coming(d)
    BY <1>3 DEF Coming
  <2>8. \A l \in Lanes : env'[l].maker = d => env[l].maker = d
    BY <1>3, <2>2
  <2> QED
    BY <2>1, <2>4, <2>5, <2>6, <2>7, <2>8, Bystander
<1> QED
  BY <1>2, <1>3 DEF IsolatedInv

-----------------------------------------------------------------------------
(* One lane of a bout moves, as it does while the card arms, while the run  *)
(* is on, and while the bout is cleaned up.                                 *)
LEMMA LaneMoves ==
  ASSUME IsolatedInv, NEW b \in Bouts, NEW l \in Lanes, NEW at \in At,
         lane' = [lane EXCEPT ![b][l] = at], UNCHANGED <<card, ring, token, bouts>>,
         env' \in [Lanes -> Environment], flight' \subseteq Calls, faults' \in 0..MaxFaults,
         \A f \in flight' : f \in flight \/ f.bout = b,
         \A m \in Lanes : env'[m].maker \in {0, b, env[m].maker},
         \A m \in Lanes : env'[m].life = "absent" => env'[m].maker = 0,
         \/ /\ lane[b][l] \in {"inspect", "clearing"} /\ at \in AtArm /\ card[b].clean = "none"
         \/ /\ lane[b][l] \in {"recheck", "create", "again", "await", "awaitWriter"}
            /\ at \in AtRun
         \/ /\ lane[b][l] = "clearing" /\ at \in {"clearing", "gone", "stuck"}
            /\ card[b].clean # "none" /\ flight' = flight
            /\ \A m \in Lanes : env'[m].maker \in {0, env[m].maker}
            /\ at = "gone" => env'[l].maker # b
  PROVE  IsolatedInv'
<1> DEFINE v == [lane[b] EXCEPT ![l] = at]
<1>1. /\ card \in [Bouts -> Card] /\ card[b] \in Card /\ lane \in [Bouts -> [Lanes -> At]]
      /\ lane[b] \in [Lanes -> At] /\ card' = card /\ ring' = ring /\ bouts' = bouts
      /\ Fenced(b) /\ Shown(b) /\ Grouped(b) /\ Emptied(b)
  BY OfBout
<1>2. /\ card' = [card EXCEPT ![b] = card[b]] /\ lane' = [lane EXCEPT ![b] = v]
      /\ v \in [Lanes -> At] /\ lane'[b] = v
  BY <1>1
<1>3. v[l] = at /\ \A m \in Lanes : m # l => v[m] = lane[b][m]
  BY <1>1
<1> HIDE DEF v
<1>4. lane[b][l] # "idle" /\ Holds(b) /\ at # "idle"
  BY <1>1 DEF Grouped, LanesIn, AtArm, AtRun
<1>5. Fenced(b)' /\ Shown(b)'
  BY <1>1 DEF Fenced, Shown, Holds, RingWork
<1>6. Grouped(b)' /\ Emptied(b)'
  <2>1. CASE lane[b][l] \in {"inspect", "clearing"} /\ at \in AtArm /\ card[b].clean = "none"
    <3>1. card[b].run = "arm" /\ LanesIn(b, AtArm)
      BY <1>1, <2>1 DEF Grouped, LanesIn, AtRun, Card
    <3>2. \A m \in Lanes : v[m] \in AtArm
      BY <1>3, <2>1, <3>1 DEF LanesIn
    <3> QED
      BY <1>1, <1>2, <1>3, <1>4, <2>1, <3>1, <3>2 DEF Grouped, Emptied, LanesIn, AtArm, Holds
  <2>2. CASE lane[b][l] \in {"recheck", "create", "again", "await", "awaitWriter"} /\ at \in AtRun
    <3>1. card[b].run = "run" /\ LanesIn(b, AtRun)
      BY <1>1, <2>2 DEF Grouped, LanesIn, AtArm, AtClean, Ended, Card
    <3>2. \A m \in Lanes : v[m] \in AtRun
      BY <1>3, <2>2, <3>1 DEF LanesIn
    <3> QED
      BY <1>1, <1>2, <1>3, <1>4, <2>2, <3>1, <3>2 DEF Grouped, Emptied, LanesIn, AtRun, Holds
  <2>3. CASE /\ lane[b][l] = "clearing" /\ at \in {"clearing", "gone", "stuck"}
             /\ card[b].clean # "none" /\ flight' = flight
             /\ \A m \in Lanes : env'[m].maker \in {0, env[m].maker}
             /\ at = "gone" => env'[l].maker # b
    <3>0. card[b].run = "none"
      <4>1. card[b].run # "arm"
        BY <1>1, <2>3 DEF Shown
      <4>2. card[b].run # "run"
        BY <1>1, <2>3 DEF Grouped, LanesIn, AtRun
      <4>3. card[b].run # "stopping"
        BY <1>1, <2>3 DEF Grouped, LanesIn
      <4> QED
        BY <1>1, <4>1, <4>2, <4>3 DEF Card
    <3>1. LanesIn(b, AtClean)
      <4>1. PICK ats \in {{"idle"}, Ended, AtClean} : LanesIn(b, ats)
        BY <1>1, <2>3, <3>0 DEF Grouped
      <4>2. lane[b][l] \in ats
        BY <4>1 DEF LanesIn
      <4>3. ats # {"idle"} /\ ats # Ended
        BY <2>3, <4>2 DEF Ended
      <4> QED
        BY <4>1, <4>3
    <3>2. \A m \in Lanes : v[m] \in AtClean
      BY <1>3, <2>3, <3>1 DEF LanesIn, AtClean
    <3>3. Grouped(b)'
      BY <1>1, <1>2, <1>4, <2>3, <3>0, <3>2 DEF Grouped, LanesIn, Holds
    <3>4. ~Coming(b) /\ ~Coming(b)'
      BY <1>1, <2>3 DEF Emptied, Coming
    <3>5. b # 0
      BY DEF Bouts
    <3>6. \A m \in Lanes : v[m] = "gone" => env'[m].maker # b
      BY <1>1, <1>3, <2>3, <3>5 DEF Emptied
    <3>7. ~LanesIn(b, {"idle"})' /\ card[b].cooldown # "READY"
      BY <1>1, <1>2, <1>3, <1>4 DEF Emptied, LanesIn
    <3> QED
      BY <1>1, <1>2, <3>3, <3>4, <3>6, <3>7 DEF Emptied
  <2> QED
    BY <2>1, <2>2, <2>3
<1> QED
  BY <1>1, <1>2, <1>5, <1>6, OneBout, OfBout

(* What the provider is asked keeps an environment one, and its maker, but  *)
(* for a create of an absent one.                                           *)
LEMMA Asking ==
  ASSUME IsolatedInv, NEW b \in Bouts, NEW l \in Lanes
  PROVE  /\ env[l] \in Environment
         /\ Asked(l, b) \in Environment /\ Asked(l, b).maker \in {b, env[l].maker}
         /\ Asked(l, b).life # "absent"
         /\ WriterAsked(l) \in Environment /\ WriterAsked(l).maker = env[l].maker
         /\ WriterAsked(l).life = env[l].life
         /\ Dropped(l) \in Environment /\ Dropped(l).maker = env[l].maker
         /\ Dropped(l).life # "absent" \/ Dropped(l) = env[l]
         /\ WriterDropped(l) \in Environment /\ WriterDropped(l).maker = env[l].maker
         /\ WriterDropped(l).life = env[l].life
<1>1. env[l] \in Environment /\ b \in 0..MaxBout
  BY OfBout
<1>2. /\ Asked(l, b) \in Environment /\ Asked(l, b).maker \in {b, env[l].maker}
      /\ Asked(l, b).life # "absent"
  BY <1>1 DEF Asked, Nothing, Environment, Life
<1>3. /\ WriterAsked(l) \in Environment /\ WriterAsked(l).maker = env[l].maker
      /\ WriterAsked(l).life = env[l].life
  BY <1>1 DEF WriterAsked, Environment, Life
<1>4. /\ Dropped(l) \in Environment /\ Dropped(l).maker = env[l].maker
      /\ Dropped(l).life # "absent" \/ Dropped(l) = env[l]
  BY <1>1 DEF Dropped, Environment, Life
<1>5. /\ WriterDropped(l) \in Environment /\ WriterDropped(l).maker = env[l].maker
      /\ WriterDropped(l).life = env[l].life
  BY <1>1 DEF WriterDropped, Environment, Life
<1> QED
  BY <1>1, <1>2, <1>3, <1>4, <1>5

(* What a lane may leave on its thread is a call of its bout.               *)
LEMMA UnderwayOf ==
  ASSUME NEW b \in Bouts, NEW l \in Lanes
  PROVE  \A f \in Underway(b, l) : f \in Calls /\ f.bout = b
<1> SUFFICES ASSUME NEW f \in Underway(b, l)
             PROVE  f \in Calls /\ f.bout = b
  OBVIOUS
<1>1. PICK c \in {"create", "writer", "dropWriter", "drop"} :
        f = [bout |-> b, lane |-> l, call |-> c]
  BY DEF Underway
<1> QED
  BY <1>1 DEF Calls

(* An environment moves as the provider is asked.                           *)
LEMMA EnvMoves ==
  ASSUME IsolatedInv, NEW b \in Bouts, NEW l \in Lanes,
         NEW e \in {env[l], Nothing, Asked(l, b), WriterAsked(l), Dropped(l), WriterDropped(l)},
         env' = [env EXCEPT ![l] = e]
  PROVE  /\ env' \in [Lanes -> Environment]
         /\ \A m \in Lanes : env'[m].maker \in {0, b, env[m].maker}
         /\ e # Asked(l, b) => \A m \in Lanes : env'[m].maker \in {0, env[m].maker}
         /\ \A m \in Lanes : env'[m].life = "absent" => env'[m].maker = 0
<1>1. /\ env \in [Lanes -> Environment] /\ 0 \in 0..MaxBout
      /\ \A m \in Lanes : env[m].life = "absent" => env[m].maker = 0
  BY OfBout DEF IsolatedInv
<1>2. Nothing \in Environment /\ Nothing.maker = 0
  BY <1>1 DEF Nothing, Environment, Life
<1>3. e \in Environment /\ e.maker \in {0, b, env[l].maker}
  BY <1>1, <1>2, Asking
<1>4. e # Asked(l, b) => e.maker \in {0, env[l].maker}
  BY <1>2, Asking
<1>5. e.life = "absent" => e.maker = 0
  BY <1>1, <1>2, Asking
<1>6. env'[l] = e /\ \A m \in Lanes : m # l => env'[m] = env[m]
  BY <1>1
<1> QED
  BY <1>1, <1>3, <1>4, <1>5, <1>6

-----------------------------------------------------------------------------
(* The steps of one lane.                                                   *)
LEMMA LaneStepKeeps ==
  ASSUME IsolatedInv, NEW b \in Bouts, NEW l \in Lanes,
         \/ LaneStep(b, l) \/ ClearingSlips(b, l) \/ CreateUnserved(b, l) \/ LaneStops(b, l)
  PROVE  IsolatedInv'
<1>1. /\ env \in [Lanes -> Environment] /\ flight \subseteq Calls /\ faults \in 0..MaxFaults
      /\ lane \in [Bouts -> [Lanes -> At]] /\ MaxFaults \in Nat
      /\ \A m \in Lanes : env[m].life = "absent" => env[m].maker = 0
  BY OfBout, BoundsAssumption DEF IsolatedInv
<1>2. lane[b][l] = "inspect" => card[b].clean = "none"
  <2>1. lane[b][l] = "inspect" => card[b].run # "run" /\ card[b].run # "stopping"
    BY OfBout DEF Grouped, LanesIn, AtRun
  <2>2. lane[b][l] = "inspect" => card[b].run # "none"
    BY OfBout DEF Grouped, LanesIn, Ended, AtClean
  <2> QED
    BY <2>1, <2>2, OfBout DEF Shown, Card
<1>3. Slip => faults' \in 0..MaxFaults
  BY <1>1 DEF Slip
<1>4. ASSUME env' = env
      PROVE  /\ env' \in [Lanes -> Environment]
             /\ \A m \in Lanes : env'[m].maker \in {0, b, env[m].maker}
             /\ \A m \in Lanes : env'[m].maker \in {0, env[m].maker}
             /\ \A m \in Lanes : env'[m].life = "absent" => env'[m].maker = 0
  BY <1>1, <1>4
<1>5. b # 0
  BY DEF Bouts
<1>6. ASSUME NEW at \in At, To(b, l, at), UNCHANGED <<card, ring, token, bouts, flight>>,
             faults' \in 0..MaxFaults, env' = env,
             \/ lane[b][l] \in {"inspect", "clearing"} /\ at \in AtArm /\ card[b].clean = "none"
             \/ /\ lane[b][l] \in {"recheck", "create", "again", "await", "awaitWriter"}
                /\ at \in AtRun
             \/ /\ lane[b][l] = "clearing" /\ at \in {"gone", "stuck"} /\ card[b].clean # "none"
                /\ at = "gone" => env[l].life = "absent"
      PROVE  IsolatedInv'
  <2>1. at = "gone" => env'[l].maker # b
    BY <1>1, <1>5, <1>6 DEF AtArm, AtRun
  <2> QED
    BY <1>1, <1>4, <1>6, <2>1, LaneMoves DEF To
<1>7. ASSUME NEW at \in At, To(b, l, at), UNCHANGED <<card, ring, token, bouts, flight>>,
             faults' \in 0..MaxFaults,
             NEW e \in {Asked(l, b), WriterAsked(l)}, env' = [env EXCEPT ![l] = e],
             lane[b][l] \in {"recheck", "create", "again", "await", "awaitWriter"},
             at \in AtRun
      PROVE  IsolatedInv'
  BY <1>1, <1>7, EnvMoves, LaneMoves DEF To
<1>8. CASE Inspect(b, l)
  BY <1>1, <1>2, <1>6, <1>8 DEF Inspect, rest, At, AtArm
<1>9. CASE Delete(b, l)
  <2>1. lane' = [lane EXCEPT ![b][l] = "clearing"]
    BY <1>1, <1>9 DEF Delete
  <2>2. PICK e \in {Dropped(l), WriterDropped(l)} : env' = [env EXCEPT ![l] = e]
    BY <1>9 DEF Delete
  <2>3. /\ env' \in [Lanes -> Environment]
        /\ \A m \in Lanes : env'[m].maker \in {0, b, env[m].maker}
        /\ \A m \in Lanes : env'[m].life = "absent" => env'[m].maker = 0
    BY <2>2, EnvMoves
  <2>4. \A m \in Lanes : env'[m].maker \in {0, env[m].maker}
    <3>1. e \in Environment /\ e.maker = env[l].maker
      BY <2>2, Asking
    <3> QED
      BY <1>1, <2>2, <3>1
  <2> QED
    BY <1>1, <1>9, <2>1, <2>3, <2>4, LaneMoves DEF Delete, rest, At, AtArm
<1>10. CASE Cleared(b, l)
  BY <1>1, <1>6, <1>10 DEF Cleared, rest, At, AtArm
<1>11. CASE Recheck(b, l)
  <2>1. PICK at \in {"set", "failed"} : To(b, l, at)
    BY <1>11 DEF Recheck
  <2> QED
    BY <1>1, <1>3, <1>6, <1>11, <2>1 DEF Recheck, rest, At, AtRun
<1>12. CASE Create(b, l)
  BY <1>1, <1>7, <1>12 DEF Create, rest, At, AtRun
<1>13. CASE CreateAgain(b, l)
  BY <1>1, <1>7, <1>13 DEF CreateAgain, rest, At, AtRun
<1>14. CASE Serves(b, l)
  BY <1>1, <1>7, <1>14 DEF Serves, rest, At, AtRun
<1>15. CASE Proves(b, l)
  BY <1>1, <1>6, <1>15 DEF Proves, rest, At, AtRun
<1>16. CASE Vanished(b, l)
  BY <1>1, <1>6, <1>16 DEF Vanished, rest, At, AtRun
<1>17. CASE ClearingSlips(b, l)
  BY <1>1, <1>2, <1>3, <1>6, <1>17 DEF ClearingSlips, rest, At, AtArm
<1>18. CASE CreateUnserved(b, l)
  BY <1>1, <1>3, <1>6, <1>7, <1>18 DEF CreateUnserved, rest, At, AtRun
<1>19. CASE LaneStops(b, l)
  <2>1. PICK left \in SUBSET Underway(b, l) : flight' = flight \cup left
    BY <1>19 DEF LaneStops
  <2>2. \A f \in left : f \in Calls /\ f.bout = b
    BY UnderwayOf, <2>1
  <2>3. PICK end \in {"timedOut", "failed"} : To(b, l, end)
    BY <1>19 DEF LaneStops
  <2>4. end \in At /\ end \in AtRun
    BY <2>3 DEF At, AtRun
  <2>5. flight' \subseteq Calls /\ \A f \in flight' : f \in flight \/ f.bout = b
    BY <1>1, <2>1, <2>2
  <2> QED
    BY <1>1, <1>3, <1>4, <1>19, <2>3, <2>4, <2>5, LaneMoves DEF LaneStops, Started, To, rest
<1> QED
  BY <1>8, <1>9, <1>10, <1>11, <1>12, <1>13, <1>14, <1>15, <1>16, <1>17, <1>18, <1>19 DEF LaneStep

-----------------------------------------------------------------------------
(* The steps of a card, but for the ends and the losses of its run.         *)
LEMMA BoutKeeps ==
  ASSUME IsolatedInv, NEW b \in Bouts,
         \/ Claim(b)
         \/ Armed(b)
         \/ ArmFails(b)
         \/ ArmedGivesUp(b)
         \/ Bell(b)
         \/ Barrier(b)
         \/ GoneIsFound(b)
         \/ EndsTowelled(b)
         \/ RunStopped(b)
         \/ Towel(b)
         \/ TowelSettles(b)
         \/ TowelGivesUp(b)
         \/ TowelRetry(b)
         \/ Settle(b)
         \/ SettleSlips(b)
         \/ Gone(b)
         \/ Release(b)
         \/ ReleaseSlips(b)
         \/ Retries(b)
         \/ StartCooldown(b)
         \/ RowEnds(b)
  PROVE  IsolatedInv'
<1>a. /\ card[b] \in Card /\ lane[b] \in [Lanes -> At]
      /\ Fenced(b) /\ Shown(b) /\ Grouped(b) /\ Emptied(b)
      /\ card \in [Bouts -> Card] /\ lane \in [Bouts -> [Lanes -> At]]
      /\ env \in [Lanes -> Environment] /\ flight \subseteq Calls
      /\ ring \in 0..MaxBout /\ bouts \in 0..MaxBout /\ token = bouts
      /\ faults \in 0..MaxFaults /\ b \in 0..MaxBout /\ 0 \in 0..MaxBout
      /\ \A m \in Lanes : env[m].life = "absent" => env[m].maker = 0
      /\ \A m \in Lanes : env[m].maker \in {0, b, env[m].maker}
      /\ \A f \in flight : f \in flight \/ f.bout = b
  BY OfBout DEF IsolatedInv
<1>l. Lanes # {}
  BY LanesAssumption
<1>1. CASE Claim(b)
  <2>0. card[b].run = "none" /\ card[b].clean = "none" /\ card[b].cooldown = "none"
    BY <1>1, <1>a DEF Claim, Fenced, Shown, RingWork, Before, Bouts
  <2> DEFINE w == [card[b] EXCEPT !.state = "CHECKING", !.phase = "checking", !.run = "arm"]
             v == [l \in Lanes |-> "inspect"]
  <2>1. card' = [card EXCEPT ![b] = w] /\ lane' = [lane EXCEPT ![b] = v]
    BY <1>1, <1>a DEF Claim, All
  <2>2. w \in Card /\ v \in [Lanes -> At]
    BY <1>a, ZenonT(60) DEF Card, At
  <2>3. card'[b] = w /\ lane'[b] = v
    BY <1>a, <2>1
  <2>4. Fenced(b)' /\ Shown(b)'
    BY <1>1, <1>a, <2>0, <2>3 DEF Claim, Fenced, Shown, Holds, RingWork, Before
  <2>5. Grouped(b)'
    BY <1>1, <1>a, <1>l, <2>0, <2>3
       DEF Claim, Grouped, Holds, LanesIn, AtArm, AtRun, AtClean, Ended
  <2>6. Emptied(b)'
    BY <1>1, <1>a, <1>l, <2>0, <2>3 DEF Claim, Emptied, LanesIn
  <2>7. /\ ring' \in 0..MaxBout /\ bouts' \in 0..MaxBout /\ token' = bouts'
        /\ faults' \in 0..MaxFaults
        /\ ring' = ring \/ ring \in {0, b}
        /\ bouts' = bouts \/ (bouts' = bouts + 1 /\ ring = 0 /\ ~Unstopped)
        /\ env' = env /\ flight' = flight
    BY <1>1, <1>a, <2>0, BoundsAssumption DEF Claim, Fenced, Shown, Holds, rest, Bouts, Slip
  <2> HIDE DEF w, v
  <2> QED
    BY <1>a, <2>1, <2>2, <2>4, <2>5, <2>6, <2>7, OneBout
<1>2. CASE Armed(b)
  <2> DEFINE w == [card[b] EXCEPT !.state = "ARMED", !.phase = "armed", !.run = "none"]
             v == lane[b]
  <2>1. card' = [card EXCEPT ![b] = w] /\ lane' = [lane EXCEPT ![b] = v]
    BY <1>2, <1>a DEF Armed, All
  <2>2. w \in Card /\ v \in [Lanes -> At]
    BY <1>a, ZenonT(60) DEF Card, At
  <2>3. card'[b] = w /\ lane'[b] = v
    BY <1>a, <2>1
  <2>4. Fenced(b)' /\ Shown(b)'
    BY <1>2, <1>a, <2>3
       DEF Armed, Fenced, Shown, Grouped, Holds, RingWork, LanesIn, Before, Bouts, rest
  <2>5. Grouped(b)'
    BY <1>2, <1>a, <1>l, <2>3 DEF Armed, Grouped, Shown, Holds, LanesIn
  <2>6. Emptied(b)'
    BY <1>2, <1>a, <1>l, <2>3 DEF Armed, Emptied, LanesIn
  <2>7. /\ ring' \in 0..MaxBout /\ bouts' \in 0..MaxBout /\ token' = bouts'
        /\ faults' \in 0..MaxFaults
        /\ ring' = ring \/ ring \in {0, b}
        /\ bouts' = bouts \/ (bouts' = bouts + 1 /\ ring = 0 /\ ~Unstopped)
        /\ env' = env /\ flight' = flight
    BY <1>2, <1>a, BoundsAssumption DEF Armed, Fenced, Shown, Holds, rest, Bouts, Slip
  <2> HIDE DEF w, v
  <2> QED
    BY <1>a, <2>1, <2>2, <2>4, <2>5, <2>6, <2>7, OneBout
<1>3. CASE ArmFails(b)
  <2> DEFINE w == [card[b] EXCEPT !.state = "FAILED", !.phase = "none", !.run = "none"]
             v == [l \in Lanes |-> "idle"]
  <2>1. card' = [card EXCEPT ![b] = w] /\ lane' = [lane EXCEPT ![b] = v]
    BY <1>3, <1>a DEF ArmFails, All
  <2>2. w \in Card /\ v \in [Lanes -> At]
    BY <1>a, ZenonT(60) DEF Card, At
  <2>3. card'[b] = w /\ lane'[b] = v
    BY <1>a, <2>1
  <2>4. Fenced(b)' /\ Shown(b)'
    BY <1>3, <1>a, <2>3
       DEF ArmFails, Fenced, Shown, Grouped, Holds, RingWork, LanesIn, Before, Bouts, rest
  <2>5. Grouped(b)'
    BY <1>3, <1>a, <1>l, <2>3 DEF ArmFails, Grouped, Holds, LanesIn
  <2>6. Emptied(b)'
    BY <1>3, <1>a, <1>l, <2>3
       DEF ArmFails, Emptied, Grouped, Shown, LanesIn, AtArm, AtRun, AtClean, Ended, Before
  <2>7. /\ ring' \in 0..MaxBout /\ bouts' \in 0..MaxBout /\ token' = bouts'
        /\ faults' \in 0..MaxFaults
        /\ ring' = ring \/ ring \in {0, b}
        /\ bouts' = bouts \/ (bouts' = bouts + 1 /\ ring = 0 /\ ~Unstopped)
        /\ env' = env /\ flight' = flight
    BY <1>3, <1>a, BoundsAssumption DEF ArmFails, Fenced, Shown, Holds, rest, Bouts, Slip
  <2> HIDE DEF w, v
  <2> QED
    BY <1>a, <2>1, <2>2, <2>4, <2>5, <2>6, <2>7, OneBout
<1>4. CASE ArmedGivesUp(b)
  <2> DEFINE w == [card[b] EXCEPT !.state = "FAILED", !.phase = "none"]
             v == [l \in Lanes |-> "idle"]
  <2>1. card' = [card EXCEPT ![b] = w] /\ lane' = [lane EXCEPT ![b] = v]
    BY <1>4, <1>a DEF ArmedGivesUp, All
  <2>2. w \in Card /\ v \in [Lanes -> At]
    BY <1>a DEF Card, At
  <2>3. card'[b] = w /\ lane'[b] = v
    BY <1>a, <2>1
  <2>4. Fenced(b)' /\ Shown(b)'
    BY <1>4, <1>a, <2>3
       DEF ArmedGivesUp, Fenced, Shown, Grouped, Holds, RingWork, LanesIn, Before, Bouts, rest
  <2>5. Grouped(b)'
    BY <1>4, <1>a, <1>l, <2>3 DEF ArmedGivesUp, Grouped, Shown, Holds, LanesIn
  <2>6. Emptied(b)'
    BY <1>4, <1>a, <1>l, <2>3
       DEF ArmedGivesUp, Emptied, Grouped, Shown, LanesIn, AtArm, AtRun, AtClean, Ended, Before
  <2>7. /\ ring' \in 0..MaxBout /\ bouts' \in 0..MaxBout /\ token' = bouts'
        /\ faults' \in 0..MaxFaults
        /\ ring' = ring \/ ring \in {0, b}
        /\ bouts' = bouts \/ (bouts' = bouts + 1 /\ ring = 0 /\ ~Unstopped)
        /\ env' = env /\ flight' = flight
    BY <1>4, <1>a, BoundsAssumption DEF ArmedGivesUp, Fenced, Shown, Holds, rest, Bouts, Slip
  <2> HIDE DEF w, v
  <2> QED
    BY <1>a, <2>1, <2>2, <2>4, <2>5, <2>6, <2>7, OneBout
<1>5. CASE Bell(b)
  <2> DEFINE w == [card[b] EXCEPT !.state = "RUNNING", !.phase = "run_committed", !.run = "run"]
             v == [l \in Lanes |-> "recheck"]
  <2>1. card' = [card EXCEPT ![b] = w] /\ lane' = [lane EXCEPT ![b] = v]
    BY <1>5, <1>a DEF Bell, All
  <2>2. w \in Card /\ v \in [Lanes -> At]
    BY <1>a, ZenonT(60) DEF Card, At
  <2>3. card'[b] = w /\ lane'[b] = v
    BY <1>a, <2>1
  <2>4. Fenced(b)' /\ Shown(b)'
    BY <1>5, <1>a, <2>3
       DEF Bell, Fenced, Shown, Grouped, Holds, RingWork, LanesIn, Before, Bouts, rest
  <2>5. Grouped(b)'
    BY <1>5, <1>a, <1>l, <2>3 DEF Bell, Grouped, Holds, LanesIn, AtArm, AtRun, AtClean, Ended
  <2>6. Emptied(b)'
    BY <1>5, <1>a, <1>l, <2>3
       DEF Bell, Emptied, Grouped, Shown, LanesIn, AtArm, AtRun, AtClean, Ended, Before
  <2>7. /\ ring' \in 0..MaxBout /\ bouts' \in 0..MaxBout /\ token' = bouts'
        /\ faults' \in 0..MaxFaults
        /\ ring' = ring \/ ring \in {0, b}
        /\ bouts' = bouts \/ (bouts' = bouts + 1 /\ ring = 0 /\ ~Unstopped)
        /\ env' = env /\ flight' = flight
    BY <1>5, <1>a, BoundsAssumption DEF Bell, Fenced, Shown, Holds, rest, Bouts, Slip
  <2> HIDE DEF w, v
  <2> QED
    BY <1>a, <2>1, <2>2, <2>4, <2>5, <2>6, <2>7, OneBout
<1>6. CASE Barrier(b)
  <2> DEFINE w == card[b]
             v == [l \in Lanes |-> "create"]
  <2>1. card' = [card EXCEPT ![b] = w] /\ lane' = [lane EXCEPT ![b] = v]
    BY <1>6, <1>a DEF Barrier, All
  <2>2. w \in Card /\ v \in [Lanes -> At]
    BY <1>a DEF Card, At
  <2>3. card'[b] = w /\ lane'[b] = v
    BY <1>a, <2>1
  <2>4. Fenced(b)' /\ Shown(b)'
    BY <1>6, <1>a, <2>3
       DEF Barrier, Fenced, Shown, Grouped, Holds, RingWork, LanesIn, Before, Bouts, rest
  <2>5. Grouped(b)'
    BY <1>6, <1>a, <1>l, <2>3 DEF Barrier, Grouped, Holds, LanesIn, AtArm, AtRun, AtClean, Ended
  <2>6. Emptied(b)'
    BY <1>6, <1>a, <1>l, <2>3 DEF Barrier, Emptied, LanesIn
  <2>7. /\ ring' \in 0..MaxBout /\ bouts' \in 0..MaxBout /\ token' = bouts'
        /\ faults' \in 0..MaxFaults
        /\ ring' = ring \/ ring \in {0, b}
        /\ bouts' = bouts \/ (bouts' = bouts + 1 /\ ring = 0 /\ ~Unstopped)
        /\ env' = env /\ flight' = flight
    BY <1>6, <1>a, BoundsAssumption DEF Barrier, Fenced, Shown, Holds, rest, Bouts, Slip
  <2> HIDE DEF w, v
  <2> QED
    BY <1>a, <2>1, <2>2, <2>4, <2>5, <2>6, <2>7, OneBout
<1>7. CASE GoneIsFound(b)
  <2> DEFINE w == [card[b] EXCEPT !.phase = "none", !.lost = TRUE, !.state = "FAILED"]
             v == lane[b]
  <2>1. card' = [card EXCEPT ![b] = w] /\ lane' = [lane EXCEPT ![b] = v]
    BY <1>7, <1>a DEF GoneIsFound, All
  <2>2. w \in Card /\ v \in [Lanes -> At]
    BY <1>a DEF Card, At
  <2>3. card'[b] = w /\ lane'[b] = v
    BY <1>a, <2>1
  <2>4. Fenced(b)' /\ Shown(b)'
    BY <1>7, <1>a, <2>3
       DEF GoneIsFound, Fenced, Shown, Grouped, Holds, RingWork, LanesIn, Before, Bouts, rest
  <2>5. Grouped(b)'
    BY <1>7, <1>a, <1>l, <2>3 DEF GoneIsFound, Grouped, Holds, LanesIn
  <2>6. Emptied(b)'
    BY <1>7, <1>a, <1>l, <2>3 DEF GoneIsFound, Emptied, LanesIn, Coming, Of
  <2>7. /\ ring' \in 0..MaxBout /\ bouts' \in 0..MaxBout /\ token' = bouts'
        /\ faults' \in 0..MaxFaults
        /\ ring' = ring \/ ring \in {0, b}
        /\ bouts' = bouts \/ (bouts' = bouts + 1 /\ ring = 0 /\ ~Unstopped)
        /\ env' = env /\ flight' = flight
    BY <1>7, <1>a, BoundsAssumption DEF GoneIsFound, Fenced, Shown, Holds, rest, Bouts, Slip
  <2> HIDE DEF w, v
  <2> QED
    BY <1>a, <2>1, <2>2, <2>4, <2>5, <2>6, <2>7, OneBout
<1>8. CASE EndsTowelled(b)
  <2> DEFINE w == [card[b] EXCEPT !.run = "none"]
             v == lane[b]
  <2>1. card' = [card EXCEPT ![b] = w] /\ lane' = [lane EXCEPT ![b] = v]
    BY <1>8, <1>a DEF EndsTowelled, All
  <2>2. w \in Card /\ v \in [Lanes -> At]
    BY <1>a DEF Card, At
  <2>3. card'[b] = w /\ lane'[b] = v
    BY <1>a, <2>1
  <2>4. Fenced(b)' /\ Shown(b)'
    BY <1>8, <1>a, <2>3
       DEF EndsTowelled, Fenced, Shown, Grouped, Holds, RingWork, LanesIn, Before, Bouts, rest
  <2>5. Grouped(b)'
    BY <1>8, <1>a, <1>l, <2>3
       DEF EndsTowelled, Grouped, Shown, Holds, LanesIn, AtArm, AtRun, AtClean, Ended
  <2>6. Emptied(b)'
    BY <1>8, <1>a, <1>l, <2>3 DEF EndsTowelled, Emptied, LanesIn
  <2>7. /\ ring' \in 0..MaxBout /\ bouts' \in 0..MaxBout /\ token' = bouts'
        /\ faults' \in 0..MaxFaults
        /\ ring' = ring \/ ring \in {0, b}
        /\ bouts' = bouts \/ (bouts' = bouts + 1 /\ ring = 0 /\ ~Unstopped)
        /\ env' = env /\ flight' = flight
    BY <1>8, <1>a, BoundsAssumption DEF EndsTowelled, Fenced, Shown, Holds, rest, Bouts, Slip
  <2> HIDE DEF w, v
  <2> QED
    BY <1>a, <2>1, <2>2, <2>4, <2>5, <2>6, <2>7, OneBout
<1>9. CASE RunStopped(b)
  <2> DEFINE w == [card[b] EXCEPT !.run = "none"]
             v == lane[b]
  <2>1. card' = [card EXCEPT ![b] = w] /\ lane' = [lane EXCEPT ![b] = v]
    BY <1>9, <1>a DEF RunStopped, All
  <2>2. w \in Card /\ v \in [Lanes -> At]
    BY <1>a DEF Card, At
  <2>3. card'[b] = w /\ lane'[b] = v
    BY <1>a, <2>1
  <2>4. Fenced(b)' /\ Shown(b)'
    BY <1>9, <1>a, <2>3
       DEF RunStopped, Fenced, Shown, Grouped, Holds, RingWork, LanesIn, Before, Bouts, rest
  <2>5. Grouped(b)'
    BY <1>9, <1>a, <1>l, <2>3
       DEF RunStopped, Grouped, Holds, LanesIn, AtArm, AtRun, AtClean, Ended
  <2>6. Emptied(b)'
    BY <1>9, <1>a, <1>l, <2>3 DEF RunStopped, Emptied, LanesIn, Coming, Of
  <2>7. /\ ring' \in 0..MaxBout /\ bouts' \in 0..MaxBout /\ token' = bouts'
        /\ faults' \in 0..MaxFaults
        /\ ring' = ring \/ ring \in {0, b}
        /\ bouts' = bouts \/ (bouts' = bouts + 1 /\ ring = 0 /\ ~Unstopped)
        /\ env' = env /\ flight' = flight
    BY <1>9, <1>a, BoundsAssumption DEF RunStopped, Fenced, Shown, Holds, rest, Bouts, Slip
  <2> HIDE DEF w, v
  <2> QED
    BY <1>a, <2>1, <2>2, <2>4, <2>5, <2>6, <2>7, OneBout
<1>10. CASE Towel(b)
  <2>0. /\ card[b].run = "run" /\ card[b].clean = "none"
        /\ \A m \in Lanes : lane[b][m] \notin {"idle", "gone", "clearing"}
    BY <1>10, <1>a DEF Towel, Shown, Before, Grouped, LanesIn, AtRun
  <2> DEFINE w == [card[b] EXCEPT !.state = "TOWELLED", !.phase = "towel_cleanup",
                                  !.towel = "CLEANING", !.clean = "towel",
                                  !.cooldown = "WATCHING"]
             v == lane[b]
  <2>1. card' = [card EXCEPT ![b] = w] /\ lane' = [lane EXCEPT ![b] = v]
    BY <1>10, <1>a DEF Towel, All
  <2>2. w \in Card /\ v \in [Lanes -> At]
    BY <1>a DEF Card, At
  <2>3. card'[b] = w /\ lane'[b] = v
    BY <1>a, <2>1
  <2>4. Fenced(b)' /\ Shown(b)'
    BY <1>10, <1>a, <2>0, <2>3
       DEF Towel, Fenced, Shown, Grouped, Holds, RingWork, LanesIn, Before, Bouts, rest
  <2>5. Grouped(b)'
    BY <1>10, <1>a, <1>l, <2>0, <2>3 DEF Towel, Grouped, Holds, LanesIn
  <2>6. Emptied(b)'
    BY <1>10, <1>a, <1>l, <2>0, <2>3 DEF Towel, Emptied, LanesIn
  <2>7. /\ ring' \in 0..MaxBout /\ bouts' \in 0..MaxBout /\ token' = bouts'
        /\ faults' \in 0..MaxFaults
        /\ ring' = ring \/ ring \in {0, b}
        /\ bouts' = bouts \/ (bouts' = bouts + 1 /\ ring = 0 /\ ~Unstopped)
        /\ env' = env /\ flight' = flight
    BY <1>10, <1>a, <2>0, BoundsAssumption DEF Towel, Fenced, Shown, Holds, rest, Bouts, Slip
  <2> HIDE DEF w, v
  <2> QED
    BY <1>a, <2>1, <2>2, <2>4, <2>5, <2>6, <2>7, OneBout
<1>11. CASE TowelSettles(b)
  <2> DEFINE w == card[b]
             v == [l \in Lanes |-> "settle"]
  <2>1. card' = [card EXCEPT ![b] = w] /\ lane' = [lane EXCEPT ![b] = v]
    BY <1>11, <1>a DEF TowelSettles, All
  <2>2. w \in Card /\ v \in [Lanes -> At]
    BY <1>a DEF Card, At
  <2>3. card'[b] = w /\ lane'[b] = v
    BY <1>a, <2>1
  <2>4. Fenced(b)' /\ Shown(b)'
    BY <1>11, <1>a, <2>3
       DEF TowelSettles, Fenced, Shown, Grouped, Holds, RingWork, LanesIn, Before, Bouts, rest
  <2>5. Grouped(b)'
    BY <1>11, <1>a, <1>l, <2>3
       DEF TowelSettles, Grouped, Holds, LanesIn, AtArm, AtRun, AtClean, Ended
  <2>6. Emptied(b)'
    BY <1>11, <1>a, <1>l, <2>3
       DEF TowelSettles, Emptied, Grouped, LanesIn, AtArm, AtRun, AtClean, Ended, Coming
  <2>7. /\ ring' \in 0..MaxBout /\ bouts' \in 0..MaxBout /\ token' = bouts'
        /\ faults' \in 0..MaxFaults
        /\ ring' = ring \/ ring \in {0, b}
        /\ bouts' = bouts \/ (bouts' = bouts + 1 /\ ring = 0 /\ ~Unstopped)
        /\ env' = env /\ flight' = flight
    BY <1>11, <1>a, BoundsAssumption DEF TowelSettles, Fenced, Shown, Holds, rest, Bouts, Slip
  <2> HIDE DEF w, v
  <2> QED
    BY <1>a, <2>1, <2>2, <2>4, <2>5, <2>6, <2>7, OneBout
<1>12. CASE TowelGivesUp(b)
  <2> DEFINE w == [card[b] EXCEPT !.towel = "FAILED", !.cooldown = "FAILED", !.clean = "none"]
             v == lane[b]
  <2>1. card' = [card EXCEPT ![b] = w] /\ lane' = [lane EXCEPT ![b] = v]
    BY <1>12, <1>a DEF TowelGivesUp, All
  <2>2. w \in Card /\ v \in [Lanes -> At]
    BY <1>a DEF Card, At
  <2>3. card'[b] = w /\ lane'[b] = v
    BY <1>a, <2>1
  <2>4. Fenced(b)' /\ Shown(b)'
    BY <1>12, <1>a, <2>3
       DEF TowelGivesUp, Fenced, Shown, Holds, RingWork, Before, Unstopped, rest, Bouts, LanesIn,
           Grouped, AtArm, AtRun, AtClean, Ended
  <2>5. Grouped(b)'
    BY <1>12, <1>a, <1>l, <2>3 DEF TowelGivesUp, Grouped, Holds, LanesIn
  <2>6. Emptied(b)'
    BY <1>12, <1>a, <1>l, <2>3 DEF TowelGivesUp, Emptied, LanesIn, Coming, Of
  <2>7. /\ ring' \in 0..MaxBout /\ bouts' \in 0..MaxBout /\ token' = bouts'
        /\ faults' \in 0..MaxFaults
        /\ ring' = ring \/ ring \in {0, b}
        /\ bouts' = bouts \/ (bouts' = bouts + 1 /\ ring = 0 /\ ~Unstopped)
        /\ env' = env /\ flight' = flight
    BY <1>12, <1>a, BoundsAssumption DEF TowelGivesUp, Fenced, Shown, Holds, rest, Bouts, Slip
  <2> HIDE DEF w, v
  <2> QED
    BY <1>a, <2>1, <2>2, <2>4, <2>5, <2>6, <2>7, OneBout
<1>13. CASE TowelRetry(b)
  <2> DEFINE w == [card[b] EXCEPT !.towel = "CLEANING", !.clean = "towel",
                                  !.cooldown = "WATCHING"]
             v == [l \in Lanes |-> "settle"]
  <2>1. card' = [card EXCEPT ![b] = w] /\ lane' = [lane EXCEPT ![b] = v]
    BY <1>13, <1>a DEF TowelRetry, All
  <2>2. w \in Card /\ v \in [Lanes -> At]
    BY <1>a DEF Card, At
  <2>3. card'[b] = w /\ lane'[b] = v
    BY <1>a, <2>1
  <2>4. Fenced(b)' /\ Shown(b)'
    BY <1>13, <1>a, <2>3
       DEF TowelRetry, Fenced, Shown, Grouped, Holds, RingWork, LanesIn, Before, Bouts, rest
  <2>5. Grouped(b)'
    BY <1>13, <1>a, <1>l, <2>3
       DEF TowelRetry, Grouped, Shown, Holds, LanesIn, AtArm, AtRun, AtClean, Ended
  <2>6. Emptied(b)'
    BY <1>13, <1>a, <1>l, <2>3 DEF TowelRetry, Emptied, LanesIn
  <2>7. /\ ring' \in 0..MaxBout /\ bouts' \in 0..MaxBout /\ token' = bouts'
        /\ faults' \in 0..MaxFaults
        /\ ring' = ring \/ ring \in {0, b}
        /\ bouts' = bouts \/ (bouts' = bouts + 1 /\ ring = 0 /\ ~Unstopped)
        /\ env' = env /\ flight' = flight
    BY <1>13, <1>a, BoundsAssumption DEF TowelRetry, Fenced, Shown, Holds, rest, Bouts, Slip
  <2> HIDE DEF w, v
  <2> QED
    BY <1>a, <2>1, <2>2, <2>4, <2>5, <2>6, <2>7, OneBout
<1>14. CASE Settle(b)
  <2> DEFINE w == card[b]
             v == [l \in Lanes |-> "clearing"]
  <2>1. card' = [card EXCEPT ![b] = w] /\ lane' = [lane EXCEPT ![b] = v]
    BY <1>14, <1>a DEF Settle, All
  <2>2. w \in Card /\ v \in [Lanes -> At]
    BY <1>a DEF Card, At
  <2>3. card'[b] = w /\ lane'[b] = v
    BY <1>a, <2>1
  <2>4. Fenced(b)' /\ Shown(b)'
    BY <1>14, <1>a, <2>3
       DEF Settle, Fenced, Shown, Grouped, Holds, RingWork, LanesIn, Before, Bouts, rest
  <2>5. Grouped(b)'
    BY <1>14, <1>a, <1>l, <2>3 DEF Settle, Grouped, Holds, LanesIn, AtArm, AtRun, AtClean, Ended
  <2>6. Emptied(b)'
    BY <1>14, <1>a, <1>l, <2>3 DEF Settle, Emptied, LanesIn, Coming, Of
  <2>7. /\ ring' \in 0..MaxBout /\ bouts' \in 0..MaxBout /\ token' = bouts'
        /\ faults' \in 0..MaxFaults
        /\ ring' = ring \/ ring \in {0, b}
        /\ bouts' = bouts \/ (bouts' = bouts + 1 /\ ring = 0 /\ ~Unstopped)
        /\ env' = env /\ flight' = flight
    BY <1>14, <1>a, BoundsAssumption DEF Settle, Fenced, Shown, Holds, rest, Bouts, Slip
  <2> HIDE DEF w, v
  <2> QED
    BY <1>a, <2>1, <2>2, <2>4, <2>5, <2>6, <2>7, OneBout
<1>15. CASE SettleSlips(b)
  <2> DEFINE w == card[b]
             v == [l \in Lanes |-> "stuck"]
  <2>1. card' = [card EXCEPT ![b] = w] /\ lane' = [lane EXCEPT ![b] = v]
    BY <1>15, <1>a DEF SettleSlips, All
  <2>2. w \in Card /\ v \in [Lanes -> At]
    BY <1>a DEF Card, At
  <2>3. card'[b] = w /\ lane'[b] = v
    BY <1>a, <2>1
  <2>4. Fenced(b)' /\ Shown(b)'
    BY <1>15, <1>a, <2>3
       DEF SettleSlips, Fenced, Shown, Grouped, Holds, RingWork, LanesIn, Before, Bouts, rest
  <2>5. Grouped(b)'
    BY <1>15, <1>a, <1>l, <2>3
       DEF SettleSlips, Grouped, Holds, LanesIn, AtArm, AtRun, AtClean, Ended
  <2>6. Emptied(b)'
    BY <1>15, <1>a, <1>l, <2>3 DEF SettleSlips, Emptied, LanesIn
  <2>7. /\ ring' \in 0..MaxBout /\ bouts' \in 0..MaxBout /\ token' = bouts'
        /\ faults' \in 0..MaxFaults
        /\ ring' = ring \/ ring \in {0, b}
        /\ bouts' = bouts \/ (bouts' = bouts + 1 /\ ring = 0 /\ ~Unstopped)
        /\ env' = env /\ flight' = flight
    BY <1>15, <1>a, BoundsAssumption DEF SettleSlips, Fenced, Shown, Holds, rest, Bouts, Slip
  <2> HIDE DEF w, v
  <2> QED
    BY <1>a, <2>1, <2>2, <2>4, <2>5, <2>6, <2>7, OneBout
<1>16. CASE Gone(b)
  <2> DEFINE w == [card[b] EXCEPT !.cooldown = "READY"]
             v == [l \in Lanes |-> "idle"]
  <2>1. card' = [card EXCEPT ![b] = w] /\ lane' = [lane EXCEPT ![b] = v]
    BY <1>16, <1>a DEF Gone, All
  <2>2. w \in Card /\ v \in [Lanes -> At]
    BY <1>a DEF Card, At
  <2>3. card'[b] = w /\ lane'[b] = v
    BY <1>a, <2>1
  <2>4. Fenced(b)' /\ Shown(b)'
    BY <1>16, <1>a, <2>3
       DEF Gone, Fenced, Shown, Grouped, Holds, RingWork, LanesIn, Before, Bouts, rest
  <2>5. Grouped(b)'
    BY <1>16, <1>a, <1>l, <2>3, SMTT(30)
       DEF Gone, Grouped, Holds, LanesIn, AtArm, AtRun, AtClean, Ended
  <2>6. Emptied(b)'
    BY <1>16, <1>a, <1>l, <2>3 DEF Gone, Emptied, LanesIn, Coming, Of
  <2>7. /\ ring' \in 0..MaxBout /\ bouts' \in 0..MaxBout /\ token' = bouts'
        /\ faults' \in 0..MaxFaults
        /\ ring' = ring \/ ring \in {0, b}
        /\ bouts' = bouts \/ (bouts' = bouts + 1 /\ ring = 0 /\ ~Unstopped)
        /\ env' = env /\ flight' = flight
    BY <1>16, <1>a, BoundsAssumption DEF Gone, Fenced, Shown, Holds, rest, Bouts, Slip
  <2> HIDE DEF w, v
  <2> QED
    BY <1>a, <2>1, <2>2, <2>4, <2>5, <2>6, <2>7, OneBout
<1>17. CASE Release(b)
  <2>0. card[b].run = "none" /\ Holds(b) /\ card[b].state \notin Before
    BY <1>17, <1>a, <1>l DEF Release, Shown, Grouped, Holds, LanesIn, AtArm, AtRun, Card
  <2>t. PICK t \in {"none", "READY"} : t = IF card[b].towel = "none" THEN card[b].towel ELSE "READY"
    BY <1>a
  <2>u. t \in {"none", "READY", "FAILED", "CLEANING"}
    BY <2>t
  <2> DEFINE w == [card[b] EXCEPT !.clean = "none", !.phase = "none", !.cooldown = "READY",
                                  !.towel = t]
             v == lane[b]
  <2>1. card' = [card EXCEPT ![b] = w] /\ lane' = [lane EXCEPT ![b] = v]
    BY <2>t, <1>17, <1>a DEF Release, All
  <2>2. w \in Card /\ v \in [Lanes -> At]
    <3> DEFINE u == [card[b] EXCEPT !.clean = "none", !.phase = "none", !.cooldown = "READY"]
               x == [u EXCEPT !.towel = t]
    <3>1. card[b] \in Card
      BY <1>a
    <3>2. w = x
      OBVIOUS
    <3>3. u \in Card
      BY <3>1, <2>u, ZenonT(60) DEF Card
    <3>4. x \in Card
      <4> HIDE DEF u
      <4> QED
        BY <3>3, <2>u DEF Card
    <3>5. w \in Card
      BY <3>2, <3>4
    <3> QED
      BY <3>5, <1>a
  <2>3. card'[b] = w /\ lane'[b] = v
    BY <1>a, <2>1
  <2>4. Fenced(b)' /\ Shown(b)'
    BY <1>17, <1>a, <2>0, <2>t, <2>3
       DEF Release, Fenced, Shown, Grouped, Holds, RingWork, LanesIn, Before, Bouts, rest
  <2>5. Grouped(b)'
    BY <1>17, <1>a, <1>l, <2>0, <2>t, <2>3 DEF Release, Grouped, Holds, LanesIn
  <2>6. Emptied(b)'
    BY <1>17, <1>a, <1>l, <2>0, <2>t, <2>3 DEF Release, Emptied, LanesIn, Coming, Of
  <2>7. /\ ring' \in 0..MaxBout /\ bouts' \in 0..MaxBout /\ token' = bouts'
        /\ faults' \in 0..MaxFaults
        /\ ring' = ring \/ ring \in {0, b}
        /\ bouts' = bouts \/ (bouts' = bouts + 1 /\ ring = 0 /\ ~Unstopped)
        /\ env' = env /\ flight' = flight
    BY <1>17, <1>a, <2>0, <2>t, BoundsAssumption
       DEF Release, Fenced, Shown, Holds, rest, Bouts, Slip
  <2> HIDE DEF w, v
  <2> QED
    BY <1>a, <2>1, <2>2, <2>4, <2>5, <2>6, <2>7, OneBout
<1>18. CASE ReleaseSlips(b)
  <2>0. card[b].run = "none" /\ Holds(b) /\ card[b].state \notin Before
    BY <1>18, <1>a, <1>l DEF ReleaseSlips, Shown, Grouped, Holds, LanesIn, AtArm, AtRun, Card
  <2>t. PICK t \in {"none", "FAILED"}, a \in {"none", "WATCHING", "READY", "FAILED"},
             k \in {"none", "auto"} :
          /\ t = IF card[b].towel = "none" THEN card[b].towel ELSE "FAILED"
          /\ a = IF card[b].clean = "auto" THEN "WATCHING" ELSE card[b].cooldown
          /\ k = IF card[b].clean = "towel" THEN "none" ELSE card[b].clean
    BY <1>a DEF Card
  <2>u. /\ t \in {"none", "READY", "FAILED", "CLEANING"}
        /\ a \in {"none", "WATCHING", "READY", "FAILED"} /\ k \in {"none", "towel", "auto"}
    BY <2>t
  <2> DEFINE w == [card[b] EXCEPT !.cooldown = a, !.towel = t, !.clean = k]
             v == lane[b]
  <2>1. card' = [card EXCEPT ![b] = w] /\ lane' = [lane EXCEPT ![b] = v]
    BY <2>t, <1>18, <1>a DEF ReleaseSlips, All
  <2>2. w \in Card /\ v \in [Lanes -> At]
    <3> DEFINE u == [card[b] EXCEPT !.cooldown = a, !.towel = t]
               x == [u EXCEPT !.clean = k]
    <3>1. card[b] \in Card
      BY <1>a
    <3>2. w = x
      OBVIOUS
    <3>3. u \in Card
      BY <3>1, <2>u DEF Card
    <3>4. x \in Card
      <4> HIDE DEF u
      <4> QED
        BY <3>3, <2>u DEF Card
    <3>5. w \in Card
      BY <3>2, <3>4
    <3> QED
      BY <3>5, <1>a
  <2>3. card'[b] = w /\ lane'[b] = v
    BY <1>a, <2>1
  <2>4. Fenced(b)' /\ Shown(b)'
    BY <1>18, <1>a, <2>0, <2>t, <2>3
       DEF ReleaseSlips, Fenced, Shown, Grouped, Holds, RingWork, LanesIn, Before, Bouts, rest
  <2>5. Grouped(b)'
    BY <1>18, <1>a, <1>l, <2>0, <2>t, <2>3 DEF ReleaseSlips, Grouped, Holds, LanesIn
  <2>6. Emptied(b)'
    BY <1>18, <1>a, <1>l, <2>0, <2>t, <2>3 DEF ReleaseSlips, Emptied, LanesIn, Coming, Of
  <2>7. /\ ring' \in 0..MaxBout /\ bouts' \in 0..MaxBout /\ token' = bouts'
        /\ faults' \in 0..MaxFaults
        /\ ring' = ring \/ ring \in {0, b}
        /\ bouts' = bouts \/ (bouts' = bouts + 1 /\ ring = 0 /\ ~Unstopped)
        /\ env' = env /\ flight' = flight
    BY <1>18, <1>a, <2>0, <2>t, BoundsAssumption
       DEF ReleaseSlips, Fenced, Shown, Holds, rest, Bouts, Slip
  <2> HIDE DEF w, v
  <2> QED
    BY <1>a, <2>1, <2>2, <2>4, <2>5, <2>6, <2>7, OneBout
<1>19. CASE Retries(b)
  <2>0. card[b].run = "none"
    BY <1>19, <1>a, <1>l DEF Retries, Shown, Grouped, LanesIn, AtArm, AtRun, Card
  <2> DEFINE w == [card[b] EXCEPT !.cooldown = "WATCHING"]
             v == [l \in Lanes |-> "settle"]
  <2>1. card' = [card EXCEPT ![b] = w] /\ lane' = [lane EXCEPT ![b] = v]
    BY <1>19, <1>a DEF Retries, All
  <2>2. w \in Card /\ v \in [Lanes -> At]
    BY <1>a DEF Card, At
  <2>3. card'[b] = w /\ lane'[b] = v
    BY <1>a, <2>1
  <2>4. Fenced(b)' /\ Shown(b)'
    BY <1>19, <1>a, <2>0, <2>3
       DEF Retries, Fenced, Shown, Grouped, Holds, RingWork, LanesIn, Before, Bouts, rest
  <2>5. Grouped(b)'
    BY <1>19, <1>a, <1>l, <2>0, <2>3
       DEF Retries, Grouped, Holds, LanesIn, AtArm, AtRun, AtClean, Ended
  <2>6. Emptied(b)'
    BY <1>19, <1>a, <1>l, <2>0, <2>3 DEF Retries, Emptied, LanesIn
  <2>7. /\ ring' \in 0..MaxBout /\ bouts' \in 0..MaxBout /\ token' = bouts'
        /\ faults' \in 0..MaxFaults
        /\ ring' = ring \/ ring \in {0, b}
        /\ bouts' = bouts \/ (bouts' = bouts + 1 /\ ring = 0 /\ ~Unstopped)
        /\ env' = env /\ flight' = flight
    BY <1>19, <1>a, <2>0, BoundsAssumption DEF Retries, Fenced, Shown, Holds, rest, Bouts, Slip
  <2> HIDE DEF w, v
  <2> QED
    BY <1>a, <2>1, <2>2, <2>4, <2>5, <2>6, <2>7, OneBout
<1>20. CASE StartCooldown(b)
  <2>0. card[b].run = "none" /\ ~Holds(b)
    BY <1>20, <1>a DEF StartCooldown, Fenced, RingWork, Unstopped, Bouts
  <2> DEFINE w == [card[b] EXCEPT !.phase = "cooldown", !.cooldown = "WATCHING",
                                  !.clean = "auto", !.lost = FALSE]
             v == [l \in Lanes |-> "settle"]
  <2>1. card' = [card EXCEPT ![b] = w] /\ lane' = [lane EXCEPT ![b] = v]
    BY <1>20, <1>a DEF StartCooldown, All
  <2>2. w \in Card /\ v \in [Lanes -> At]
    BY <1>a DEF Card, At
  <2>3. card'[b] = w /\ lane'[b] = v
    BY <1>a, <2>1
  <2>4. Fenced(b)' /\ Shown(b)'
    BY <1>20, <1>a, <2>0, <2>3 DEF StartCooldown, Fenced, Shown, Holds, RingWork, Before
  <2>5. Grouped(b)'
    BY <1>20, <1>a, <1>l, <2>0, <2>3
       DEF StartCooldown, Grouped, Holds, LanesIn, AtArm, AtRun, AtClean, Ended
  <2>6. Emptied(b)'
    BY <1>20, <1>a, <1>l, <2>0, <2>3 DEF StartCooldown, Emptied, LanesIn
  <2>7. /\ ring' \in 0..MaxBout /\ bouts' \in 0..MaxBout /\ token' = bouts'
        /\ faults' \in 0..MaxFaults
        /\ ring' = ring \/ ring \in {0, b}
        /\ bouts' = bouts \/ (bouts' = bouts + 1 /\ ring = 0 /\ ~Unstopped)
        /\ env' = env /\ flight' = flight
    BY <1>20, <1>a, <2>0, BoundsAssumption
       DEF StartCooldown, Fenced, Shown, Holds, rest, Bouts, Slip
  <2> HIDE DEF w, v
  <2> QED
    BY <1>a, <2>1, <2>2, <2>4, <2>5, <2>6, <2>7, OneBout
<1>21. CASE RowEnds(b)
  <2> DEFINE w == card[b]
             v == lane[b]
  <2>1. card' = [card EXCEPT ![b] = w] /\ lane' = [lane EXCEPT ![b] = v]
    BY <1>21, <1>a DEF RowEnds, All
  <2>2. w \in Card /\ v \in [Lanes -> At]
    BY <1>a DEF Card, At
  <2>3. card'[b] = w /\ lane'[b] = v
    BY <1>a, <2>1
  <2>4. Fenced(b)' /\ Shown(b)'
    BY <1>21, <1>a, <2>3
       DEF RowEnds, Fenced, Shown, Grouped, Holds, RingWork, LanesIn, Before, Bouts, rest
  <2>5. Grouped(b)'
    BY <1>21, <1>a, <1>l, <2>3 DEF RowEnds, Grouped, Holds, LanesIn
  <2>6. Emptied(b)'
    BY <1>21, <1>a, <1>l, <2>3 DEF RowEnds, Emptied, LanesIn, Coming, Of
  <2>7. /\ ring' \in 0..MaxBout /\ bouts' \in 0..MaxBout /\ token' = bouts'
        /\ faults' \in 0..MaxFaults
        /\ ring' = ring \/ ring \in {0, b}
        /\ bouts' = bouts \/ (bouts' = bouts + 1 /\ ring = 0 /\ ~Unstopped)
        /\ env' = env /\ flight' = flight
    BY <1>21, <1>a, BoundsAssumption DEF RowEnds, Fenced, Shown, Holds, rest, Bouts, Slip
  <2> HIDE DEF w, v
  <2> QED
    BY <1>a, <2>1, <2>2, <2>4, <2>5, <2>6, <2>7, OneBout
<1> QED
  BY <1>1, <1>2, <1>3, <1>4, <1>5, <1>6, <1>7, <1>8, <1>9, <1>10, <1>11, <1>12, <1>13, <1>14,
     <1>15, <1>16, <1>17, <1>18, <1>19, <1>20, <1>21

-----------------------------------------------------------------------------
(* The end of a run: its lease moves to the clean-up, or cannot be shown to *)
(* have moved.                                                              *)
LEMMA FenceKeeps ==
  ASSUME IsolatedInv, NEW b \in Bouts, NotArmed(b) \/ Finish(b)
  PROVE  IsolatedInv'
<1>a. /\ card[b] \in Card /\ lane[b] \in [Lanes -> At]
      /\ Fenced(b) /\ Shown(b) /\ Grouped(b) /\ Emptied(b)
      /\ card \in [Bouts -> Card] /\ lane \in [Bouts -> [Lanes -> At]]
      /\ env \in [Lanes -> Environment] /\ flight \subseteq Calls
      /\ ring \in 0..MaxBout /\ bouts \in 0..MaxBout /\ token = bouts
      /\ faults \in 0..MaxFaults /\ b \in 0..MaxBout /\ 0 \in 0..MaxBout
      /\ \A m \in Lanes : env[m].life = "absent" => env[m].maker = 0
      /\ \A m \in Lanes : env[m].maker \in {0, b, env[m].maker}
      /\ \A f \in flight : f \in flight \/ f.bout = b
  BY OfBout DEF IsolatedInv
<1>l. Lanes # {}
  BY LanesAssumption
<1>1. /\ card[b].run = "run" /\ card[b].state = "RUNNING"
      /\ UNCHANGED <<token, bouts, env, flight>>
  BY DEF NotArmed, Finish, Over, rest
<1>2. PICK state \in {"VERIFIED", "FAILED"} : Fence(b, state)
  BY DEF NotArmed, Finish
<1>3. Holds(b) /\ ring = b /\ card[b].towel = "none" /\ card[b].clean = "none"
  BY <1>a, <1>1 DEF Fenced, Shown, Holds, Before
<1>4. CASE /\ ring' = ring /\ faults' = faults /\ lane' = All(b, "settle")
           /\ card' = [card EXCEPT ![b].state = state, ![b].run = "none", ![b].phase = "cooldown",
                                   ![b].cooldown = "WATCHING", ![b].clean = "auto"]
  <2> DEFINE u == [card[b] EXCEPT !.state = state]
             w == [u EXCEPT !.run = "none", !.phase = "cooldown", !.cooldown = "WATCHING",
                            !.clean = "auto"]
             v == [l \in Lanes |-> "settle"]
  <2>1. card' = [card EXCEPT ![b] = w] /\ lane' = [lane EXCEPT ![b] = v]
    BY <1>4, <1>a DEF All
  <2>2. w \in Card /\ v \in [Lanes -> At]
    <3>1. u \in Card
      BY <1>a, <1>2 DEF Card
    <3>2. w \in Card
      <4> HIDE DEF u
      <4> QED
        BY <3>1, ZenonT(60) DEF Card
    <3> QED
      BY <3>2 DEF At
  <2>3. card'[b] = w /\ lane'[b] = v
    BY <1>a, <2>1
  <2>4. Fenced(b)' /\ Shown(b)'
    BY <1>4, <1>a, <1>1, <1>2, <1>3, <2>3 DEF Fenced, Shown, Holds, RingWork, Before
  <2>5. Grouped(b)' /\ Emptied(b)'
    BY <1>l, <2>3 DEF Grouped, Emptied, Holds, LanesIn, AtClean
  <2> HIDE DEF w, v
  <2> QED
    BY <1>4, <1>a, <1>1, <2>1, <2>2, <2>4, <2>5, OneBout
<1>5. CASE /\ Slip /\ lane' = All(b, "idle")
           /\ \E phase \in {"none", "gone"} :
                /\ card' = [card EXCEPT ![b].state = state, ![b].run = "none", ![b].phase = phase,
                                        ![b].cooldown = "FAILED"]
                /\ ring' = IF phase = "gone" THEN 0 ELSE ring
  <2>0. PICK phase \in {"none", "gone"} :
          /\ card' = [card EXCEPT ![b].state = state, ![b].run = "none", ![b].phase = phase,
                                  ![b].cooldown = "FAILED"]
          /\ ring' = IF phase = "gone" THEN 0 ELSE ring
    BY <1>5
  <2> DEFINE u == [card[b] EXCEPT !.state = state]
             x == [u EXCEPT !.run = "none", !.phase = phase]
             w == [x EXCEPT !.cooldown = "FAILED"]
             v == [l \in Lanes |-> "idle"]
  <2>1. card' = [card EXCEPT ![b] = w] /\ lane' = [lane EXCEPT ![b] = v]
    BY <1>5, <2>0, <1>a DEF All
  <2>2. w \in Card /\ v \in [Lanes -> At]
    <3>1. u \in Card
      BY <1>a, <1>2 DEF Card
    <3>2. x \in Card
      <4> HIDE DEF u
      <4> QED
        BY <3>1, <2>0 DEF Card
    <3>3. w \in Card
      <4> HIDE DEF x
      <4> QED
        BY <3>2 DEF Card
    <3> QED
      BY <3>3 DEF At
  <2>3. card'[b] = w /\ lane'[b] = v
    BY <1>a, <2>1
  <2>4. Fenced(b)' /\ Shown(b)'
    BY <1>a, <1>1, <1>2, <1>3, <2>0, <2>3 DEF Fenced, Shown, Holds, RingWork, Before
  <2>5. Grouped(b)' /\ Emptied(b)'
    <3>1. /\ w.run = "none" /\ w.clean = "none" /\ w.phase = phase /\ w.cooldown = "FAILED"
          /\ \A l \in Lanes : v[l] = "idle"
      BY <1>a, <1>3 DEF Card
    <3> HIDE DEF w, v
    <3> QED
      BY <1>l, <2>0, <2>3, <3>1 DEF Grouped, Emptied, Holds, LanesIn
  <2>6. faults' \in 0..MaxFaults
    BY <1>5, <1>a, BoundsAssumption DEF Slip
  <2>7. ring' \in 0..MaxBout
    BY <1>a, <2>0
  <2> HIDE DEF w, v
  <2> QED
    BY <1>3, <1>a, <1>1, <2>1, <2>2, <2>4, <2>5, <2>6, <2>7, OneBout
<1> QED
  BY <1>2, <1>3, <1>4, <1>5 DEF Fence

(* The run is cancelled, by a towel or because the lease is lost: what its  *)
(* lanes leave on their threads are calls of the bout.                      *)
LEMMA CancelledKeeps ==
  ASSUME IsolatedInv, NEW b \in Bouts, TowelCancels(b) \/ Loses(b)
  PROVE  IsolatedInv'
<1>a. /\ card[b] \in Card /\ lane[b] \in [Lanes -> At]
      /\ Fenced(b) /\ Shown(b) /\ Grouped(b) /\ Emptied(b)
      /\ card \in [Bouts -> Card] /\ lane \in [Bouts -> [Lanes -> At]]
      /\ env \in [Lanes -> Environment] /\ flight \subseteq Calls
      /\ ring \in 0..MaxBout /\ bouts \in 0..MaxBout /\ token = bouts
      /\ faults \in 0..MaxFaults /\ b \in 0..MaxBout /\ 0 \in 0..MaxBout
      /\ \A m \in Lanes : env[m].life = "absent" => env[m].maker = 0
      /\ \A m \in Lanes : env[m].maker \in {0, b, env[m].maker}
  BY OfBout DEF IsolatedInv
<1>l. Lanes # {}
  BY LanesAssumption
<1>1. PICK at \in {"cancelled", "idle"} :
        Cancelled(b, at) /\ (TowelCancels(b) => at = "cancelled") /\ (Loses(b) => at = "idle")
  <2>1. CASE TowelCancels(b) /\ ~Loses(b)
    BY <2>1 DEF TowelCancels
  <2>2. CASE Loses(b) /\ ~TowelCancels(b)
    BY <2>2 DEF Loses
  <2>3. ~(Loses(b) /\ TowelCancels(b))
    BY <1>a DEF Loses, TowelCancels, Card
  <2> QED
    BY <2>1, <2>2, <2>3
<1>2. lane' = [lane EXCEPT ![b] = [l \in Lanes |-> at]] /\ [l \in Lanes |-> at] \in [Lanes -> At]
  BY <1>1 DEF Cancelled, All, At
<1>3. lane'[b] = [l \in Lanes |-> at]
  BY <1>a, <1>2
<1>4. \A f \in flight' : f \in flight \/ (f \in Calls /\ f.bout = b)
  <2>1. PICK left \in SUBSET UNION {Underway(b, l) : l \in Lanes} :
          flight' = flight \cup left \cup
            {[bout |-> b, lane |-> l, call |-> IF l = Cluster THEN "teardown" ELSE "drop"] :
               l \in {m \in Lanes : card[b].run = "run" /\ Started(b, m)}}
    BY <1>1 DEF Cancelled
  <2>2. \A f \in left : f \in Calls /\ f.bout = b
    <3> SUFFICES ASSUME NEW f \in left
                 PROVE  f \in Calls /\ f.bout = b
      OBVIOUS
    <3>1. PICK l \in Lanes : f \in Underway(b, l)
      BY <2>1
    <3> QED
      BY <3>1, UnderwayOf
  <2>3. \A l \in Lanes :
          LET f == [bout |-> b, lane |-> l, call |-> IF l = Cluster THEN "teardown" ELSE "drop"]
          IN  f \in Calls /\ f.bout = b
    BY DEF Calls
  <2> QED
    BY <2>1, <2>2, <2>3
<1>5. flight' \subseteq Calls
  BY <1>a, <1>4
<1>6. card[b].cooldown = "READY" => ~Coming(b)' /\ LanesIn(b, {"idle"})
  <2> SUFFICES ASSUME card[b].cooldown = "READY"
               PROVE  ~Coming(b)' /\ LanesIn(b, {"idle"})
    OBVIOUS
  <2>1. LanesIn(b, {"idle"}) /\ ~Coming(b)
    BY <1>a DEF Emptied
  <2>2. \A l \in Lanes : Underway(b, l) = {} /\ ~Started(b, l)
    BY <2>1 DEF LanesIn, Underway, Started
  <2>3. flight' = flight
    BY <1>1, <2>2 DEF Cancelled
  <2> QED
    BY <2>1, <2>3 DEF Coming
<1>7. CASE TowelCancels(b)
  <2> DEFINE w == [card[b] EXCEPT !.run = "stopping"]
  <2>1. card' = [card EXCEPT ![b] = w] /\ at = "cancelled"
    BY <1>7, <1>1, <1>a DEF TowelCancels
  <2>2. w \in Card
    BY <1>a DEF Card
  <2>3. card'[b] = w
    BY <1>a, <2>1
  <2>4. Fenced(b)' /\ Shown(b)'
    BY <1>7, <1>a, <2>3 DEF TowelCancels, Fenced, Shown, Holds, RingWork, Before, rest
  <2>5. card[b].cooldown # "READY"
    BY <1>7, <1>a, <1>l, <1>6 DEF TowelCancels, Grouped, LanesIn, AtRun
  <2>6. Grouped(b)' /\ Emptied(b)'
    BY <1>7, <1>a, <1>l, <1>3, <2>1, <2>3, <2>5
       DEF TowelCancels, Grouped, Emptied, Holds, LanesIn, Shown
  <2>7. UNCHANGED <<ring, bouts, token, env, faults>>
    BY <1>7 DEF TowelCancels, rest
  <2> HIDE DEF w
  <2> QED
    BY <1>a, <1>2, <1>4, <1>5, <2>1, <2>2, <2>4, <2>6, <2>7, OneBout
<1>8. CASE Loses(b)
  <2>0. PICK r \in {"stopping", "none"}, s \in {"FAILED", card[b].state}, t \in {"none", "FAILED"} :
          /\ r = IF RingWork(b) THEN "stopping" ELSE "none"
          /\ s = IF card[b].towel # "none" THEN card[b].state ELSE "FAILED"
          /\ t = IF card[b].towel # "none" THEN "FAILED" ELSE card[b].towel
    OBVIOUS
  <2> DEFINE u == [card[b] EXCEPT !.phase = "none", !.lost = TRUE, !.clean = "none"]
             y == [u EXCEPT !.run = r]
             x == [y EXCEPT !.state = s]
             w == [x EXCEPT !.towel = t]
  <2>1. card' = [card EXCEPT ![b] = w] /\ at = "idle"
    BY <1>8, <1>1, <1>a, <2>0 DEF Loses
  <2>2. w \in Card
    <3>1. u \in Card
      <4>1. card[b] \in Card
        BY <1>a
      <4> QED
        BY <4>1 DEF Card
    <3>2. s \in {"DRAFT", "CHECKING", "ARMED", "RUNNING", "VERIFIED", "FAILED", "TOWELLED"}
      BY <1>a, <2>0 DEF Card
    <3>3. y \in Card
      <4> HIDE DEF u
      <4> QED
        BY <3>1, <2>0 DEF Card
    <3>4. x \in Card
      <4> HIDE DEF y
      <4> QED
        BY <3>3, <3>2 DEF Card
    <3> HIDE DEF x
    <3> QED
      BY <3>4, <2>0 DEF Card
  <2>3. card'[b] = w
    BY <1>a, <2>1
  <2>4. Fenced(b)' /\ Shown(b)'
    <3>1. /\ w.phase = "none" /\ w.lost /\ w.clean = "none" /\ w.run = r /\ w.state = s
          /\ w.towel = t /\ w.cooldown = card[b].cooldown
      BY <1>a DEF Card
    <3>2. UNCHANGED <<ring, bouts>> /\ card[b].phase # "none"
      BY <1>8 DEF Loses
    <3>3. s \notin Before
      BY <1>a, <2>0 DEF Shown, Before
    <3>4. b <= bouts
      BY <1>a, <3>2 DEF Fenced, Bouts
    <3> HIDE DEF w
    <3>5. Fenced(b)'
      BY <1>a, <2>0, <2>3, <3>1, <3>2, <3>4 DEF Fenced, Holds, RingWork
    <3>6. Shown(b)'
      BY <2>0, <2>3, <3>1, <3>3 DEF Shown, Holds, Before
    <3> QED
      BY <3>5, <3>6
  <2>5. Grouped(b)' /\ Emptied(b)'
    BY <1>8, <1>a, <1>l, <1>3, <1>6, <2>0, <2>1, <2>3 DEF Loses, Grouped, Emptied, Holds, LanesIn
  <2>6. UNCHANGED <<ring, bouts, token, env>> /\ faults' \in 0..MaxFaults
    BY <1>8, <1>a, BoundsAssumption DEF Loses, Slip
  <2> HIDE DEF w
  <2> QED
    BY <1>a, <1>2, <1>4, <1>5, <2>1, <2>2, <2>4, <2>5, <2>6, OneBout
<1> QED
  BY <1>7, <1>8

-----------------------------------------------------------------------------
(* What the provider brings up or takes away is nobody's step: it makes     *)
(* nothing for a bout that did not ask.                                     *)
LEMMA ProviderKeeps ==
  ASSUME IsolatedInv, NEW l \in Lanes, Provider(l)
  PROVE  IsolatedInv'
<1>1. /\ UNCHANGED <<ring, token, bouts, card, lane, flight, faults>>
      /\ env \in [Lanes -> Environment] /\ bouts \in Nat
      /\ \A m \in Lanes : env[m].life = "absent" => env[m].maker = 0
  BY BoundsAssumption
     DEF Provider, EnvComesUp, WriterComesUp, EnvGoes, WriterGoes, rest, IsolatedInv, BoutTypeOK
<1>2. env[l] \in Environment /\ 0 \in 0..MaxBout
  BY <1>1, BoundsAssumption
<1>3. PICK e \in {[env[l] EXCEPT !.life = "ready"], [env[l] EXCEPT !.writer = "ready"],
                  [env[l] EXCEPT !.writer = "absent"], Nothing} : env' = [env EXCEPT ![l] = e]
  BY DEF Provider, EnvComesUp, WriterComesUp, EnvGoes, WriterGoes
<1>4. e \in Environment /\ e.maker \in {0, env[l].maker} /\ (e.life = "absent" => e.maker = 0)
  <2>1. Nothing \in Environment /\ Nothing.maker = 0
    BY <1>2 DEF Nothing, Environment, Life
  <2>2. CASE e = Nothing
    BY <2>1, <2>2
  <2>3. CASE e = [env[l] EXCEPT !.life = "ready"]
    BY <1>2, <2>3 DEF Environment, Life
  <2>4. CASE e = [env[l] EXCEPT !.writer = "ready"]
    BY <1>1, <1>2, <2>4 DEF Environment, Life
  <2>5. CASE e = [env[l] EXCEPT !.writer = "absent"]
    BY <1>1, <1>2, <2>5 DEF Environment, Life
  <2> QED
    BY <2>2, <2>3, <2>4, <2>5, <1>3
<1>5. /\ env' \in [Lanes -> Environment]
      /\ \A m \in Lanes : env'[m].maker \in {0, env[m].maker}
      /\ \A m \in Lanes : env'[m].life = "absent" => env'[m].maker = 0
  BY <1>1, <1>3, <1>4
<1>6. ASSUME NEW d \in Bouts
      PROVE  Fenced(d)' /\ Shown(d)' /\ Grouped(d)' /\ Emptied(d)'
  <2>1. d # 0 /\ (Coming(d)' => Coming(d))
    BY <1>1 DEF Bouts, Coming
  <2> QED
    BY <1>1, <1>5, <2>1, Bystander
<1> QED
  BY <1>1, <1>5, <1>6 DEF IsolatedInv, BoutTypeOK

(* A call that lands makes an environment only for its own bout, of which   *)
(* nothing was said while the call was on its way.                          *)
LEMMA LandsKeeps ==
  ASSUME IsolatedInv, NEW f \in flight, Lands(f)
  PROVE  IsolatedInv'
<1>1. /\ UNCHANGED <<ring, token, bouts, card, lane, faults>>
      /\ flight \subseteq Calls /\ bouts \in Nat /\ f \in Calls
  BY BoundsAssumption DEF Lands, rest, IsolatedInv, BoutTypeOK
<1>2. f.bout \in Bouts /\ f.lane \in Lanes /\ f.bout # 0
  BY <1>1 DEF Calls, Bouts
<1>3. /\ f.call \in {"create", "writer", "drop", "dropWriter", "teardown"}
      /\ [f EXCEPT !.call = "drop"] \in Calls
      /\ [f EXCEPT !.call = "drop"].call = "drop" /\ [f EXCEPT !.call = "drop"].bout = f.bout
  BY <1>1 DEF Calls
<1>4. PICK e \in {Asked(f.lane, f.bout), WriterAsked(f.lane),
                  Dropped(f.lane), WriterDropped(f.lane)} :
        /\ env' = [env EXCEPT ![f.lane] = e]
        /\ f.call # "create" => e.maker = env[f.lane].maker
  BY <1>2, <1>3, Asking DEF Lands
<1>5. /\ env' \in [Lanes -> Environment]
      /\ \A m \in Lanes : env'[m].maker \in {0, f.bout, env[m].maker}
      /\ \A m \in Lanes : env'[m].life = "absent" => env'[m].maker = 0
  BY <1>2, <1>4, EnvMoves
<1>6. f.call # "create" => \A m \in Lanes : env'[m].maker \in {0, env[m].maker}
  BY <1>2, <1>4 DEF IsolatedInv, BoutTypeOK
<1>7. /\ flight' \subseteq Calls
      /\ \A g \in flight' : g \in flight \/ (g.bout = f.bout /\ g.call = "drop")
  BY <1>1, <1>3 DEF Lands
<1>8. ASSUME NEW d \in Bouts
      PROVE  Fenced(d)' /\ Shown(d)' /\ Grouped(d)' /\ Emptied(d)'
  <2>1. d # 0 /\ (Coming(d)' => Coming(d))
    BY <1>7 DEF Bouts, Coming
  <2>2. CASE d # f.bout \/ f.call # "create"
    <3>1. \A m \in Lanes : env'[m].maker = d => env[m].maker = d
      BY <1>5, <1>6, <2>1, <2>2
    <3> QED
      BY <1>1, <2>1, <3>1, Bystander
  <2>3. CASE d = f.bout /\ f.call = "create"
    <3>1. Coming(d) /\ Fenced(d) /\ Shown(d) /\ Grouped(d) /\ Emptied(d)
      BY <2>3 DEF Coming, IsolatedInv
    <3>2. card'[d] = card[d] /\ lane'[d] = lane[d]
      BY <1>1
    <3>3. Fenced(d)' /\ Shown(d)' /\ Grouped(d)'
      BY <1>1, <3>1, <3>2 DEF Fenced, Shown, Grouped, Holds, RingWork, LanesIn
    <3>4. Emptied(d)'
      BY <1>1, <3>1, <3>2 DEF Emptied, LanesIn
    <3> QED
      BY <3>3, <3>4
  <2> QED
    BY <2>2, <2>3
<1> QED
  BY <1>1, <1>5, <1>7, <1>8 DEF IsolatedInv, BoutTypeOK

-----------------------------------------------------------------------------
LEMMA IsolatedInvariance == RoundsSpec => []IsolatedInv
<1>1. RoundsInit => IsolatedInv
  <2> SUFFICES ASSUME RoundsInit PROVE IsolatedInv
    OBVIOUS
  <2>1. Draft \in Card /\ Nothing \in Environment /\ "idle" \in At /\ 0 \in 0..MaxBout
        /\ 0 \in 0..MaxFaults
    BY BoundsAssumption DEF Draft, Card, Nothing, Environment, Life, At
  <2>2. BoutTypeOK
    BY <2>1 DEF RoundsInit, Init, BoutTypeOK
  <2>3. \A b \in Bouts : card[b] = Draft /\ lane[b] = [l \in Lanes |-> "idle"] /\ b # 0
    BY DEF RoundsInit, Init, Bouts
  <2>4. \A l \in Lanes : env[l].maker = 0
    BY DEF RoundsInit, Init, Nothing
  <2>5. ASSUME NEW b \in Bouts
        PROVE  Fenced(b) /\ Shown(b) /\ Grouped(b) /\ Emptied(b)
    <3>1. Fenced(b) /\ Shown(b)
      BY <2>3 DEF Fenced, Shown, Holds, RingWork, Draft, Before
    <3>2. Grouped(b) /\ LanesIn(b, {"idle"})
      BY <2>3 DEF Grouped, Holds, LanesIn, Draft
    <3>3. ~Coming(b)
      BY DEF RoundsInit, Init, Coming
    <3>4. Emptied(b)
      BY <2>3, <2>4, <3>2, <3>3 DEF Emptied, LanesIn
    <3> QED
      BY <3>1, <3>2, <3>4
  <2> QED
    BY <2>2, <2>4, <2>5 DEF IsolatedInv, RoundsInit, Init
<1>2. ASSUME IsolatedInv, [RoundsNext]_<<vars, R6!raceVars>>
      PROVE  IsolatedInv'
  <2>1. CASE UNCHANGED vars
    <3>1. UNCHANGED <<ring, token, bouts, card, lane, env, flight, faults>>
      BY <2>1 DEF vars
    <3> QED
      BY <1>2, <3>1
         DEF IsolatedInv, BoutTypeOK, Fenced, Shown, Grouped, Emptied, Holds, RingWork, LanesIn,
             Coming
  <2>2. CASE Next
    <3>1. CASE \E l \in Lanes : Provider(l)
      BY <1>2, <3>1, ProviderKeeps
    <3>2. CASE \E f \in flight : Lands(f)
      BY <1>2, <3>2, LandsKeeps
    <3>3. ASSUME NEW b \in Bouts, CardStep(b) \/ Faults(b) \/ Operator(b) \/ RowEnds(b)
          PROVE  IsolatedInv'
      BY <1>2, <3>3, BoutKeeps, FenceKeeps, CancelledKeeps, LaneStepKeeps
         DEF CardStep, Faults, Operator
    <3>4. ASSUME NEW b \in Bouts, NEW l \in Lanes, LaneStep(b, l)
          PROVE  IsolatedInv'
      BY <1>2, <3>4, LaneStepKeeps
    <3> QED
      BY <2>2, <3>1, <3>2, <3>3, <3>4 DEF Next
  <2> QED
    BY <1>2, <2>1, <2>2 DEF RoundsNext, vars
<1> QED
  BY <1>1, <1>2, PTL DEF RoundsSpec

(* No task of a Round 2 bout can act once a later bout has claimed the      *)
(* ring, and its lanes are at work only while the row is the bout's: for    *)
(* any number of bouts and faults, whichever lanes they have.               *)
THEOREM LostWorkIsFenced == RoundsSpec => []WorkIsFenced
<1>1. IsolatedInv => WorkIsFenced
  <2> SUFFICES ASSUME IsolatedInv, NEW b \in Bouts
               PROVE  /\ RingWork(b) => bouts = b
                      /\ \A l \in Lanes : lane[b][l] # "idle" => ring = b
    BY DEF WorkIsFenced
  <2> QED
    BY OfBout DEF Fenced, Grouped, LanesIn
<1> QED
  BY <1>1, IsolatedInvariance, PTL

(* A Round 2 bout whose clean-up is confirmed has no environment left, nor  *)
(* a call on its way that would make one, whichever of its calls were       *)
(* abandoned and whenever they land.                                        *)
THEOREM CleanedLeavesNothing == RoundsSpec => []ReadyLeavesNothing
<1>1. IsolatedInv => ReadyLeavesNothing
  BY DEF IsolatedInv, Emptied, Coming, ReadyLeavesNothing, Of
<1> QED
  BY <1>1, IsolatedInvariance, PTL
=============================================================================
