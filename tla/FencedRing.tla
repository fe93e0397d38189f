----------------------------- MODULE FencedRing -----------------------------
(***************************************************************************)
(* What the coordination store promises about one ring, with no database,  *)
(* no clock and no network in it.                                          *)
(*                                                                         *)
(* A ring is held in tenures.  The n-th tenure is the one whose claim was  *)
(* answered with fencing token n, and `fate` records what became of each:  *)
(* it is open, its holder released it, or it lapsed.  Only the last tenure *)
(* can be open, and a tenure that ended never opens again.                 *)
(***************************************************************************)
EXTENDS Naturals, Sequences

VARIABLE fate          \* fate[n]: what became of the tenure with token n

Fates == {"open", "released", "lapsed"}

Newest == Len(fate)

Held == Newest > 0 /\ fate[Newest] = "open"

-----------------------------------------------------------------------------
Init == fate = <<>>

(* A claim opens the next tenure, and only when no tenure is open.         *)
Open == ~Held /\ fate' = Append(fate, "open")

(* The open tenure ends: its holder gives it back, or its time runs out.   *)
End(how) == Held /\ fate' = [fate EXCEPT ![Newest] = how]

Next == Open \/ End("released") \/ End("lapsed")

Spec == Init /\ [][Next]_fate

-----------------------------------------------------------------------------
TypeOK == fate \in Seq(Fates)

(* At most one tenure of a ring is ever open: two claims answered with two *)
(* fencing tokens are never both in force.                                 *)
OneTenure ==
  \A m, n \in 1..Len(fate) : fate[m] = "open" /\ fate[n] = "open" => m = n

(* A tenure that was released or lapsed stays ended, the same way: no      *)
(* write revives a lapsed lease, and no release is taken back.             *)
EndedStaysEnded ==
  [][\A n \in 1..Len(fate) :
       fate[n] # "open" => n <= Len(fate') /\ fate'[n] = fate[n]]_fate

-----------------------------------------------------------------------------
(* Every tenure but the last has ended.  With the type it is inductive.    *)
OnlyNewestOpen == \A n \in 1..Len(fate) : fate[n] = "open" => n = Len(fate)

Inv == TypeOK /\ OnlyNewestOpen
=============================================================================
