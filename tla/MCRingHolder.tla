---------------------------- MODULE MCRingHolder ----------------------------
(* Bounded instance of RingHolder: two cards on one ring, in one process   *)
(* or in two.                                                              *)
EXTENDS RingHolder, TLC

MCTtl == (Checking :> 3) @@ (Armed :> 2) @@ (RunCommitted :> 3)

MCMoves == {<<Checking, Armed>>, <<Armed, RunCommitted>>}

OneProcess == [s \in Session |-> 1]

TwoProcesses == [s \in Session |-> s]

Symmetry == Permutations(Session)
=============================================================================
