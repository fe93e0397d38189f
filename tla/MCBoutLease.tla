---------------------------- MODULE MCBoutLease ----------------------------
(* Bounded instance of BoutLease: two sessions, one call each at a time.   *)
EXTENDS BoutLease, TLC

CONSTANTS checking, armed

(* The armed phase is granted for less than is left of a fresh check, so a *)
(* transition may also shorten the row's life.                             *)
MCTtl == (checking :> 2) @@ (armed :> 1)

MCMoves == {<<checking, armed>>}

Symmetry == Permutations(Session)
=============================================================================
