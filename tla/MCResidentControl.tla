--------------------------- MODULE MCResidentControl ---------------------------
(* Instances of ResidentControl: one or two servers, which are alike.      *)
EXTENDS ResidentControl, TLC

Symmetry == Permutations(Server)
=============================================================================
