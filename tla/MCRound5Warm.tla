----------------------------- MODULE MCRound5Warm -----------------------------
(* Instances of Round5Warm.                                                *)
EXTENDS Round5Warm, TLC

Symmetry == Permutations(Claim) \cup (IF Newer = {} THEN Permutations(Process) ELSE {})
=============================================================================
