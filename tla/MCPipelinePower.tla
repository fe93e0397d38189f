--------------------------- MODULE MCPipelinePower ---------------------------
(* Instances of PipelinePower: one serving process that is restarted, with *)
(* one card of the round at a time or with two that overlap.               *)
EXTENDS PipelinePower, TLC

Symmetry == Permutations(Slot)

(* The behaviours in which an append is over before anything else happens: *)
(* for two overlapping cards, whose rows' delays one card already shows.   *)
Promptly == \A r \in Replica : pending[r] # {} => CommitRow(r) \/ LoseRow(r)

PromptSpec == Init /\ [][Next /\ Promptly]_vars
=============================================================================
