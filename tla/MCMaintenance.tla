---------------------------- MODULE MCMaintenance ----------------------------
(* A small installation: one other round, Round 5 and its cleanup ring.     *)
EXTENDS Maintenance

MCRoundRing == {"other", "round5"}
=============================================================================
