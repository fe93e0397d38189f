----------------------------- MODULE MCSpikeBout -----------------------------
(* Bounded instance of SpikeBout: two processes, two bouts of which the    *)
(* first may ring, one fault.                                              *)
EXTENDS SpikeBout
=============================================================================
