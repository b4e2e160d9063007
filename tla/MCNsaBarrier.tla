---------------------------- MODULE MCNsaBarrier ----------------------------
(* NsaBarrier with numbers that wrap after four subframes and eight slots. *)
(* The model has no other bound: it is the whole state space.              *)
EXTENDS NsaBarrier
=============================================================================
