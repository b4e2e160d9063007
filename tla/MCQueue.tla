------------------------------ MODULE MCQueue -------------------------------
(* Queue with a ring of four slots and three pointers: the indices wrap    *)
(* several times and every fill level occurs at every position.            *)
EXTENDS Queue
=============================================================================
