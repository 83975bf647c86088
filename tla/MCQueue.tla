------------------------------ MODULE MCQueue ------------------------------
(* Model-checking instances of Queue: the .cfg files give the constants.   *)
EXTENDS QueueRefinement

CONSTANTS w1, w2, w3, r1, p1, p2, j1, j2

=============================================================================
