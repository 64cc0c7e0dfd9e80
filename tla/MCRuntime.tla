------------------------------ MODULE MCRuntime ------------------------------
(* Two threads, three coroutines, two processors; one tid is past the last
   processor. *)
EXTENDS Runtime

CONSTANTS t1, t2, k1, k2, k3

MCTids == {-1, 3}
=============================================================================
