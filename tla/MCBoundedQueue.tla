--------------------------- MODULE MCBoundedQueue ---------------------------
(***************************************************************************)
(* Instances of BoundedQueue for TLC.                                      *)
(***************************************************************************)
EXTENDS BoundedQueue

CONSTANTS i1, i2, i3
=============================================================================
