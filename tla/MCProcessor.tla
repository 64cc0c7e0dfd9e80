---------------------------- MODULE MCProcessor ----------------------------
(***************************************************************************)
(* Instances of Processor for TLC.  Each block's coroutine waits for a     *)
(* descriptor of its own, as each connection of the library has one        *)
(* coroutine.                                                              *)
(***************************************************************************)
EXTENDS Processor

CONSTANTS c1, c2, f1, f2

MCFds == {f1, f2}
MCFdOf == [c \in 1 .. NBlocks |-> IF c = 1 THEN f1 ELSE f2]
=============================================================================
