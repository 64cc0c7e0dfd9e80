-------------------------- MODULE MCDoublyBuffered --------------------------
(***************************************************************************)
(* Instances of DoublyBuffered for TLC: one processor thread, and two      *)
(* threads outside the scheduler that share the wrapper of threadIdx -1    *)
(* (the user's thread and ZooKeeper's watch thread, say).                  *)
(***************************************************************************)
EXTENDS DoublyBuffered

CONSTANTS p0, u1, u2, o1, o2

MCThreads == {p0, u1, u2}
MCKeys == {-1, 0}
MCKeyOf == [t \in MCThreads |-> IF t = p0 THEN 0 ELSE -1]

MCOps == {o1, o2}
=============================================================================
