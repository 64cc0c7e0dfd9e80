-------------------------- MODULE SnapshotRegister --------------------------
(***************************************************************************)
(* What DoublyBufferedData promises its users: one value that writers      *)
(* change atomically, one change after the other, and that each reader     *)
(* sees as a snapshot, which does not move while the reader holds it.      *)
(* There are no buffers, no locks and no waiting at this level.            *)
(***************************************************************************)
EXTENDS Sequences

CONSTANTS
    Threads,  \* the threads that read and modify
    Ops       \* the modifications they may ask for

VARIABLES
    value,    \* the modifications made so far, in order
    view      \* view[t]: << >>, or <<v>> while t holds the snapshot v

vars == <<value, view>>

Init ==
    /\ value = << >>
    /\ view = [t \in Threads |-> << >>]

(* A modification takes effect, at one instant, for every later snapshot. *)
Commit(o) ==
    /\ value' = Append(value, o)
    /\ UNCHANGED view

(* Thread t takes a snapshot of the current value. *)
Take(t) ==
    /\ view[t] = << >>
    /\ view' = [view EXCEPT ![t] = <<value>>]
    /\ UNCHANGED value

(* Thread t gives its snapshot back. *)
Drop(t) ==
    /\ view[t] # << >>
    /\ view' = [view EXCEPT ![t] = << >>]
    /\ UNCHANGED value

Next ==
    \/ \E o \in Ops : Commit(o)
    \/ \E t \in Threads : Take(t) \/ Drop(t)

Spec == Init /\ [][Next]_vars
=============================================================================
