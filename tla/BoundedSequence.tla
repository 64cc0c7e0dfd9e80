-------------------------- MODULE BoundedSequence --------------------------
(***************************************************************************)
(* What BoundedQueue promises its users: a sequence of at most Cap items,  *)
(* top first, and what each call returns.                                  *)
(***************************************************************************)
EXTENDS Integers, Sequences

CONSTANTS Items, Cap,
          Null  \* what a call without a result, or without an item, returns

VARIABLES queue, ret

vars == <<queue, ret>>

Init == queue = << >> /\ ret = Null

Becomes(q, r) == queue' = q /\ ret' = r

HasRoom == Len(queue) < Cap

Push(x) ==
    \/ HasRoom /\ Becomes(Append(queue, x), TRUE)
    \/ ~HasRoom /\ Becomes(queue, FALSE)

(* The oldest item makes way for the new one. *)
ElimPush(x) ==
    \/ HasRoom /\ Becomes(Append(queue, x), Null)
    \/ ~HasRoom /\ Becomes(Append(Tail(queue), x), Null)

PushTop(x) ==
    \/ HasRoom /\ Becomes(<<x>> \o queue, TRUE)
    \/ ~HasRoom /\ Becomes(queue, FALSE)

Pop ==
    \/ queue # << >> /\ Becomes(Tail(queue), Head(queue))
    \/ queue = << >> /\ Becomes(queue, Null)

PopBottom ==
    \/ /\ queue # << >>
       /\ Becomes(SubSeq(queue, 1, Len(queue) - 1), queue[Len(queue)])
    \/ queue = << >> /\ Becomes(queue, Null)

Clear == Becomes(<< >>, Null)

(* The item at distance i from the top, and from the bottom. *)
Top(i) == Becomes(queue, IF i < Len(queue) THEN queue[i + 1] ELSE Null)
Bottom(i) ==
    Becomes(queue, IF i < Len(queue) THEN queue[Len(queue) - i] ELSE Null)

Next ==
    \/ \E x \in Items : Push(x) \/ ElimPush(x) \/ PushTop(x)
    \/ Pop \/ PopBottom \/ Clear
    \/ \E i \in 0 .. Cap : Top(i) \/ Bottom(i)

Spec == Init /\ [][Next]_vars
=============================================================================
