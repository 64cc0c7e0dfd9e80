--------------------------- MODULE CoroutineLife ---------------------------
(***************************************************************************)
(* What a Processor promises for the memory of each coroutine object: a    *)
(* block of the pool is handed to one creator at a time, the coroutine in  *)
(* it is started once, runs to its end, is destroyed once and only then    *)
(* may the block be used again.                                            *)
(***************************************************************************)
CONSTANT Blocks

VARIABLE life    \* the stage of each block

Init == life = [b \in Blocks |-> "free"]

Pass(b, from, to) == life[b] = from /\ life' = [life EXCEPT ![b] = to]

Next ==
    \E b \in Blocks :
        \/ Pass(b, "free", "created")     \* handed out and constructed
        \/ Pass(b, "created", "live")     \* started by the main loop
        \/ Pass(b, "live", "finished")    \* its function returned
        \/ Pass(b, "finished", "free")    \* destroyed, given back

Spec == Init /\ [][Next]_life
=============================================================================
