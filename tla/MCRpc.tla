------------------------------- MODULE MCRpc -------------------------------
(* A server with one loop and one method, and one with two loops that offers
   the same method and another one of the same service. *)
EXTENDS Rpc

CONSTANTS c1, s1, s2, v, m1, m2

MCOffers == [s \in Servers |-> IF s = s1 THEN {<<v, m1>>}
                               ELSE {<<v, m1>>, <<v, m2>>}]
MCLoops == [s \in Servers |-> IF s = s1 THEN 1 ELSE 2]
MCInputs == {<<v, m1, 1>>, <<v, m1, 3>>, <<v, m2, 0>>}
=============================================================================
