-------------------------- MODULE MCWeightedRandom --------------------------
(***************************************************************************)
(* An instance of WeightedRandom for TLC.                                  *)
(***************************************************************************)
EXTENDS WeightedRandom

CONSTANTS s1, s2, s3, c1, c2, u1

TwoServers == <<s1, s2>>
=============================================================================
