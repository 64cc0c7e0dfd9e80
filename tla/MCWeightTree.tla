---------------------------- MODULE MCWeightTree ----------------------------
(***************************************************************************)
(* Instances of WeightTree for TLC.                                        *)
(***************************************************************************)
EXTENDS WeightTree

CONSTANTS s1, s2, s3, c1, c2, u1, u2

NoServers == << >>
OneServer == <<s1>>
TwoServers == <<s1, s2>>
ThreeServers == <<s1, s2, s3>>
=============================================================================
