--------------------------- MODULE GatewayLoopMC ---------------------------
(* Instances of GatewayLoop for TLC.                                        *)
EXTENDS GatewayLoop, TLC

CONSTANTS s1, s2, s3
SessionsSymmetry == Permutations(Sessions)
=============================================================================
