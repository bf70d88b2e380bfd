---------------------------- MODULE MCPfdClient ----------------------------
(* Model-checking instance of PfdClient: three session handles, so that   *)
(* a session can be replaced twice (offline/online cycles, failures).     *)
EXTENDS PfdClient, TLC

CONSTANTS s1, s2, s3

MCSess == {s1, s2, s3}

MCSymmetry == Permutations(MCSess)
=============================================================================
