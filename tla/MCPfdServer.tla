---------------------------- MODULE MCPfdServer ----------------------------
EXTENDS PfdServer, TLC

CONSTANTS s1, s2

(* Two handles: a session, and the one a later request gets. *)
MCSess == {s1, s2}

MCSymmetry == Permutations(MCSess)
====
