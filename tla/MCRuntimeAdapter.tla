--------------------------- MODULE MCRuntimeAdapter ---------------------------
(* One container name, so that every request races every other on it, and  *)
(* three request tasks, so that a create can be overtaken by a remove and  *)
(* a restart at once.                                                      *)
EXTENDS RuntimeAdapter, TLC

CONSTANTS c1, r1, r2, r3

MCIds == {c1}
MCReqs == {r1, r2, r3}

\* The request tasks are interchangeable.
MCSymmetry == Permutations(MCReqs)
=============================================================================
