------------------------- MODULE MCIndexLifecycle -------------------------
(* Three collections of one embedding version and one of another; callers  *)
(* that race or fail while they build, validate, promote and roll back.    *)
EXTENDS IndexLifecycle, TLC

CONSTANTS a1, a2, g1, g2, g3, g4

MCAliasOf == [g \in Generations |-> IF g = g4 THEN a2 ELSE a1]
MCSymmetry == Permutations(Generations \ {g4}) \cup Permutations(Operators)
===========================================================================
