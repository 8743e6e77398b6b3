---------------------------- MODULE MCRegistry ----------------------------
(* v1 and v2 are versions of one entity, v9 is one of another.             *)
EXTENDS Registry, TLC

CONSTANTS e1, e2, v1, v2, v9

MCEntityOf == [v \in Versions |-> IF v = v9 THEN e2 ELSE e1]
MCSymmetry == Permutations(Versions \ {v9}) \cup Permutations(Apis)
                \cup Permutations(Operators) \cup Permutations(Bootstraps)
===========================================================================
