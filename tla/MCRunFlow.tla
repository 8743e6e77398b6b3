----------------------------- MODULE MCRunFlow -----------------------------
(* A run of the API and a run of the DAG; one call raises, one process     *)
(* dies, or one of them serves an admin before or after its run.  g3 is    *)
(* for make, whose alias is another.                                       *)
EXTENDS RunFlow

CONSTANTS a1, a2, g1, g2, g3, r1, r2

MCAliasOf == [g \in Generations |-> IF g = g3 THEN a2 ELSE a1]
MCOwnCollection == [r \in Runs |-> IF r = r1 THEN g1 ELSE g2]
=============================================================================
