---------------------------- MODULE MCDelivery ----------------------------
(* Three executions over one run whose export writes staging and one whose *)
(* export does not: enough for a winner, a loser and a retry of one key.   *)
EXTENDS Delivery, TLC

MCCustomers == 1..2
JobSymmetry == Permutations(Jobs)
===========================================================================
