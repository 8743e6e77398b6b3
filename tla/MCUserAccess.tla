---------------------------- MODULE MCUserAccess ----------------------------
(* Two threads of the console and a bootstrap on one user, who is also the *)
(* administrator of the environment.                                       *)
EXTENDS UserAccess, TLC

CONSTANTS a, p1, p2, t1, t2, b1

Offer(op, names, flag, password) ==
  [op |-> op, user |-> a, roles |-> names, flag |-> flag, password |-> password]
MCOffers ==
  { Offer("login", << >>, FALSE, p1),
    Offer("create", << "ml_analyst", Admin >>, FALSE, p1),
    Offer("create", << "auditor" >>, TRUE, p1),
    Offer("set_active", << >>, TRUE, p1), Offer("set_active", << >>, FALSE, p1),
    Offer("assign", << "ml_analyst" >>, FALSE, p1),
    Offer("remove", << Admin >>, FALSE, p1),
    Offer("reset_password", << >>, FALSE, p2),
    Offer("evidence", << >>, FALSE, p1) }
MCSymmetry == Permutations(Threads)
MCUpgrade == [u \in Users |-> p1]
=============================================================================
