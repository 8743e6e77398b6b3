----------------------------- MODULE BlueGreen -----------------------------
(***************************************************************************)
(* What the index lifecycle promises to a retrieval: an alias only ever    *)
(* serves a collection of its own embedding version that holds all of its  *)
(* points and has passed validation, and once it serves it never stops.    *)
(***************************************************************************)
CONSTANTS Aliases, Generations, AliasOf, NoGeneration

VARIABLES
  whole,    \* the collections that hold all of their points
  approved, \* the collections that have passed validation
  serving   \* alias -> the collection it serves

vars == << whole, approved, serving >>

Init ==
  /\ whole = {}
  /\ approved = {}
  /\ serving = [a \in Aliases |-> NoGeneration]

Build(g) ==
  /\ whole' = whole \cup {g}
  /\ UNCHANGED << approved, serving >>

Approve(g) ==
  /\ g \in whole
  /\ approved' = approved \cup {g}
  /\ UNCHANGED << whole, serving >>

Serve(g) ==
  /\ g \in approved
  /\ serving' = [serving EXCEPT ![AliasOf[g]] = g]
  /\ UNCHANGED << whole, approved >>

Next == \E g \in Generations : Build(g) \/ Approve(g) \/ Serve(g)

Spec == Init /\ [][Next]_vars
=============================================================================
