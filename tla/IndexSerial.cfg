SPECIFICATION Spec
CONSTANTS
  a1 = a1
  a2 = a2
  g1 = g1
  g2 = g2
  g3 = g3
  g4 = g4
  Aliases = {a1, a2}
  Generations = {g1, g2, g3, g4}
  AliasOf <- MCAliasOf
  NoGeneration = NoGeneration
  Operators = {p1}
  MaxFaults = 0
SYMMETRY MCSymmetry
INVARIANTS
  RollbackStack
  TrailNamesTarget
  RollbackLeavesGeneration
CHECK_DEADLOCK FALSE
