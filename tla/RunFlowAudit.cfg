SPECIFICATION FlowSpec
CONSTANTS
  a1 = a1
  a2 = a2
  g1 = g1
  g2 = g2
  g3 = g3
  r1 = r1
  r2 = r2
  Aliases = {a1, a2}
  Generations = {g1, g2, g3}
  AliasOf <- MCAliasOf
  NoGeneration = NoGeneration
  Operators = {r1, r2}
  MaxFaults = 0
  Runs = {r1, r2}
  DagRuns = {r2}
  StrictRuns = {r1}
  OwnCollection <- MCOwnCollection
  FlowAlias = a1
  NoRun = NoRun
  MaxTroubles = 0
INVARIANT
  AuditNamesSearchedIndex
CHECK_DEADLOCK FALSE
