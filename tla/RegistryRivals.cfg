SPECIFICATION Spec
CONSTANTS
  e1 = e1
  e2 = e2
  v1 = v1
  v2 = v2
  v9 = v9
  Entities = {e1, e2}
  Versions = {v1, v2, v9}
  EntityOf <- MCEntityOf
  NoVersion = NoVersion
  Apis = {}
  Operators = {}
  Bootstraps = {b1, b2, b3}
  MaxFaults = 1
SYMMETRY MCSymmetry
INVARIANTS
  OneActivePerEntity
  BootstrapsLeaveOneActive
CHECK_DEADLOCK FALSE
