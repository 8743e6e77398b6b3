SPECIFICATION Spec
CONSTANTS
  e1 = e1
  e2 = e2
  v1 = v1
  v2 = v2
  v9 = v9
  Entities = {e1, e2}
  Versions = {v1}
  EntityOf <- MCEntityOf
  NoVersion = NoVersion
  Apis = {p1, p2}
  Operators = {u1}
  Bootstraps = {}
  MaxFaults = 1
SYMMETRY MCSymmetry
INVARIANTS
  TypeOK
  NoStageSkipped
  AuditClaimsAreTrue
  FirstActivationHadEvidence
CHECK_DEADLOCK FALSE
