SPECIFICATION Spec
CONSTANTS
  Runs = {r1, r2}
  StagingRuns = {r1}
  Customers <- MCCustomers
  Jobs = {j1, j2, j3}
  NoJob = NoJob
  MaxFaults = 2
SYMMETRY JobSymmetry
INVARIANTS
  TypeOK
  FinishedJobLeavesNobodyOut
  CountsMatchRecords
  OutboxMatchesRecords
  ArtifactCoversRecords
  TrailEndsInStatus
  NoWaitCycle
PROPERTY
  RecordsAreKept
  KeepsLedger
CHECK_DEADLOCK FALSE
