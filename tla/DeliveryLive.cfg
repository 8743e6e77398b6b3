SPECIFICATION FairSpec
CONSTANTS
  Runs = {r1}
  StagingRuns = {r1}
  Customers <- MCCustomers
  Jobs = {j1, j2}
  NoJob = NoJob
  MaxFaults = 1
PROPERTY
  EveryExecutionEnds
CHECK_DEADLOCK FALSE
