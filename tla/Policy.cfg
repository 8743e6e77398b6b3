SPECIFICATION Spec
CONSTANTS
  c1 = c1
  c2 = c2
  c3 = c3
  r1 = r1
  m1 = m1
  Callers = {r1, m1}
  Runs = {r1}
  Customers = {c1, c2, c3}
  Policies <- MCPolicies
  Reasons = {"dnc", "cap", "conflict", "fail_closed"}
  Searches <- MCSearches
  Blacklist = {c1}
  History <- MCHistory
  CampaignOf <- MCCampaignOf
  Channel = "email"
  NoPriority = NoPriority
  NoFlag = NoFlag
  SystemRule = SystemRule
  SystemReason = "fail_closed"
  MaxFaults = 2
INVARIANTS
  TypeOK
  DecisionsFollowPolicy
  InputsRespected
  ExportIsBest
CHECK_DEADLOCK FALSE
