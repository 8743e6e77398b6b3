SPECIFICATION Spec
CONSTANTS
  s1 = s1
  s2 = s2
  r1 = r1
  Savers = {s1, s2}
  Runs = {r1}
  PolicyList <- MCPolicyList
  ProfileList <- MCProfileList
  TargetList <- MCTargetList
  BuiltInPolicy = "p1"
  Nothing = Nothing
  Length <- MCLength
  OldFiles <- MCOldFiles
  Saves <- MCSaves
  Requests <- MCRequests
  Catalog <- MCCatalog
  Earlier = 6
  Registries <- MCRegistries
  BundleVersion <- MCBundleVersion
  MaxChanges = 2
  MaxFaults = 1
SYMMETRY MCSymmetry
INVARIANTS
  TypeOK
  SavesAddUp
  BindingHoldsTogether
  UndisturbedBinding
CHECK_DEADLOCK FALSE
