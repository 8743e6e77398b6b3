SPECIFICATION Spec
CONSTANTS
  a = a
  p1 = p1
  p2 = p2
  t1 = t1
  t2 = t2
  b1 = b1
  Users = {a}
  Passwords = {p1, p2}
  Threads = {t1, t2}
  Bootstraps = {b1}
  BootUser = a
  BootPassword = p1
  NoPassword = NoPassword
  Env = Env
  EnvUser = a
  EnvPassword = p1
  Offers <- MCOffers
  Idle = Idle
  Upgrade <- MCUpgrade
  MaxFaults = 1
SYMMETRY MCSymmetry
INVARIANTS
  TypeOK
  DeactivationBites
  PasswordSetStays
  BootstrapLeavesAdmin
CHECK_DEADLOCK FALSE
