SPECIFICATION Spec
CONSTANTS
  Emails = {"root", "bob", "Bob"}
  Lower <- MCLower
  SuperAdminEmail = "root"
  PlatformIds = {p1, p2}
  Platforms = {p1, p2}
  AdminIds = {a1, a2, a3}
  InviteIds = {i1, i2}
  Handlers = {h1, h2}
  RegisterRequests <- Registers
  LoginRequests <- RootSignsIn
  UpdateRequests <- NoUpdates
  CreateRequests <- InviteBobAndRoot
  DeleteScopes <- Unscoped
  Faults = {"statement", "cancel"}
  SecretConfigured = TRUE
  Malformed = Malformed
  NULL = NULL
SYMMETRY SymmetryWithPlatforms
INVARIANTS
  InvitedBeforeAdmitted
  UsedInviteHasAccount
  OneSuperadmin
  OneAccountPerPlatform
  RepliesTellTheTruth
PROPERTIES
  KeepsTheGate
CHECK_DEADLOCK TRUE
