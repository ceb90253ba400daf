SPECIFICATION Spec
CONSTANTS
  Emails = {"root", "bob", "Bob"}
  Lower <- MCLower
  SuperAdminEmail = "root"
  PlatformIds = {p1, p2}
  Platforms = {p1}
  AdminIds = {a1, a2}
  InviteIds = {i1, i2}
  Handlers = {h1}
  RegisterRequests <- AllRegisters
  LoginRequests <- AllSignIns
  UpdateRequests <- AllUpdates
  CreateRequests <- AllInvites
  DeleteScopes <- AllScopes
  Faults = {}
  SecretConfigured = TRUE
  Malformed = Malformed
  NULL = NULL
SYMMETRY Symmetry
INVARIANTS
  TypeOK
  OneAccountPerPlatform
  TokensMatchRows
  InvitersAreSuperadmins
CHECK_DEADLOCK TRUE
