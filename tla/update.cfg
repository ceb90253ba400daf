SPECIFICATION Spec
CONSTANTS
  Emails = {"root", "bob", "Bob"}
  Lower <- MCLower
  SuperAdminEmail = "root"
  PlatformIds = {p1, p2}
  Platforms = {p1, p2}
  AdminIds = {a1, a2}
  InviteIds = {i1}
  Handlers = {h1}
  RegisterRequests <- Registers
  LoginRequests <- RootSignsIn
  UpdateRequests <- Renames
  CreateRequests <- InviteBob
  DeleteScopes <- Unscoped
  Faults = {}
  SecretConfigured = TRUE
  Malformed = Malformed
  NULL = NULL
SYMMETRY SymmetryWithPlatforms
INVARIANTS
  UpdateReturnsTheRecord
