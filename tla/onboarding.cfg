SPECIFICATION FairSpec
CONSTANTS
  Emails = {"root", "bob", "Bob"}
  Lower <- MCLower
  SuperAdminEmail = "root"
  PlatformIds = {p1, p2, p3}
  Platforms = {p1, p2, p3}
  AdminIds = {a1, a2, a3, a4}
  InviteIds = {i1}
  Handlers = {h1, h2}
  RegisterRequests <- Registers
  LoginRequests <- RootSignsIn
  UpdateRequests <- NoUpdates
  CreateRequests <- InviteBobToOne
  DeleteScopes <- Unscoped
  Faults = {}
  SecretConfigured = TRUE
  Malformed = Malformed
  NULL = NULL
INVARIANTS
  OverrunBound
PROPERTIES
  AdmissionConsumesInvite
  AnsweredInvitesAdmitNobody
CHECK_DEADLOCK TRUE
