SPECIFICATION Spec
CONSTANTS
  Emails = {"ann", "Ann", "bob"}
  Lower <- MCLower
  PlatformIds = {p1, p2, p3}
  Platforms = {p1, p2}
  Passwords = {"old", "new"}
  Names = {"A", "B"}
  UserIds = {u1, u2}
  Handlers = {h1, h2}
  SecretConfigured = TRUE
  AdminTokens <- MCAdminTokens
  RegisterRequests <- AllRegisters
  LoginRequests <- AllLogins
  UpdateRequests <- AllUpdates
  Faults = {"statement", "cancel"}
  Malformed = Malformed
  NULL = NULL
SYMMETRY Symmetry
INVARIANTS
  TypeOK
  OneAccountPerMailbox
  WritesStayAuthorized
  TokensKeepTheirScope
PROPERTIES
  OnlyAdminsSwitchAccounts
  NoLostUpdate
CHECK_DEADLOCK TRUE
