SPECIFICATION Spec
CONSTANTS
  PlatformIds = {p1, p2, p3}
  Names = {"A", "B"}
  Domains = {"site", "Site", "shop", "not a domain"}
  Lower <- MCLower
  Storable = {"site", "Site", "shop"}
  SecretConfigured = TRUE
  Faults = {"statement"}
  NULL = NULL
SYMMETRY Symmetry
INVARIANTS
  TypeOK
  OneDomain
PROPERTIES
  ReferencesStay
CHECK_DEADLOCK TRUE
