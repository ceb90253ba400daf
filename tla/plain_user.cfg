SPECIFICATION Spec
CONSTANTS
  root = root
  admin = admin
  user = user
  other = other
  invite = invite
  p1 = p1
  p2 = p2
  Ids = {root, admin, user, other, invite}
  PlatformIds = {p1, p2}
  Records <- MCRecords
  Readers = {h1}
  NULL = NULL
INVARIANT
  OnlyAdminsSeeOthers
