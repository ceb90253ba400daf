SPECIFICATION LifeFairSpec
CONSTANTS
  Handlers = {h1, h2, h3}
  PoolSize = 2
INVARIANTS
  TypeOK
  ConnectionsConserved
  NotBlocked
  LifeTypeOK
  GraceIsKept
PROPERTIES
  OnlyCancelUnblocks
  ClosingOnlyDrains
  ShutdownEnds
