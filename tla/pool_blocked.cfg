SPECIFICATION FairSpec
CONSTANTS
  Handlers = {h1, h2}
  PoolSize = 2
PROPERTIES
  UpdateReturns
