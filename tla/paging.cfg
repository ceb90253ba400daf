SPECIFICATION Spec
CONSTANTS
  Rows = {r1, r2, r3, r4, r5}
  Keys = {1, 2, 3, 4, 5}
  Limit = 2
  MaxMoves = 2
  NULL = NULL
SYMMETRY Symmetry
INVARIANTS
  MissesAreBounded
