SPECIFICATION Spec
CONSTANTS
  Candidates = {c1}
  Scheduled = {c1}
  Runners = {r1, r2}
  Configs = {1, 2}
  Sessions = {0, 1, 2, 3, 4}
  Horizons = {1}
  ScaleChanges = {}
  HalfDay = 3
  FirstTime = 7
  MaxTime = 12
  MaxPayloads = 1
  MaxSurfaces = 1
INVARIANTS
  BaselineHasNoLookAhead
  ConflictHasLateCause
CHECK_DEADLOCK FALSE
SYMMETRY Interchangeable
