SPECIFICATION Spec
CONSTANTS
  Candidates = {c1, c2}
  Scheduled = {c1, c2}
  Runners = {r1, r2}
  Sessions = {0, 1, 2, 3, 4}
  Horizons = {1, 2}
  ScaleChanges = {1}
  HalfDay = 3
  FirstTime = 6
  MaxTime = 12
  MaxPayloads = 2
  Configs = {1}
  MaxSurfaces = 0
INVARIANTS
  TypeOK
  OutcomeStartsAfterKnowledge
  OnePrimaryPerWindow
PROPERTIES
  MaturityIsFinal
CHECK_DEADLOCK FALSE
SYMMETRY Interchangeable
