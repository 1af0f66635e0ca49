SPECIFICATION FairSpec
CONSTANTS
  TickerCount = 2
  SurfaceSize <- TwoThenOne
  MaxRuns = 2
  MaxAttempts = 5
  MaxRetries = 1
  MaxPolls = 2
  RecoveryCap = 1
INVARIANTS
  TypeOK
  RowsMatchChains
  CompleteMeansCovered
  BudgetRespected
  OmissionsAreExplicit
PROPERTIES
  ReplayNeverRewrites
  ArchiverEnds
