SPECIFICATION Spec
CONSTANTS
  TickerCount = 2
  SurfaceSize <- TwoThenOne
  MaxRuns = 1
  MaxAttempts = 3
  MaxRetries = 0
  MaxPolls = 2
  RecoveryCap = 1
INVARIANT FinishedRunClosesItsTickers
