SPECIFICATION Spec
CONSTANTS
  service = service
  cli = cli
  c1 = c1
  c2 = c2
  NoConn = NoConn
  Invocations = {service, cli}
  Scheduled = {service}
  LongLived = {service}
  Conns = {c1, c2}
  PoolOf <- OwnConnections
  Tickers = {t1, t2}
  NoTrading = {}
  MaxRetries = 1
  MaxAttempts = 2
  MaxUnits = 2
  MaxTime = 1
INVARIANTS
  TypeOK
  OneCaptureAtATime
  ReusedRunIsBacked
PROPERTIES
  ReportedAttemptsAreReal
  ConsumedSlotIsFree
  PastEvidenceIsSettled
SYMMETRY InterchangeableTickers
