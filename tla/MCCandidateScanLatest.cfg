SPECIFICATION Spec
CONSTANTS
  first = first
  second = second
  c1 = c1
  c2 = c2
  t1 = t1
  t2 = t2
  NoConn = NoConn
  Scans <- Requests
  LongLived <- Requests
  Conns <- SharedConns
  PoolOf <- SharedPool
  Universe <- Two
  MaxDeep = 1
  MaxAttempts = 4
  Fresh = {}
  RadarTickers = {t1}
INVARIANTS
  RunStateIsTruthful
