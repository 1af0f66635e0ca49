SPECIFICATION FairSpec
CONSTANTS
  t1 = t1
  c1 = c1
  c2 = c2
  t2 = t2
  c3 = c3
  c4 = c4
  Nothing = Nothing
  r1 = r1
  r2 = r2
  r3 = r3
  Refreshes = {r1, r2, r3}
  Contracts = {c1, c2, c3, c4}
  TickerOf <- TickerOfContract
  Commands <- CrossedCommands
  Earlier <- EarlierRefresh
  Built = {c2}
  Endpoints = 2
  Window = 0
  MaxTime = 1
  MaxReleases = 1
INVARIANTS
  TypeOK
  ReusedEvidenceIsFresh
  ServedChainIsAligned
PROPERTY
  RefreshEnds
