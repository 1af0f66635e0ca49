SPECIFICATION Spec
CONSTANTS
  Tickers = {t1, t2}
  MaxManual = 1
SYMMETRY TickerSymmetry
INVARIANTS
  ScannedArchiveIsFull
