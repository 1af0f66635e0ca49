SPECIFICATION Spec
CONSTANTS
  Tickers = {t1, t2}
  MaxManual = 0
SYMMETRY TickerSymmetry
INVARIANTS
  RadarCompleteMeansCovered
