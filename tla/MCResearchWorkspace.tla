------------------------- MODULE MCResearchWorkspace --------------------------
(* Three contracts of a ticker: one refreshed before, two that two refreshes walk *)
(* in opposite orders, one of them forced or not, and reprocessing; and one of    *)
(* another ticker, in the same transaction.                                       *)
EXTENDS ResearchWorkspace, TLC

CONSTANTS t1, t2, c1, c2, c3, c4, r1, r2, r3

TickerOfContract == [c \in {c1, c2, c3, c4} |-> IF c = c4 THEN t2 ELSE t1]
EarlierRefresh == r1 :> {c1}

CrossedCommands ==
  LET Ask(contracts, force, reuse) ==
        [contracts |-> contracts, force |-> force, reuse |-> reuse]
  IN r1 :> {}
  @@ r2 :> {Ask(<<c2, c3>>, FALSE, TRUE), Ask(<<c2, c4>>, TRUE, TRUE)}
  @@ r3 :> {Ask(<<c3, c2>>, FALSE, FALSE)}
===============================================================================
