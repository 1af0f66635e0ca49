---------------------------- MODULE MCDailyEvidence ----------------------------
(***************************************************************************)
(* Instances of DailyEvidence: two tickers with one manual run beside the  *)
(* slots, or none, after a day that covered all, some or none of them.     *)
(***************************************************************************)
EXTENDS DailyEvidence, TLC

TickerSymmetry == Permutations(Tickers)
================================================================================
