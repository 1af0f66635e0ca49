--------------------------- MODULE MCDailyOiArchive ---------------------------
(***************************************************************************)
(* Instances of DailyOiArchive: a ticker of two expiries, then one of one, *)
(* so that the budget and the run's recovery cap are reached in the middle *)
(* of the normal pass, of the polls, of recovery and of a replay.          *)
(***************************************************************************)
EXTENDS DailyOiArchive

TwoThenOne == <<2, 1>>
===============================================================================
