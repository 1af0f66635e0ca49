-------------------------- MODULE MCResearchOutcomes --------------------------
(***************************************************************************)
(* Instances of ResearchOutcomes: a session before the model, the day of   *)
(* the model, and the sessions that follow.                                *)
(***************************************************************************)
EXTENDS ResearchOutcomes, TLC

Interchangeable == Permutations(Candidates) \union Permutations(Runners)
===============================================================================
