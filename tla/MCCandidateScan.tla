---------------------------- MODULE MCCandidateScan ----------------------------
(***************************************************************************)
(* Instances of CandidateScan: two requests of the API, whose sessions     *)
(* share two connections, over a universe of two tickers.                  *)
(***************************************************************************)
EXTENDS CandidateScan, TLC

CONSTANTS first, second, c1, c2, t1, t2

Two == <<t1, t2>>
Requests == {first, second}
SharedConns == {c1, c2}
SharedPool == [s \in Requests |-> SharedConns]

\* Requests and connections of one process are interchangeable.
Interchangeable == Permutations(Requests) \union Permutations(SharedConns)
===============================================================================
