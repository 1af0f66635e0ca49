-------------------------- MODULE MCDealerGexArchive --------------------------
(***************************************************************************)
(* An instance of DealerGexArchive: a long-lived scheduler instance and a  *)
(* process of the command line, each with its own connection.              *)
(***************************************************************************)
EXTENDS DealerGexArchive, TLC

CONSTANTS service, cli, c1, c2

OwnConnections == (service :> {c1} @@ cli :> {c2})
InterchangeableTickers == Permutations(Tickers)
===============================================================================
