--------------------------- MODULE MCMarketCycle ---------------------------
(***************************************************************************)
(* A small instance of MarketCycle: the one replica of the deployment.     *)
(***************************************************************************)
EXTENDS MarketCycle

CONSTANT p1

MCProcs == {p1}

=============================================================================
