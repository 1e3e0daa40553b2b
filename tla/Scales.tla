------------------------------- MODULE Scales -------------------------------
(***************************************************************************)
(* The two fixed-point scales shared by the contracts: a price is a        *)
(* fraction of PRICE_SCALE (10^6 as deployed), a rate or a boost a number  *)
(* of basis points, BPS (10^4 as deployed) of which make one whole.        *)
(***************************************************************************)
EXTENDS Integers

CONSTANTS PRICE_SCALE, BPS

ASSUME ScaleAssumption == PRICE_SCALE \in Nat \ {0} /\ BPS \in Nat \ {0}

=============================================================================
