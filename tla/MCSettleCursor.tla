--------------------------- MODULE MCSettleCursor ---------------------------
(***************************************************************************)
(* A small instance of SettleCursor: two processes and an administrator.   *)
(***************************************************************************)
EXTENDS SettleCursor

CONSTANTS c1, c2, admin

MCCycles == {c1, c2}
MCCallers == {admin}

=============================================================================
