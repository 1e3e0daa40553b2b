------------------------- MODULE MCMicroBoostEngine -------------------------
(***************************************************************************)
(* Small instances of the protocol.  BPS is 100 and PRICE_SCALE 100, so    *)
(* that stakes of a few units still produce fees, truncation, price        *)
(* impact and reserves of every size.                                      *)
(***************************************************************************)
EXTENDS KeepsPromises, TLC

CONSTANTS l1, l2, u1, u2, m1, m2

MCSchedule ==
    [m \in Markets |-> [openTime |-> 0, lockTime |-> 1,
                        observationStart |-> 1, observationEnd |-> 2]]

\* LPs can deposit once.
MCWallets == [u \in Users |-> 12]

\* LPs and traders start with equal wallets, markets with equal schedules.
MCSymmetry == Permutations(LPs) \cup Permutations(Traders) \cup Permutations(Markets)

Deployed == [lp |-> 60, insurance |-> 20, treasury |-> 20]
MCFeeSplits == {Deployed}

=============================================================================
