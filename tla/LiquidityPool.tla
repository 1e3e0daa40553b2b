--------------------------- MODULE LiquidityPool ---------------------------
(***************************************************************************)
(* The LP vault, contracts/src/LiquidityPool.sol.  The pool is a record;   *)
(* each method is a guard (its requires, and the subtractions that would   *)
(* revert on underflow) and a function to the record after the call.       *)
(* internalAssets is the vault's own ledger of the tokens it accounts for: *)
(* LP equity (managedAssets) plus the stakes of open tickets               *)
(* (lockedUserRisk); reservedAssets is the part of the equity ring-fenced  *)
(* for open tickets.                                                       *)
(***************************************************************************)
EXTENDS Integers

EmptyPool(lps) ==
    [totalShares |-> 0, sharesOf |-> [lp \in lps |-> 0], internalAssets |-> 0,
     reservedAssets |-> 0, lockedUserRisk |-> 0,
     totalFeesEarned |-> 0, totalUserLossesReceived |-> 0]

ManagedAssets(pool) == pool.internalAssets - pool.lockedUserRisk

AvailableAssets(pool) == pool.internalAssets - pool.lockedUserRisk - pool.reservedAssets

\* The views subtract with overflow checks, so a negative value reverts the
\* call that needs it.
ManagedReadable(pool) == ManagedAssets(pool) >= 0
AvailableReadable(pool) == ManagedReadable(pool) /\ AvailableAssets(pool) >= 0

---------------------------------------------------------------------------
(* The calls of liquidity providers. *)

MintedShares(pool, amount) ==
    IF pool.totalShares = 0 THEN amount
    ELSE (amount * pool.totalShares) \div ManagedAssets(pool)

CanDeposit(pool, amount) ==
    /\ amount > 0
    /\ ManagedReadable(pool)
    /\ pool.totalShares = 0 \/ ManagedAssets(pool) > 0
    /\ MintedShares(pool, amount) > 0

Deposited(pool, lp, amount) ==
    LET minted == MintedShares(pool, amount)
    IN  [pool EXCEPT !.sharesOf[lp] = @ + minted,
                     !.totalShares = @ + minted,
                     !.internalAssets = @ + amount]

\* Mutant of AssetsFor: rounded in favour of whoever leaves.
AssetsRoundedUp(pool, shares) ==
    (shares * ManagedAssets(pool) + pool.totalShares - 1) \div pool.totalShares

AssetsFor(pool, shares) == (shares * ManagedAssets(pool)) \div pool.totalShares

\* Mutant of CanWithdraw: equity ring-fenced for tickets may leave.
CanWithdrawReserved(pool, lp, shares) ==
    /\ 0 < shares /\ shares <= pool.sharesOf[lp]
    /\ ManagedAssets(pool) > 0
    /\ AssetsFor(pool, shares) <= ManagedAssets(pool)

CanWithdraw(pool, lp, shares) ==
    /\ 0 < shares /\ shares <= pool.sharesOf[lp]
    /\ ManagedAssets(pool) > 0 /\ pool.totalShares > 0
    /\ AvailableReadable(pool)
    /\ AssetsFor(pool, shares) <= AvailableAssets(pool)

Withdrawn(pool, lp, shares) ==
    LET assets == AssetsFor(pool, shares)
    IN  [pool EXCEPT !.sharesOf[lp] = @ - shares,
                     !.totalShares = @ - shares,
                     !.internalAssets = @ - assets]

---------------------------------------------------------------------------
(* The calls of the engine and of the fee router. *)

CanReserve(pool, amount) == AvailableReadable(pool) /\ AvailableAssets(pool) >= amount

ReservedForTicket(pool, amount) == [pool EXCEPT !.reservedAssets = @ + amount]

RiskLocked(pool, amount) ==
    [pool EXCEPT !.lockedUserRisk = @ + amount, !.internalAssets = @ + amount]

FeeCredited(pool, amount) ==
    [pool EXCEPT !.internalAssets = @ + amount, !.totalFeesEarned = @ + amount]

\* The requires that payPayout, settleLoss and refundRisk open with.
CanRelease(pool, risk, reserved) ==
    pool.reservedAssets >= reserved /\ pool.lockedUserRisk >= risk

\* Mutant of Released: the reserve stays ring-fenced.
ReleasedRiskOnly(pool, risk, reserved) == [pool EXCEPT !.lockedUserRisk = @ - risk]

Released(pool, risk, reserved) ==
    [pool EXCEPT !.reservedAssets = @ - reserved, !.lockedUserRisk = @ - risk]

\* Mutant of PayoutPaid: the stake of the winner stays locked.
PayoutPaidRiskKept(pool, payout, reserved, risk) ==
    [pool EXCEPT !.reservedAssets = @ - reserved, !.internalAssets = @ - payout]

PayoutPaid(pool, payout, reserved, risk) ==
    [Released(pool, risk, reserved) EXCEPT !.internalAssets = @ - payout]

\* Mutant of LossSettled: the lost stake credited a second time.
LossSettledTwice(pool, risk, reserved) ==
    [Released(pool, risk, reserved) EXCEPT !.totalUserLossesReceived = @ + risk,
                                           !.internalAssets = @ + risk]

LossSettled(pool, risk, reserved) ==
    [Released(pool, risk, reserved) EXCEPT !.totalUserLossesReceived = @ + risk]

RiskRefunded(pool, risk, reserved) ==
    [Released(pool, risk, reserved) EXCEPT !.internalAssets = @ - risk]

=============================================================================
