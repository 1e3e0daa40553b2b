----------------------------- MODULE QuoteMath -----------------------------
(***************************************************************************)
(* The integer arithmetic every ticket is priced with:                     *)
(* contracts/src/libraries/QuoteMath.sol and RiskLimits.sol, the fee curve *)
(* of MicroBoostEngine.calculateFee and the split of FeeRouter.routeFee.   *)
(* Solidity's unsigned division truncates, which \div does on naturals.    *)
(* The scales and rates are parameters, so that a run can use a coarse     *)
(* grid and a theorem can speak of all of them.                            *)
(***************************************************************************)
EXTENDS Scales

CONSTANTS
    BASE_FEE_BPS,    \* fee rate at boost 1x: 30 in the contract
    BOOST_FEE_BPS    \* extra rate per 1x of boost above 1x: 400

ASSUME FeeAssumption == BASE_FEE_BPS \in Nat /\ BOOST_FEE_BPS \in Nat

\* QuoteMath.payout's two requires.
Quotable(price, boostBps) ==
    /\ 0 < price /\ price < PRICE_SCALE
    /\ boostBps >= BPS

Payout(risk, price, boostBps) ==
    (risk * PRICE_SCALE * boostBps) \div (price * BPS)

\* The largest boost whose reserve fits in the available liquidity, before
\* the protocol clamps it.
RawMaxBoost(risk, price, available) ==
    ((risk + available) * price * BPS) \div (risk * PRICE_SCALE)

Fee(risk, boostBps) ==
    (risk * (BASE_FEE_BPS + ((boostBps - BPS) * BOOST_FEE_BPS) \div BPS)) \div BPS

ShareOf(amount, bps) == (amount * bps) \div BPS

=============================================================================
