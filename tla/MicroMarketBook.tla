-------------------------- MODULE MicroMarketBook --------------------------
(***************************************************************************)
(* The price book of one open market under any sequence of trades.  The    *)
(* market is created from some seed and some pool size, opened, and then   *)
(* the engine reports every filled ticket with applyTradeImpact.  Risks    *)
(* are those MicroBoostEngine accepts; the lifecycle around the book is    *)
(* MicroBoostEngine's.                                                     *)
(***************************************************************************)
EXTENDS MicroMarket

CONSTANTS
    Seeds,       \* fair mids markets are created with
    PoolSizes,   \* managed assets of the pool at creation
    Risks,       \* stakes of a ticket
    MaxTraded    \* bound on the total stake traded, to keep runs finite

\* The bound the drift limit was derived from (MicroMarket.sol,
\* MAX_MID_DRIFT_BPS): a side pushed down by the whole drift still quotes at
\* its fair value.  700 bps against a 108% overround keep a margin.
ASSUME BandWithinMargin == (BPS - MAX_MID_DRIFT_BPS) * OVERROUND_BPS >= BPS * BPS

ASSUME TradeAssumption ==
    /\ Seeds \subseteq MIN_PRICE..MAX_PRICE
    /\ PoolSizes \subseteq Nat
    /\ Risks \subseteq Nat \ {0}
    /\ MaxTraded \in Nat

VARIABLE market

Init == \E seed \in Seeds, managed \in PoolSizes : market = Opened(Construct(seed, managed))

Trade(outcome, risk) ==
    /\ CanApplyTradeImpact(market, risk)
    /\ market.totalYesRisk + market.totalNoRisk + risk <= MaxTraded
    /\ market' = ApplyTradeImpact(market, outcome, risk)

Next == \E outcome \in Outcomes, risk \in Risks : Trade(outcome, risk)

Spec == Init /\ [][Next]_market

---------------------------------------------------------------------------

Books ==
    [status : {"Open"}, winningOutcome : {Unset}, impactLiquidity : Nat \ {0},
     seedMidYes : MIN_PRICE..MAX_PRICE, minMidYes : Nat, maxMidYes : Nat, fairMidYes : Nat,
     yesPrice : 1..PRICE_SCALE - 1, noPrice : 1..PRICE_SCALE - 1,
     totalYesRisk : Nat, totalNoRisk : Nat]

\* An open market: the mid lies in its band, the band around the seed and
\* within the rails, and QuoteMath can price both sides.
TypeOK ==
    /\ market \in Books
    /\ market.minMidYes \in MIN_PRICE..market.seedMidYes
    /\ market.maxMidYes \in market.seedMidYes..MAX_PRICE
    /\ market.fairMidYes \in market.minMidYes..market.maxMidYes

\* What the book remembers of its construction, and how its quotes follow
\* from its mid: the strengthening that makes the properties inductive.
BookInv ==
    /\ TypeOK
    /\ market.minMidYes = MinMid(market.seedMidYes)
    /\ market.maxMidYes = MaxMid(market.seedMidYes)
    /\ market.yesPrice = Quoted(market.fairMidYes)
    /\ market.noPrice = Quoted(PRICE_SCALE - market.fairMidYes)

\* No reachable book state quotes a side below the value the seed gave it,
\* under any sequence of legal trades: the drift band and the overround are
\* set in two places and only together make this true (README "Book
\* economics"; MicroMarket.sol, MAX_MID_DRIFT_BPS).
NeverBelowSeedFair ==
    /\ market.yesPrice >= market.seedMidYes
    /\ market.noPrice >= PRICE_SCALE - market.seedMidYes

\* The two quotes never sum to less than the scale, rails and clipping
\* included: holding both sides at boost 1x never pays more than it cost.
MarginIsNeverNegative == market.yesPrice + market.noPrice >= PRICE_SCALE

\* A purchase never makes the purchased side cheaper nor the other side
\* dearer.  A mid recovered from a clipped quote once inverted the book
\* (MicroMarket.sol, comment on fairMidYes).
BuyingNeverLowersItsPrice ==
    [][/\ market'.totalYesRisk > market.totalYesRisk =>
            market'.yesPrice >= market.yesPrice /\ market'.noPrice <= market.noPrice
       /\ market'.totalNoRisk > market.totalNoRisk =>
            market'.noPrice >= market.noPrice /\ market'.yesPrice <= market.yesPrice]_market

=============================================================================
