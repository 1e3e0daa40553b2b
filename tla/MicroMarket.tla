---------------------------- MODULE MicroMarket ----------------------------
(***************************************************************************)
(* One YES/NO market, contracts/src/MicroMarket.sol: its lifecycle         *)
(*                                                                         *)
(*   Created -> Open -> Locked -> Resolved -> Archived                     *)
(*         \______|________|____-> Cancelled _____/                        *)
(*                                                                         *)
(* and its price book.  A market is a record; each method of the contract  *)
(* is a guard (its requires) and a function to the record after the call,  *)
(* so that one transaction can chain several calls.  Times are those of    *)
(* the record's schedule and of the block, `now'.                          *)
(***************************************************************************)
EXTENDS Scales

CONSTANTS
    MIN_PRICE, MAX_PRICE, \* hard rails of the fair mid: 5% and 95%
    OVERROUND_BPS,        \* quoted price / fair price: 10800
    MAX_IMPACT,           \* largest move of the mid in one trade: 12%
    MAX_MID_DRIFT_BPS,    \* drift band, in bps of the cheaper side: 700
    IMPACT_DEPTH_DIVISOR, \* book depth = managed assets / this: 20
    MIN_IMPACT_LIQUIDITY  \* floor of the book depth: 5000 USDC

ASSUME BookAssumption ==
    /\ MIN_PRICE \in Nat \ {0} /\ MAX_PRICE \in Nat
    /\ MIN_PRICE <= MAX_PRICE /\ MAX_PRICE < PRICE_SCALE
    /\ OVERROUND_BPS \in Nat
    /\ MAX_IMPACT \in Nat
    /\ MAX_MID_DRIFT_BPS \in 0..BPS
    /\ IMPACT_DEPTH_DIVISOR \in Nat \ {0}
    /\ MIN_IMPACT_LIQUIDITY \in Nat \ {0}

YES == 1
NO == 2
Outcomes == {YES, NO}
Unset == 0

Statuses == {"None", "Created", "Open", "Locked", "Resolved", "Cancelled", "Archived"}
Schedules ==
    {s \in [openTime: Nat, lockTime: Nat, observationStart: Nat, observationEnd: Nat] :
        /\ s.openTime <= s.lockTime
        /\ s.lockTime <= s.observationStart
        /\ s.observationStart <= s.observationEnd}

---------------------------------------------------------------------------
(* The book. *)

\* Mutant of Drift: the band taken from the YES side whichever is cheaper.
DriftOfYes(seed) == (seed * MAX_MID_DRIFT_BPS) \div BPS

\* The band the fair mid is confined to for the life of the market.
Drift(seed) ==
    LET cheaperSide == IF seed < PRICE_SCALE - seed THEN seed ELSE PRICE_SCALE - seed
    IN  (cheaperSide * MAX_MID_DRIFT_BPS) \div BPS

MinMid(seed) == IF seed - Drift(seed) < MIN_PRICE THEN MIN_PRICE ELSE seed - Drift(seed)
MaxMid(seed) == IF seed + Drift(seed) > MAX_PRICE THEN MAX_PRICE ELSE seed + Drift(seed)

\* Mutant of ClampMid: the upper end of the band forgotten.
ClampMidBelow(mkt, mid) == IF mid < mkt.minMidYes THEN mkt.minMidYes ELSE mid

ClampMid(mkt, mid) ==
    IF mid < mkt.minMidYes THEN mkt.minMidYes
    ELSE IF mid > mkt.maxMidYes THEN mkt.maxMidYes ELSE mid

\* Mutant of Quoted: the overround divided out instead of multiplied in.
QuotedAtDiscount(fair) == (fair * BPS) \div OVERROUND_BPS

\* The price quoted for a side whose fair value is `fair'.
Quoted(fair) ==
    LET raw == (fair * OVERROUND_BPS) \div BPS
        top == IF raw >= PRICE_SCALE THEN PRICE_SCALE - 1 ELSE raw
    IN  IF top < MIN_PRICE THEN MIN_PRICE ELSE top

SetQuotedFromMid(mkt, mid) ==
    LET clamped == ClampMid(mkt, mid)
    IN  [mkt EXCEPT !.fairMidYes = clamped,
                    !.yesPrice = Quoted(clamped),
                    !.noPrice = Quoted(PRICE_SCALE - clamped)]

\* The depth of the book, from the capital underwriting it at creation.
SizeBook(managed) ==
    LET sized == managed \div IMPACT_DEPTH_DIVISOR
    IN  IF sized > MIN_IMPACT_LIQUIDITY THEN sized ELSE MIN_IMPACT_LIQUIDITY

Impact(mkt, risk) ==
    LET depth == mkt.impactLiquidity + mkt.totalYesRisk + mkt.totalNoRisk
        linear == (risk * PRICE_SCALE) \div (depth * 2)
    IN  IF linear > MAX_IMPACT THEN MAX_IMPACT ELSE linear

CanApplyTradeImpact(mkt, risk) == mkt.status = "Open" /\ risk > 0

\* Mutant of MovedMid: the mid recovered from the quote, which may be clipped.
MovedQuote(mkt, outcome, risk) ==
    LET mid == (mkt.yesPrice * BPS) \div OVERROUND_BPS
        impact == Impact(mkt, risk)
    IN  IF outcome = YES THEN mid + impact
        ELSE IF mid > impact THEN mid - impact ELSE 0

\* Where a trade pushes the mid, before the band stops it.
MovedMid(mkt, outcome, risk) ==
    LET impact == Impact(mkt, risk)
        mid == mkt.fairMidYes
    IN  IF outcome = YES THEN mid + impact
        ELSE IF mid > impact THEN mid - impact ELSE 0

ApplyTradeImpact(mkt, outcome, risk) ==
    LET traded == IF outcome = YES THEN [mkt EXCEPT !.totalYesRisk = @ + risk]
                  ELSE [mkt EXCEPT !.totalNoRisk = @ + risk]
    IN  SetQuotedFromMid(traded, ClampMid(mkt, MovedMid(mkt, outcome, risk)))

PriceForOutcome(mkt, outcome) == IF outcome = YES THEN mkt.yesPrice ELSE mkt.noPrice

---------------------------------------------------------------------------
(* The lifecycle. *)

\* An address at which the factory has deployed nothing.
NoMarket ==
    [status |-> "None", winningOutcome |-> Unset, impactLiquidity |-> 0,
     seedMidYes |-> 0, minMidYes |-> 0, maxMidYes |-> 0, fairMidYes |-> 0,
     yesPrice |-> 0, noPrice |-> 0, totalYesRisk |-> 0, totalNoRisk |-> 0]

Construct(seed, managed) ==
    SetQuotedFromMid(
        [NoMarket EXCEPT !.status = "Created", !.impactLiquidity = SizeBook(managed),
                         !.seedMidYes = seed, !.minMidYes = MinMid(seed),
                         !.maxMidYes = MaxMid(seed)],
        seed)

CanOpen(mkt, schedule, now) == mkt.status = "Created" /\ now <= schedule.lockTime
CanLock(mkt, schedule, now) == mkt.status = "Open" /\ now >= schedule.lockTime

\* Mutant of CanResolve: a resolved market resolves again.
CanResolveAgain(mkt, schedule, now) ==
    /\ mkt.status \in {"Open", "Locked", "Resolved"}
    /\ now >= schedule.observationEnd

\* resolve() first locks a market that is still Open.
CanResolve(mkt, schedule, now) ==
    /\ \/ mkt.status = "Locked"
       \/ mkt.status = "Open" /\ now >= schedule.lockTime
    /\ now >= schedule.observationEnd

\* Mutant of CanCancel: a resolved market can still be cancelled.
CanCancelResolved(mkt) == mkt.status \notin {"None", "Archived"}

\* Every registered market that is not final, a cancelled one included.
CanCancel(mkt) == mkt.status \notin {"None", "Resolved", "Archived"}
\* Mutant of CanArchive: the engine is not asked about open exposure.
CanArchiveAnyTime(mkt, noExposure) == mkt.status \in {"Resolved", "Cancelled"}

CanArchive(mkt, noExposure) == mkt.status \in {"Resolved", "Cancelled"} /\ noExposure

CanBuy(mkt, schedule, now) ==
    /\ mkt.status = "Open"
    /\ now >= schedule.openTime
    /\ now < schedule.lockTime

Opened(mkt) == [mkt EXCEPT !.status = "Open"]
Locked(mkt) == [mkt EXCEPT !.status = "Locked"]
Resolved(mkt, outcome) == [mkt EXCEPT !.winningOutcome = outcome, !.status = "Resolved"]
Cancelled(mkt) == [mkt EXCEPT !.status = "Cancelled"]
Archived(mkt) == [mkt EXCEPT !.status = "Archived"]

=============================================================================
