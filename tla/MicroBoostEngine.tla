-------------------------- MODULE MicroBoostEngine --------------------------
(***************************************************************************)
(* The on-chain protocol: MicroBoostEngine.sol with the contracts it       *)
(* composes -- the markets of MicroMarketFactory, the LP vault, the ticket *)
(* registry, the fee router and the USDC ledger.  Every action is one      *)
(* transaction; a transaction whose requires fail reverts and is no step.  *)
(* settleBatch is a run of settlement steps in one transaction, each       *)
(* skipped when it would revert, so it adds no behaviour of its own.       *)
(***************************************************************************)
EXTENDS QuoteMath, MicroMarket, LiquidityPool, Totals

CONSTANTS
    LPs, Traders, Markets,
    Pool, Router, Insurance, Treasury,  \* addresses of the contracts
    MaxTickets,     \* bound on tickets minted
    MaxTime,        \* bound on block.timestamp
    Schedule,       \* the times each market is created with
    Seeds,          \* fair mids markets are created with
    Risks, Boosts,  \* stakes and boosts asked for
    Deposits,       \* amounts deposited or donated
    ShareLots,      \* lots of shares withdrawn, besides a whole holding
    Wallets,        \* initial USDC of each LP and trader
    FeeSplits,      \* fee splits the owner configures, the first one deployed
    FirstSplit,
    MIN_USER_RISK_PER_TICKET, MAX_USER_RISK_PER_TICKET,  \* 0.25 and 100 USDC
    MAX_PAYOUT_PER_TICKET,                               \* 2500 USDC
    MAX_BOOST_BPS,                                       \* 5x
    CAP_BPS         \* share of managed assets one market, one outcome or one
                    \* user may reserve: 8000 for all three

Users == LPs \cup Traders
Contracts == {Pool, Router, Insurance, Treasury}
Accounts == Users \cup Contracts
TicketIds == 1..MaxTickets

Splits == {s \in [lp: 0..BPS, insurance: 0..BPS, treasury: 0..BPS] :
              s.lp + s.insurance + s.treasury = BPS}

ASSUME ProtocolAssumption ==
    /\ IsFiniteSet(Users) /\ IsFiniteSet(Markets)
    /\ Pool \notin {Router, Insurance, Treasury}
    /\ Router \notin {Insurance, Treasury} /\ Insurance # Treasury
    /\ Users \cap Contracts = {}
    /\ MaxTickets \in Nat /\ MaxTime \in Nat
    /\ Schedule \in [Markets -> Schedules]
    /\ Seeds \subseteq MIN_PRICE..MAX_PRICE
    /\ Risks \subseteq Nat /\ Boosts \subseteq Nat
    /\ Deposits \subseteq Nat \ {0} /\ ShareLots \subseteq Nat
    /\ Wallets \in [Users -> Nat]
    /\ FeeSplits \subseteq Splits /\ FirstSplit \in FeeSplits
    /\ MIN_USER_RISK_PER_TICKET \in Nat \ {0}
    /\ MAX_USER_RISK_PER_TICKET \in Nat
    /\ MAX_PAYOUT_PER_TICKET \in Nat /\ MAX_BOOST_BPS \in Nat
    /\ CAP_BPS \in 0..BPS

VARIABLES
    now,              \* block.timestamp
    paused,
    feeSplit,
    market,           \* market[m]: the contract at address m, see MicroMarket
    exposure,         \* marketExposure[m]
    userReserveUsed,
    ticket,           \* PositionTicket.tickets
    totalSupply,
    pool,             \* see LiquidityPool
    usdc              \* token balances

admin == <<paused, feeSplit>>
book == <<market, exposure, userReserveUsed>>
positions == <<ticket, totalSupply>>
vars == <<now, admin, book, positions, pool, usdc>>

NoExposure ==
    [totalUserRisk |-> 0, payoutIfYes |-> 0, payoutIfNo |-> 0,
     reserveIfYes |-> 0, reserveIfNo |-> 0, lpReserveAllocated |-> 0]

\* An id that was never minted reads as zeroes.
ZeroAddress == "0x0"
NoTicket ==
    [status |-> "None", market |-> ZeroAddress, owner |-> ZeroAddress,
     outcome |-> Unset, riskAmount |-> 0, payout |-> 0, reservedAmount |-> 0]

Init ==
    /\ now = 0
    /\ paused = FALSE
    /\ feeSplit = FirstSplit
    /\ market = [m \in Markets |-> NoMarket]
    /\ exposure = [m \in Markets |-> NoExposure]
    /\ userReserveUsed = [u \in Users |-> 0]
    /\ ticket = [t \in TicketIds |-> NoTicket]
    /\ totalSupply = 0
    /\ pool = EmptyPool(LPs)
    /\ usdc = [a \in Accounts |-> IF a \in Users THEN Wallets[a] ELSE 0]

Tick ==
    /\ now < MaxTime
    /\ now' = now + 1
    /\ UNCHANGED <<admin, book, positions, pool, usdc>>

---------------------------------------------------------------------------
(* The token. *)

Transferred(balances, from, to, amount) ==
    [balances EXCEPT ![from] = @ - amount, ![to] = @ + amount]

\* A plain transfer to the vault: the tokens arrive, no ledger hears of it.
Donate(from, amount) ==
    /\ from # Pool /\ usdc[from] >= amount
    /\ usdc' = Transferred(usdc, from, Pool, amount)
    /\ UNCHANGED <<now, admin, book, positions, pool>>

---------------------------------------------------------------------------
(* The owner: pausing, the fee split, the insurance fund. *)

SetPaused(p) ==
    /\ paused' = p
    /\ UNCHANGED <<now, feeSplit, book, positions, pool, usdc>>

SetFeeSplit(split) ==
    /\ feeSplit' = split
    /\ UNCHANGED <<now, paused, book, positions, pool, usdc>>

\* The owner recovers the fees accrued in the insurance fund.
WithdrawInsurance(amount) ==
    /\ usdc[Insurance] >= amount
    /\ usdc' = Transferred(usdc, Insurance, Treasury, amount)
    /\ UNCHANGED <<now, admin, book, positions, pool>>

---------------------------------------------------------------------------
(* Liquidity providers. *)

Deposit(lp, amount) ==
    /\ CanDeposit(pool, amount)
    /\ usdc[lp] >= amount
    /\ pool' = Deposited(pool, lp, amount)
    /\ usdc' = Transferred(usdc, lp, Pool, amount)
    /\ UNCHANGED <<now, admin, book, positions>>

Withdraw(lp, shares) ==
    /\ CanWithdraw(pool, lp, shares)
    /\ usdc[Pool] >= AssetsFor(pool, shares)
    /\ pool' = Withdrawn(pool, lp, shares)
    /\ usdc' = Transferred(usdc, Pool, lp, AssetsFor(pool, shares))
    /\ UNCHANGED <<now, admin, book, positions>>

---------------------------------------------------------------------------
(* The life of a market: the factory, the owner and the oracle. *)

MarketHasNoExposure(m) ==
    exposure[m].lpReserveAllocated = 0 /\ exposure[m].totalUserRisk = 0

MarketBecomes(m, mkt) ==
    /\ market' = [market EXCEPT ![m] = mkt]
    /\ UNCHANGED <<now, admin, exposure, userReserveUsed, positions, pool, usdc>>

\* The factory deploys and registers the market; the book is sized from the
\* vault, at the floor when its equity cannot be read.
CreateMarket(m, seed) ==
    /\ market[m].status = "None"
    /\ MarketBecomes(m, Construct(seed, IF ManagedReadable(pool) THEN ManagedAssets(pool) ELSE 0))

OpenMarket(m) ==
    CanOpen(market[m], Schedule[m], now) /\ MarketBecomes(m, Opened(market[m]))

LockMarket(m) ==
    CanLock(market[m], Schedule[m], now) /\ MarketBecomes(m, Locked(market[m]))

\* Directly, or through OracleAdapter.submitResult.
ResolveMarket(m, outcome) ==
    CanResolve(market[m], Schedule[m], now) /\ MarketBecomes(m, Resolved(market[m], outcome))

\* Directly, or through OracleAdapter.cancelMarket.
CancelMarket(m) ==
    CanCancel(market[m]) /\ MarketBecomes(m, Cancelled(market[m]))

ArchiveMarket(m) ==
    CanArchive(market[m], MarketHasNoExposure(m)) /\ MarketBecomes(m, Archived(market[m]))


---------------------------------------------------------------------------
(* Exposure: what open tickets may cost, per market, outcome and user. *)

ReserveIf(x, outcome) == IF outcome = YES THEN x.reserveIfYes ELSE x.reserveIfNo

ReserveCap == ShareOf(ManagedAssets(pool), CAP_BPS)

WithinCaps(m, user, outcome, reserve) ==
    /\ exposure[m].lpReserveAllocated + reserve <= ReserveCap
    /\ userReserveUsed[user] + reserve <= ReserveCap
    /\ ReserveIf(exposure[m], outcome) + reserve <= ReserveCap

\* Whichever side wins, stakes and reserves of the market cover it.
Covered(x) ==
    LET maxPayout == IF x.payoutIfYes > x.payoutIfNo THEN x.payoutIfYes ELSE x.payoutIfNo
    IN  maxPayout <= x.totalUserRisk + x.lpReserveAllocated

WithTicket(x, outcome, risk, payout, reserve) ==
    LET yes == outcome = YES
    IN  [x EXCEPT !.totalUserRisk = @ + risk,
                  !.lpReserveAllocated = @ + reserve,
                  !.payoutIfYes = IF yes THEN @ + payout ELSE @,
                  !.reserveIfYes = IF yes THEN @ + reserve ELSE @,
                  !.payoutIfNo = IF yes THEN @ ELSE @ + payout,
                  !.reserveIfNo = IF yes THEN @ ELSE @ + reserve]

SolventAfter(m, outcome, risk, payout, reserve) ==
    Covered(WithTicket(exposure[m], outcome, risk, payout, reserve))

\* Mutant of WithoutTicket: the payout of the closed ticket stays recorded.
WithoutTicketPayoutKept(x, tk) ==
    LET yes == tk.outcome = YES
    IN  [x EXCEPT !.totalUserRisk = @ - tk.riskAmount,
                  !.lpReserveAllocated = @ - tk.reservedAmount,
                  !.reserveIfYes = IF yes THEN @ - tk.reservedAmount ELSE @,
                  !.reserveIfNo = IF yes THEN @ ELSE @ - tk.reservedAmount]

\* Mutant of WithoutTicket: the sides swapped.
WithoutTicketSwapped(x, tk) ==
    LET yes == tk.outcome = NO
    IN  [x EXCEPT !.totalUserRisk = @ - tk.riskAmount,
                  !.lpReserveAllocated = @ - tk.reservedAmount,
                  !.payoutIfYes = IF yes THEN @ - tk.payout ELSE @,
                  !.reserveIfYes = IF yes THEN @ - tk.reservedAmount ELSE @,
                  !.payoutIfNo = IF yes THEN @ ELSE @ - tk.payout,
                  !.reserveIfNo = IF yes THEN @ ELSE @ - tk.reservedAmount]

WithoutTicket(x, tk) ==
    LET yes == tk.outcome = YES
    IN  [x EXCEPT !.totalUserRisk = @ - tk.riskAmount,
                  !.lpReserveAllocated = @ - tk.reservedAmount,
                  !.payoutIfYes = IF yes THEN @ - tk.payout ELSE @,
                  !.reserveIfYes = IF yes THEN @ - tk.reservedAmount ELSE @,
                  !.payoutIfNo = IF yes THEN @ ELSE @ - tk.payout,
                  !.reserveIfNo = IF yes THEN @ ELSE @ - tk.reservedAmount]

\* The checked subtractions of _removeExposure.
CanRemoveExposure(tk) ==
    LET x == WithoutTicket(exposure[tk.market], tk)
    IN  /\ x.totalUserRisk >= 0 /\ x.lpReserveAllocated >= 0
        /\ x.payoutIfYes >= 0 /\ x.reserveIfYes >= 0
        /\ x.payoutIfNo >= 0 /\ x.reserveIfNo >= 0
        /\ userReserveUsed[tk.owner] >= tk.reservedAmount

---------------------------------------------------------------------------
(* Quoting and buying. *)

QuotedPayout(m, outcome, risk, boostBps) ==
    Payout(risk, PriceForOutcome(market[m], outcome), boostBps)

\* Mutant of MaxAvailableBoost: sized from all equity, reserved or not.
MaxManagedBoost(m, outcome, risk) ==
    LET raw == RawMaxBoost(risk, PriceForOutcome(market[m], outcome), ManagedAssets(pool))
    IN  IF raw > MAX_BOOST_BPS THEN MAX_BOOST_BPS ELSE IF raw < BPS THEN BPS ELSE raw

\* The boost advertised with a quote, within the protocol's bounds.
MaxAvailableBoost(m, outcome, risk) ==
    LET raw == RawMaxBoost(risk, PriceForOutcome(market[m], outcome), AvailableAssets(pool))
    IN  IF raw > MAX_BOOST_BPS THEN MAX_BOOST_BPS ELSE IF raw < BPS THEN BPS ELSE raw

\* quoteTicket answers "accepted": every rejection, in the code's order, and
\* the subtractions that would revert it.
QuoteAccepted(m, user, outcome, risk, boostBps) ==
    LET payout == QuotedPayout(m, outcome, risk, boostBps)
        reserve == payout - risk
    IN  /\ market[m].status # "None"
        /\ MIN_USER_RISK_PER_TICKET <= risk /\ risk <= MAX_USER_RISK_PER_TICKET
        /\ BPS <= boostBps /\ boostBps <= MAX_BOOST_BPS
        /\ Quotable(PriceForOutcome(market[m], outcome), boostBps)
        /\ reserve >= 0
        /\ payout <= MAX_PAYOUT_PER_TICKET
        /\ CanReserve(pool, reserve)
        /\ WithinCaps(m, user, outcome, reserve)
        /\ SolventAfter(m, outcome, risk, payout, reserve)

\* Mutant of FeeRouted: the treasury's share truncates like the others.
FeeRoutedTruncated(balances, fee) ==
    [balances EXCEPT ![Router] = @ - fee + (fee - ShareOf(fee, feeSplit.lp)
                                   - ShareOf(fee, feeSplit.insurance) - ShareOf(fee, feeSplit.treasury)),
                     ![Pool] = @ + ShareOf(fee, feeSplit.lp),
                     ![Insurance] = @ + ShareOf(fee, feeSplit.insurance),
                     ![Treasury] = @ + ShareOf(fee, feeSplit.treasury)]

\* FeeRouter.routeFee: the LP and insurance shares truncate, the treasury
\* takes what is left.  The pool's share is credited by the caller.
FeeRouted(balances, fee) ==
    LET lpAmount == ShareOf(fee, feeSplit.lp)
        insuranceAmount == ShareOf(fee, feeSplit.insurance)
    IN  [balances EXCEPT ![Router] = @ - fee,
                         ![Pool] = @ + lpAmount,
                         ![Insurance] = @ + insuranceAmount,
                         ![Treasury] = @ + (fee - lpAmount - insuranceAmount)]

\* Mutant of NextTicketId: the counter read before it is incremented.
LastTicketId == totalSupply

NextTicketId == totalSupply + 1

BuyTicket(buyer, m, outcome, risk, boostBps) ==
    LET payout == QuotedPayout(m, outcome, risk, boostBps)
        reserve == payout - risk
        fee == Fee(risk, boostBps)
    IN  /\ ~paused
        /\ CanBuy(market[m], Schedule[m], now)
        /\ QuoteAccepted(m, buyer, outcome, risk, boostBps)
        /\ usdc[buyer] >= risk + fee
        /\ CanApplyTradeImpact(market[m], risk)
        /\ totalSupply < MaxTickets
        /\ pool' = FeeCredited(RiskLocked(ReservedForTicket(pool, reserve), risk),
                               ShareOf(fee, feeSplit.lp))
        /\ usdc' = FeeRouted(Transferred(Transferred(usdc, buyer, Pool, risk),
                                         buyer, Router, fee),
                             fee)
        /\ totalSupply' = totalSupply + 1
        /\ ticket' = [ticket EXCEPT ![NextTicketId] =
                         [status |-> "Open", market |-> m, owner |-> buyer,
                          outcome |-> outcome, riskAmount |-> risk,
                          payout |-> payout, reservedAmount |-> reserve]]
        /\ exposure' = [exposure EXCEPT ![m] = WithTicket(@, outcome, risk, payout, reserve)]
        /\ userReserveUsed' = [userReserveUsed EXCEPT ![buyer] = @ + reserve]
        /\ market' = [market EXCEPT ![m] = ApplyTradeImpact(@, outcome, risk)]
        /\ UNCHANGED <<now, admin>>

---------------------------------------------------------------------------
(* Settlement, callable by anyone. *)

\* The market cancelled, or archived with no outcome set.
Voided(mkt) ==
    mkt.status = "Cancelled" \/ (mkt.status = "Archived" /\ mkt.winningOutcome = Unset)

Decided(mkt) == ~Voided(mkt) /\ mkt.status \in {"Resolved", "Archived"}

\* Clear the exposure of an open ticket and mark it.
CloseTicket(t, status) ==
    LET tk == ticket[t]
    IN  /\ tk.status = "Open"
        /\ CanRemoveExposure(tk)
        /\ CanRelease(pool, tk.riskAmount, tk.reservedAmount)
        /\ exposure' = [exposure EXCEPT ![tk.market] = WithoutTicket(@, tk)]
        /\ userReserveUsed' = [userReserveUsed EXCEPT ![tk.owner] = @ - tk.reservedAmount]
        /\ ticket' = [ticket EXCEPT ![t].status = status]
        /\ UNCHANGED <<now, admin, market, totalSupply>>

\* The vault's ledger and its balance both hold what is to be paid.
CanPay(amount) == pool.internalAssets >= amount /\ usdc[Pool] >= amount

RefundTicket(t) ==
    LET tk == ticket[t]
    IN  /\ CloseTicket(t, "Cancelled")
        /\ Voided(market[tk.market])
        /\ CanPay(tk.riskAmount)
        /\ pool' = RiskRefunded(pool, tk.riskAmount, tk.reservedAmount)
        /\ usdc' = Transferred(usdc, Pool, tk.owner, tk.riskAmount)

PayTicket(t) ==
    LET tk == ticket[t]
    IN  /\ CloseTicket(t, "Settled")
        /\ Decided(market[tk.market])
        /\ market[tk.market].winningOutcome = tk.outcome
        /\ CanPay(tk.payout)
        /\ pool' = PayoutPaid(pool, tk.payout, tk.reservedAmount, tk.riskAmount)
        /\ usdc' = Transferred(usdc, Pool, tk.owner, tk.payout)

ForfeitTicket(t) ==
    LET tk == ticket[t]
    IN  /\ CloseTicket(t, "Settled")
        /\ Decided(market[tk.market])
        /\ market[tk.market].winningOutcome # tk.outcome
        /\ pool' = LossSettled(pool, tk.riskAmount, tk.reservedAmount)
        /\ UNCHANGED usdc

SettleTicket(t) == RefundTicket(t) \/ PayTicket(t) \/ ForfeitTicket(t)

---------------------------------------------------------------------------

Next ==
    \/ Tick
    \/ \E from \in Traders, amount \in Deposits : Donate(from, amount)
    \/ \E p \in BOOLEAN : SetPaused(p)
    \/ \E split \in FeeSplits : SetFeeSplit(split)
    \/ WithdrawInsurance(usdc[Insurance])
    \/ \E lp \in LPs, amount \in Deposits : Deposit(lp, amount)
    \/ \E lp \in LPs : \E shares \in ShareLots \cup {pool.sharesOf[lp]} : Withdraw(lp, shares)
    \/ \E m \in Markets :
          \/ \E seed \in Seeds : CreateMarket(m, seed)
          \/ OpenMarket(m)
          \/ LockMarket(m)
          \/ \E outcome \in Outcomes : ResolveMarket(m, outcome)
          \/ CancelMarket(m)
          \/ ArchiveMarket(m)
    \/ \E buyer \in Traders, m \in Markets, outcome \in Outcomes, risk \in Risks, boostBps \in Boosts :
          BuyTicket(buyer, m, outcome, risk, boostBps)
    \/ \E t \in TicketIds : SettleTicket(t)

Spec == Init /\ [][Next]_vars

---------------------------------------------------------------------------
(* Properties. *)

OpenTickets == {t \in TicketIds : ticket[t].status = "Open"}
OpenOn(m) == {t \in OpenTickets : ticket[t].market = m}
OpenSide(m, outcome) == {t \in OpenOn(m) : ticket[t].outcome = outcome}
OpenOf(u) == {t \in OpenTickets : ticket[t].owner = u}

RiskOf == [t \in TicketIds |-> ticket[t].riskAmount]
PayoutOf == [t \in TicketIds |-> ticket[t].payout]
ReserveOf == [t \in TicketIds |-> ticket[t].reservedAmount]

Tickets ==
    [status : {"Open", "Settled", "Cancelled"}, market : Markets, owner : Traders,
     outcome : Outcomes, riskAmount : Nat \ {0}, payout : Nat, reservedAmount : Nat]

Exposures ==
    [totalUserRisk : Nat, payoutIfYes : Nat, payoutIfNo : Nat,
     reserveIfYes : Nat, reserveIfNo : Nat, lpReserveAllocated : Nat]

Pools ==
    [totalShares : Nat, sharesOf : [LPs -> Nat], internalAssets : Nat,
     reservedAssets : Nat, lockedUserRisk : Nat,
     totalFeesEarned : Nat, totalUserLossesReceived : Nat]

MarketRecords ==
    [status : Statuses, winningOutcome : Outcomes \cup {Unset}, impactLiquidity : Nat,
     seedMidYes : Nat, minMidYes : Nat, maxMidYes : Nat, fairMidYes : Nat,
     yesPrice : Nat, noPrice : Nat, totalYesRisk : Nat, totalNoRisk : Nat]

\* Every field in range: no subtraction anywhere took a balance, a reserve
\* or a share count below zero.  Minted ids are exactly 1..totalSupply.
TypeOK ==
    /\ now \in 0..MaxTime
    /\ paused \in BOOLEAN
    /\ feeSplit \in FeeSplits
    /\ market \in [Markets -> MarketRecords]
    /\ exposure \in [Markets -> Exposures]
    /\ userReserveUsed \in [Users -> Nat]
    /\ totalSupply \in 0..MaxTickets
    /\ ticket \in [TicketIds -> Tickets \cup {NoTicket}]
    /\ \A t \in TicketIds : ticket[t].status # "None" <=> t <= totalSupply
    /\ pool \in Pools
    /\ usdc \in [Accounts -> Nat]

\* Every payout, loss and refund reconciles: the vault's reserved and locked
\* balances are the sums over the tickets still open (README "Reserve
\* accounting"), whatever was bought and settled in between.
EscrowReconciles ==
    /\ pool.reservedAssets = Total(ReserveOf, OpenTickets)
    /\ pool.lockedUserRisk = Total(RiskOf, OpenTickets)

\* The engine's exposure records agree, field by field, with the open tickets
\* of each market, side and user: what _addExposure put there, only the
\* settlement of that ticket takes away.
ExposureReconciles ==
    /\ \A m \in Markets :
          /\ exposure[m].totalUserRisk = Total(RiskOf, OpenOn(m))
          /\ exposure[m].lpReserveAllocated = Total(ReserveOf, OpenOn(m))
          /\ exposure[m].payoutIfYes = Total(PayoutOf, OpenSide(m, YES))
          /\ exposure[m].payoutIfNo = Total(PayoutOf, OpenSide(m, NO))
          /\ exposure[m].reserveIfYes = Total(ReserveOf, OpenSide(m, YES))
          /\ exposure[m].reserveIfNo = Total(ReserveOf, OpenSide(m, NO))
    /\ \A u \in Users : userReserveUsed[u] = Total(ReserveOf, OpenOf(u))

\* The vault is never undercollateralised: reserves and locked stakes fit in
\* the internal ledger, and the tokens on hand back that ledger, in spite of
\* withdrawals, donations and fees (InvariantAccounting.t.sol, invariant 1).
EscrowFunded ==
    /\ pool.reservedAssets + pool.lockedUserRisk <= pool.internalAssets
    /\ pool.internalAssets <= usdc[Pool]

\* Once its market is final an open ticket can be settled at once: no
\* require and no checked subtraction on the path to the payment fails, in
\* whatever order tickets are settled and whatever LPs did before.
SettlementNeverReverts ==
    \A t \in OpenTickets :
        LET tk == ticket[t]
            mkt == market[tk.market]
            owed == IF Voided(mkt) THEN tk.riskAmount
                    ELSE IF mkt.winningOutcome = tk.outcome THEN tk.payout ELSE 0
        IN  Voided(mkt) \/ Decided(mkt) =>
                /\ CanRemoveExposure(tk)
                /\ CanRelease(pool, tk.riskAmount, tk.reservedAmount)
                /\ CanPay(owed)

\* An archived market has no open ticket left, although archive() looks at
\* the exposure record and never at a ticket.
ArchivedMarketsAreSettled ==
    \A m \in Markets : market[m].status = "Archived" => OpenOn(m) = {}

\* One verdict per market: no ticket of a market is refunded while another
\* of the same market is settled, in whatever order the owner and the oracle
\* resolve, cancel and archive.
OneVerdictPerMarket ==
    \A s, t \in TicketIds :
        ticket[s].status = "Settled" /\ ticket[t].status = "Cancelled" =>
            ticket[s].market # ticket[t].market

\* The strengthening that makes the properties above inductive: what a ticket
\* pays is its stake and its reserve; the shares of LPs add up; every market
\* has a book; and a verdict, once there, agrees with how tickets were closed.
TicketsAddUp ==
    \A t \in TicketIds : ticket[t].payout = ticket[t].riskAmount + ticket[t].reservedAmount

SharesAddUp == pool.totalShares = Total(pool.sharesOf, LPs)

BooksHaveDepth ==
    \A m \in Markets : market[m].status # "None" => market[m].impactLiquidity > 0

VerdictsStand ==
    /\ \A m \in Markets :
          /\ market[m].status = "Resolved" => market[m].winningOutcome # Unset
          /\ market[m].winningOutcome # Unset => market[m].status \in {"Resolved", "Archived"}
    /\ \A t \in TicketIds :
          /\ ticket[t].status = "Settled" => Decided(market[ticket[t].market])
          /\ ticket[t].status = "Cancelled" => Voided(market[ticket[t].market])

EngineInv ==
    /\ TypeOK /\ TicketsAddUp /\ SharesAddUp /\ BooksHaveDepth
    /\ EscrowReconciles /\ ExposureReconciles /\ EscrowFunded

\* LP equity is exactly what LPs put in net of what they took out, plus
\* credited fees and stakes lost to the vault, less the reserves of winning
\* tickets: nothing is counted twice and no donation enters it.
WonTickets ==
    {t \in TicketIds : /\ ticket[t].status = "Settled"
                       /\ market[ticket[t].market].winningOutcome = ticket[t].outcome}

LpEquityReconciles ==
    LPs \cap Traders = {} =>
        ManagedAssets(pool) + Total(usdc, LPs) + Total(ReserveOf, WonTickets) =
            Total(Wallets, LPs) + pool.totalFeesEarned + pool.totalUserLossesReceived

\* The fee router passes on all it is given: truncation leaves no dust.
RouterKeepsNothing == usdc[Router] = 0

\* The boost a quote advertises fits the vault: when any boost does, buying
\* at the advertised one needs no reserve beyond the available liquidity.
AdvertisedBoostIsAffordable ==
    \A m \in Markets, outcome \in Outcomes, risk \in Risks :
        LET boost == MaxAvailableBoost(m, outcome, risk)
        IN  /\ market[m].status # "None" /\ risk > 0
            /\ QuotedPayout(m, outcome, risk, BPS) <= risk + AvailableAssets(pool)
            => QuotedPayout(m, outcome, risk, boost) <= risk + AvailableAssets(pool)

\* The downside of LPs is bounded by the reserve taken when a ticket was
\* bought: no settlement spends liquidity that is free, whoever wins.
SettlementSparesFreeLiquidity ==
    [][OpenTickets' # OpenTickets /\ totalSupply' = totalSupply =>
           AvailableAssets(pool') >= AvailableAssets(pool)]_vars

\* Entering and leaving the vault never takes value from the shares of
\* others: the value of a share does not fall when shares are minted or
\* burned, truncation and donations notwithstanding.
SharesAreNeverDiluted ==
    [][pool.totalShares > 0 /\ pool'.totalShares # pool.totalShares =>
           ManagedAssets(pool') * pool.totalShares >= ManagedAssets(pool) * pool'.totalShares]_vars

\* The books agree: the vault's reserved and locked balances and every exposure
\* record with the open tickets, the LPs' equity with what they gained and
\* lost, and nothing rests with the router.
BooksReconcile ==
    EscrowReconciles /\ ExposureReconciles /\ LpEquityReconciles /\ RouterKeepsNothing

\* What the vault owes it has, and once a market is final nothing keeps any of
\* its tickets from being settled.
EveryTicketIsPayable == EscrowFunded /\ SettlementNeverReverts

\* A market's verdict is one for all its tickets, and it is not put away
\* before the last of them is settled.
VerdictsAreFinal == OneVerdictPerMarket /\ ArchivedMarketsAreSettled

=============================================================================
