----------------------- MODULE MicroBoostEngineProofs -----------------------
(***************************************************************************)
(* Proofs about the protocol, for any finite number of LPs, traders and    *)
(* markets, any stakes, boosts, deposits, fee splits and limits that meet  *)
(* the assumptions of MicroBoostEngine and the modules it extends.         *)
(***************************************************************************)
EXTENDS KeepsPromises, TotalsProofs, TLAPS

---------------------------------------------------------------------------
(* Arithmetic of prices, fees and shares. *)

\* A payout at a price QuoteMath accepts is a natural number.
LEMMA PayoutType ==
    ASSUME NEW risk \in Nat, NEW price \in Nat, NEW boostBps \in Nat, Quotable(price, boostBps)
    PROVE  Payout(risk, price, boostBps) \in Nat
<1>1. risk * PRICE_SCALE * boostBps \in Nat
  BY ScaleAssumption
<1>2. price * BPS \in Nat \ {0}
  BY ScaleAssumption, SMT DEF Quotable
<1> QED
  BY <1>1, <1>2, DivBounds DEF Payout

\* A fee is a natural number.
LEMMA FeeType ==
    ASSUME NEW risk \in Nat, NEW boostBps \in Nat, boostBps >= BPS
    PROVE  Fee(risk, boostBps) \in Nat
<1> DEFINE extra == ((boostBps - BPS) * BOOST_FEE_BPS) \div BPS
<1>1. (boostBps - BPS) * BOOST_FEE_BPS \in Nat
  BY ScaleAssumption, FeeAssumption, SMT
<1>2. extra \in Nat
  BY <1>1, ScaleAssumption, DivBounds
<1> HIDE DEF extra
<1>3. risk * (BASE_FEE_BPS + extra) \in Nat
  BY <1>2, FeeAssumption, SMT
<1>4. (risk * (BASE_FEE_BPS + extra)) \div BPS \in Nat
  BY <1>3, ScaleAssumption, DivBounds
<1> QED
  BY <1>4 DEF Fee, extra

\* The shares of a fee split fit in the fee.
LEMMA SplitFits ==
    ASSUME NEW fee \in Nat, NEW split \in Splits
    PROVE  /\ ShareOf(fee, split.lp) \in Nat
           /\ ShareOf(fee, split.insurance) \in Nat
           /\ fee - ShareOf(fee, split.lp) - ShareOf(fee, split.insurance) \in Nat
<1>1. /\ split.lp \in Nat /\ split.insurance \in Nat
      /\ split.lp + split.insurance <= BPS
  BY ScaleAssumption DEF Splits
<1>2. /\ ShareOf(fee, split.lp) \in Nat
      /\ ShareOf(fee, split.insurance) \in Nat
      /\ ShareOf(fee, split.lp) + ShareOf(fee, split.insurance) <= fee
  BY <1>1, ScaleAssumption, SharesFit DEF ShareOf
<1> QED
  BY <1>2

\* Every quote is a natural number no less than the rail, whatever the mid.
LEMMA QuotedType ==
    ASSUME NEW fair \in Int
    PROVE  Quoted(fair) \in Nat /\ Quoted(fair) >= MIN_PRICE
<1> DEFINE raw == (fair * OVERROUND_BPS) \div BPS
<1>1. fair * OVERROUND_BPS \in Int
  BY BookAssumption, SMT
<1>2. raw \in Int
  BY <1>1, ScaleAssumption, SMT
<1> HIDE DEF raw
<1> QED
  BY <1>2, ScaleAssumption, BookAssumption, SMT DEF Quoted, raw

---------------------------------------------------------------------------
(* The market records. *)

\* Setting the book from a mid keeps a market record one.
LEMMA SetQuotedType ==
    ASSUME NEW mkt \in MarketRecords, NEW mid \in Nat
    PROVE  /\ SetQuotedFromMid(mkt, mid) \in MarketRecords
           /\ SetQuotedFromMid(mkt, mid).yesPrice >= MIN_PRICE
           /\ SetQuotedFromMid(mkt, mid).noPrice >= MIN_PRICE
           /\ SetQuotedFromMid(mkt, mid).impactLiquidity = mkt.impactLiquidity
           /\ SetQuotedFromMid(mkt, mid).status = mkt.status
           /\ SetQuotedFromMid(mkt, mid).winningOutcome = mkt.winningOutcome
<1> DEFINE c == ClampMid(mkt, mid)
<1>1. c \in Nat
  <2>1. mkt.minMidYes \in Nat /\ mkt.maxMidYes \in Nat
    BY DEF MarketRecords
  <2> QED
    BY <2>1 DEF ClampMid
<1>2. /\ Quoted(c) \in Nat /\ Quoted(c) >= MIN_PRICE
      /\ Quoted(PRICE_SCALE - c) \in Nat /\ Quoted(PRICE_SCALE - c) >= MIN_PRICE
  <2>1. c \in Int /\ PRICE_SCALE - c \in Int
    BY <1>1, ScaleAssumption
  <2> QED
    BY <2>1, QuotedType
<1> HIDE DEF c
<1>3. SetQuotedFromMid(mkt, mid) =
        [mkt EXCEPT !.fairMidYes = c, !.yesPrice = Quoted(c), !.noPrice = Quoted(PRICE_SCALE - c)]
  BY DEF SetQuotedFromMid, c
<1> QED
  BY <1>1, <1>2, <1>3 DEF MarketRecords

\* The constructor leaves a well-formed book with some depth.
LEMMA ConstructType ==
    ASSUME NEW seed \in Seeds, NEW managed \in Nat
    PROVE  /\ Construct(seed, managed) \in MarketRecords
           /\ Construct(seed, managed).impactLiquidity > 0
           /\ Construct(seed, managed).status = "Created"
           /\ Construct(seed, managed).winningOutcome = Unset
           /\ Construct(seed, managed).yesPrice >= MIN_PRICE
           /\ Construct(seed, managed).noPrice >= MIN_PRICE
<1>1. seed \in MIN_PRICE..MAX_PRICE /\ seed \in Nat /\ PRICE_SCALE - seed \in Nat
  BY ProtocolAssumption, ScaleAssumption, BookAssumption
<1>2. Drift(seed) \in Nat
  <2> DEFINE cheaper == IF seed < PRICE_SCALE - seed THEN seed ELSE PRICE_SCALE - seed
  <2>1. cheaper \in Nat
    BY <1>1
  <2> HIDE DEF cheaper
  <2>2. cheaper * MAX_MID_DRIFT_BPS \in Nat
    BY <2>1, BookAssumption, ScaleAssumption, SMT
  <2>3. (cheaper * MAX_MID_DRIFT_BPS) \div BPS \in Nat
    BY <2>2, ScaleAssumption, DivBounds
  <2> QED
    BY <2>3 DEF Drift, cheaper
<1>3. MinMid(seed) \in Nat /\ MaxMid(seed) \in Nat
  BY <1>1, <1>2, BookAssumption, SMT DEF MinMid, MaxMid
<1>4. SizeBook(managed) \in Nat /\ SizeBook(managed) > 0
  <2>1. managed \div IMPACT_DEPTH_DIVISOR \in Nat
    BY BookAssumption, DivBounds
  <2> QED
    BY <2>1, BookAssumption DEF SizeBook
<1> DEFINE fresh == [NoMarket EXCEPT !.status = "Created", !.impactLiquidity = SizeBook(managed),
                                     !.seedMidYes = seed, !.minMidYes = MinMid(seed),
                                     !.maxMidYes = MaxMid(seed)]
<1>5. /\ fresh \in MarketRecords /\ fresh.impactLiquidity = SizeBook(managed)
      /\ fresh.status = "Created" /\ fresh.winningOutcome = Unset
  <2>1. fresh = [status |-> "Created", winningOutcome |-> Unset,
                 impactLiquidity |-> SizeBook(managed), seedMidYes |-> seed,
                 minMidYes |-> MinMid(seed), maxMidYes |-> MaxMid(seed), fairMidYes |-> 0,
                 yesPrice |-> 0, noPrice |-> 0, totalYesRisk |-> 0, totalNoRisk |-> 0]
    <3>1. fresh = [NoMarket EXCEPT !.status = "Created", !.impactLiquidity = SizeBook(managed),
                                   !.seedMidYes = seed, !.minMidYes = MinMid(seed),
                                   !.maxMidYes = MaxMid(seed)]
      OBVIOUS
    <3> HIDE DEF fresh
    <3> QED
      BY <3>1 DEF NoMarket
  <2> HIDE DEF fresh
  <2> QED
    BY <2>1, <1>1, <1>3, <1>4 DEF MarketRecords, Statuses
<1>6. Construct(seed, managed) = SetQuotedFromMid(fresh, seed)
  BY DEF Construct
<1> HIDE DEF fresh
<1>7. /\ SetQuotedFromMid(fresh, seed) \in MarketRecords
      /\ SetQuotedFromMid(fresh, seed).impactLiquidity = fresh.impactLiquidity
      /\ SetQuotedFromMid(fresh, seed).status = fresh.status
      /\ SetQuotedFromMid(fresh, seed).winningOutcome = fresh.winningOutcome
      /\ SetQuotedFromMid(fresh, seed).yesPrice >= MIN_PRICE
      /\ SetQuotedFromMid(fresh, seed).noPrice >= MIN_PRICE
  BY <1>1, <1>5, SetQuotedType, Zenon
<1> QED
  BY <1>4, <1>5, <1>6, <1>7

\* A trade keeps the record well-formed, and its depth and status.
LEMMA TradeType ==
    ASSUME NEW mkt \in MarketRecords, mkt.impactLiquidity > 0,
           NEW outcome \in Outcomes, NEW risk \in Nat
    PROVE  /\ ApplyTradeImpact(mkt, outcome, risk) \in MarketRecords
           /\ ApplyTradeImpact(mkt, outcome, risk).impactLiquidity = mkt.impactLiquidity
           /\ ApplyTradeImpact(mkt, outcome, risk).status = mkt.status
           /\ ApplyTradeImpact(mkt, outcome, risk).winningOutcome = mkt.winningOutcome
           /\ ApplyTradeImpact(mkt, outcome, risk).yesPrice >= MIN_PRICE
           /\ ApplyTradeImpact(mkt, outcome, risk).noPrice >= MIN_PRICE
<1>1. /\ mkt.impactLiquidity \in Nat /\ mkt.totalYesRisk \in Nat /\ mkt.totalNoRisk \in Nat
      /\ mkt.fairMidYes \in Nat /\ mkt.minMidYes \in Nat /\ mkt.maxMidYes \in Nat
  BY DEF MarketRecords
<1>2. Impact(mkt, risk) \in Nat
  <2> DEFINE depth == mkt.impactLiquidity + mkt.totalYesRisk + mkt.totalNoRisk
  <2>1. depth * 2 \in Nat \ {0}
    BY <1>1, SMTT(40)
  <2>2. risk * PRICE_SCALE \in Nat
    BY ScaleAssumption
  <2> HIDE DEF depth
  <2>3. (risk * PRICE_SCALE) \div (depth * 2) \in Nat
    BY <2>1, <2>2, DivBounds
  <2> QED
    BY <2>3, BookAssumption DEF Impact, depth
<1> DEFINE mid == ClampMid(mkt, MovedMid(mkt, outcome, risk))
           traded == IF outcome = YES THEN [mkt EXCEPT !.totalYesRisk = @ + risk]
                     ELSE [mkt EXCEPT !.totalNoRisk = @ + risk]
<1>3. mid \in Nat
  <2>1. MovedMid(mkt, outcome, risk) \in Nat
    BY <1>1, <1>2 DEF MovedMid
  <2> QED
    BY <1>1, <2>1 DEF ClampMid
<1>4. /\ traded \in MarketRecords /\ traded.impactLiquidity = mkt.impactLiquidity
      /\ traded.status = mkt.status /\ traded.winningOutcome = mkt.winningOutcome
  <2>1. CASE outcome = YES
    BY <1>1, <2>1 DEF MarketRecords
  <2>2. CASE outcome # YES
    BY <1>1, <2>2 DEF MarketRecords
  <2> QED
    BY <2>1, <2>2
<1>5. ApplyTradeImpact(mkt, outcome, risk) = SetQuotedFromMid(traded, mid)
  BY Zenon DEF ApplyTradeImpact
<1> HIDE DEF traded, mid
<1>6. /\ SetQuotedFromMid(traded, mid) \in MarketRecords
      /\ SetQuotedFromMid(traded, mid).impactLiquidity = traded.impactLiquidity
      /\ SetQuotedFromMid(traded, mid).status = traded.status
      /\ SetQuotedFromMid(traded, mid).winningOutcome = traded.winningOutcome
      /\ SetQuotedFromMid(traded, mid).yesPrice >= MIN_PRICE
      /\ SetQuotedFromMid(traded, mid).noPrice >= MIN_PRICE
  BY <1>3, <1>4, SetQuotedType, Zenon
<1> QED
  BY <1>4, <1>5, <1>6

---------------------------------------------------------------------------
(* The amounts of tickets and the sets of open ones. *)

\* Whatever its state, a ticket id has natural amounts.
LEMMA AmountsType ==
    ASSUME TypeOK, NEW t \in TicketIds
    PROVE  /\ RiskOf[t] \in Nat /\ RiskOf[t] = ticket[t].riskAmount
           /\ PayoutOf[t] \in Nat /\ PayoutOf[t] = ticket[t].payout
           /\ ReserveOf[t] \in Nat /\ ReserveOf[t] = ticket[t].reservedAmount
<1>1. ticket[t] \in Tickets \cup {NoTicket}
  BY DEF TypeOK
<1>2. /\ ticket[t].riskAmount \in Nat /\ ticket[t].payout \in Nat
      /\ ticket[t].reservedAmount \in Nat
  <2>1. CASE ticket[t] \in Tickets
    BY <2>1 DEF Tickets
  <2>2. CASE ticket[t] = NoTicket
    BY <2>2 DEF NoTicket
  <2> QED
    BY <1>1, <2>1, <2>2
<1> QED
  BY <1>2 DEF RiskOf, PayoutOf, ReserveOf

\* A minted ticket is a full record.
LEMMA MintedType ==
    ASSUME TypeOK, NEW t \in TicketIds, ticket[t].status # "None"
    PROVE  ticket[t] \in Tickets
<1>1. ticket[t] \in Tickets \cup {NoTicket}
  BY DEF TypeOK
<1> QED
  BY <1>1 DEF NoTicket

\* Sets of open tickets are finite.
LEMMA OpenFinite ==
    ASSUME NEW S, S \subseteq TicketIds
    PROVE  IsFiniteSet(S)
<1>1. IsFiniteSet(1..MaxTickets)
  <2>1. 1 \in Int /\ MaxTickets \in Int
    BY ProtocolAssumption
  <2> QED
    BY <2>1, FS_Interval
<1> QED
  BY <1>1, FS_Subset DEF TicketIds

\* A set of open tickets sums to naturals, at least each amount in it.
LEMMA OpenSums ==
    ASSUME TypeOK, NEW S, S \subseteq TicketIds
    PROVE  /\ Total(RiskOf, S) \in Nat /\ Total(PayoutOf, S) \in Nat /\ Total(ReserveOf, S) \in Nat
           /\ \A t \in S : /\ RiskOf[t] <= Total(RiskOf, S)
                           /\ PayoutOf[t] <= Total(PayoutOf, S)
                           /\ ReserveOf[t] <= Total(ReserveOf, S)
<1>1. IsFiniteSet(S)
  BY OpenFinite
<1>2. \A t \in S : RiskOf[t] \in Nat /\ PayoutOf[t] \in Nat /\ ReserveOf[t] \in Nat
  BY AmountsType
<1>3. /\ Total(RiskOf, S) \in Nat /\ Total(PayoutOf, S) \in Nat /\ Total(ReserveOf, S) \in Nat
  BY <1>1, <1>2, TotalType
<1>4. ASSUME NEW t \in S
      PROVE  /\ RiskOf[t] <= Total(RiskOf, S)
             /\ PayoutOf[t] <= Total(PayoutOf, S)
             /\ ReserveOf[t] <= Total(ReserveOf, S)
  BY <1>1, <1>2, TotalAtLeast
<1> QED
  BY <1>3, <1>4

---------------------------------------------------------------------------
(* A ticket is minted. *)

Mint(tk) ==
    /\ totalSupply < MaxTickets
    /\ totalSupply' = totalSupply + 1
    /\ ticket' = [ticket EXCEPT ![NextTicketId] = tk]

\* The new ticket joins the open ones; the others stay what they were.
LEMMA MintOpens ==
    ASSUME TypeOK, NEW tk \in Tickets, tk.status = "Open", Mint(tk)
    PROVE  /\ NextTicketId \in TicketIds \ OpenTickets
           /\ ticket[NextTicketId].status = "None"
           /\ ticket'[NextTicketId] = tk
           /\ \A t \in TicketIds \ {NextTicketId} : ticket'[t] = ticket[t]
           /\ OpenTickets' = OpenTickets \cup {NextTicketId}
<1>1. /\ totalSupply \in 0..MaxTickets /\ ticket \in [TicketIds -> Tickets \cup {NoTicket}]
      /\ \A t \in TicketIds : ticket[t].status # "None" <=> t <= totalSupply
      /\ MaxTickets \in Nat
  BY ProtocolAssumption DEF TypeOK
<1>2. NextTicketId \in TicketIds /\ ~(NextTicketId <= totalSupply)
  BY <1>1 DEF Mint, NextTicketId, TicketIds
<1>3. ticket[NextTicketId].status = "None"
  BY <1>1, <1>2
<1>4. NextTicketId \notin OpenTickets
  BY <1>3 DEF OpenTickets
<1> DEFINE id == NextTicketId
<1>5. ticket' = [ticket EXCEPT ![id] = tk]
  BY DEF Mint
<1> HIDE DEF id
<1>6. ticket'[id] = tk /\ \A t \in TicketIds \ {id} : ticket'[t] = ticket[t]
  BY <1>1, <1>2, <1>5 DEF id
<1>7. OpenTickets' = OpenTickets \cup {id}
  BY <1>2, <1>6 DEF OpenTickets, id
<1> QED
  BY <1>2, <1>3, <1>4, <1>6, <1>7 DEF id

\* Sums over open tickets after a mint, with and without the new ticket.
LEMMA MintSums ==
    ASSUME TypeOK, NEW tk \in Tickets, tk.status = "Open", Mint(tk),
           NEW S, S \subseteq OpenTickets
    PROVE  /\ Total(RiskOf', S \cup {NextTicketId}) = Total(RiskOf, S) + tk.riskAmount
           /\ Total(PayoutOf', S \cup {NextTicketId}) = Total(PayoutOf, S) + tk.payout
           /\ Total(ReserveOf', S \cup {NextTicketId}) = Total(ReserveOf, S) + tk.reservedAmount
           /\ Total(RiskOf', S) = Total(RiskOf, S)
           /\ Total(PayoutOf', S) = Total(PayoutOf, S)
           /\ Total(ReserveOf', S) = Total(ReserveOf, S)
<1>1. /\ NextTicketId \in TicketIds \ OpenTickets
      /\ ticket'[NextTicketId] = tk
      /\ \A t \in TicketIds \ {NextTicketId} : ticket'[t] = ticket[t]
  BY MintOpens
<1>2. S \subseteq TicketIds \ {NextTicketId} /\ NextTicketId \notin S
  BY <1>1 DEF OpenTickets
<1>3. IsFiniteSet(S)
  BY <1>2, OpenFinite
<1> DEFINE id == NextTicketId
<1>4. /\ (RiskOf')[id] = tk.riskAmount
      /\ (PayoutOf')[id] = tk.payout
      /\ (ReserveOf')[id] = tk.reservedAmount
  BY <1>1 DEF RiskOf, PayoutOf, ReserveOf
<1>5. \A t \in S : /\ (RiskOf')[t] = RiskOf[t]
                   /\ (PayoutOf')[t] = PayoutOf[t]
                   /\ (ReserveOf')[t] = ReserveOf[t]
  BY <1>1, <1>2 DEF RiskOf, PayoutOf, ReserveOf
<1>6. \A t \in S : RiskOf[t] \in Nat /\ PayoutOf[t] \in Nat /\ ReserveOf[t] \in Nat
  BY <1>2, AmountsType
<1>7. tk.riskAmount \in Nat /\ tk.payout \in Nat /\ tk.reservedAmount \in Nat
  BY DEF Tickets
<1> DEFINE R == RiskOf'  P == PayoutOf'  V == ReserveOf'
<1> HIDE DEF id, R, P, V
<1>8. /\ id \notin S /\ R[id] \in Nat /\ P[id] \in Nat /\ V[id] \in Nat
      /\ \A t \in S : /\ RiskOf[t] \in Nat /\ R[t] = RiskOf[t]
                      /\ PayoutOf[t] \in Nat /\ P[t] = PayoutOf[t]
                      /\ ReserveOf[t] \in Nat /\ V[t] = ReserveOf[t]
  BY <1>2, <1>4, <1>5, <1>6, <1>7 DEF id, R, P, V
<1>9. /\ Total(R, S \cup {id}) = Total(RiskOf, S) + R[id]
      /\ Total(P, S \cup {id}) = Total(PayoutOf, S) + P[id]
      /\ Total(V, S \cup {id}) = Total(ReserveOf, S) + V[id]
  <2>1. Total(R, S \cup {id}) = Total(RiskOf, S) + R[id]
    <3>1. R[id] \in Nat /\ \A t \in S : RiskOf[t] \in Nat /\ R[t] = RiskOf[t]
      BY <1>8
    <3> QED
      BY <1>3, <1>8, <3>1, TotalGrows
  <2>2. Total(P, S \cup {id}) = Total(PayoutOf, S) + P[id]
    <3>1. P[id] \in Nat /\ \A t \in S : PayoutOf[t] \in Nat /\ P[t] = PayoutOf[t]
      BY <1>8
    <3> QED
      BY <1>3, <1>8, <3>1, TotalGrows
  <2>3. Total(V, S \cup {id}) = Total(ReserveOf, S) + V[id]
    <3>1. V[id] \in Nat /\ \A t \in S : ReserveOf[t] \in Nat /\ V[t] = ReserveOf[t]
      BY <1>8
    <3> QED
      BY <1>3, <1>8, <3>1, TotalGrows
  <2> QED
    BY <2>1, <2>2, <2>3
<1>10. /\ Total(R, S) = Total(RiskOf, S)
       /\ Total(P, S) = Total(PayoutOf, S)
       /\ Total(V, S) = Total(ReserveOf, S)
  BY <1>8, TotalSame, Zenon
<1> QED
  BY <1>4, <1>9, <1>10 DEF id, R, P, V

---------------------------------------------------------------------------
(* A ticket is closed. *)

Close(t, status) ==
    /\ ticket[t].status = "Open"
    /\ status \in {"Settled", "Cancelled"}
    /\ ticket' = [ticket EXCEPT ![t].status = status]
    /\ totalSupply' = totalSupply

\* Only the status of the ticket changes, and it leaves the open ones.
LEMMA CloseCloses ==
    ASSUME TypeOK, NEW t \in TicketIds, NEW status, Close(t, status)
    PROVE  /\ ticket[t] \in Tickets /\ t \in OpenTickets
           /\ ticket'[t] = [ticket[t] EXCEPT !.status = status]
           /\ ticket'[t] \in Tickets
           /\ \A s \in TicketIds \ {t} : ticket'[s] = ticket[s]
           /\ RiskOf' = RiskOf /\ PayoutOf' = PayoutOf /\ ReserveOf' = ReserveOf
           /\ OpenTickets' = OpenTickets \ {t}
<1>1. ticket \in [TicketIds -> Tickets \cup {NoTicket}]
  BY DEF TypeOK
<1>2. ticket[t] \in Tickets
  BY MintedType DEF Close
<1>3. /\ ticket'[t] = [ticket[t] EXCEPT !.status = status]
      /\ \A s \in TicketIds \ {t} : ticket'[s] = ticket[s]
  BY <1>1 DEF Close
<1>4. /\ ticket'[t] \in Tickets /\ ticket'[t].status = status
      /\ ticket'[t].riskAmount = ticket[t].riskAmount
      /\ ticket'[t].payout = ticket[t].payout
      /\ ticket'[t].reservedAmount = ticket[t].reservedAmount
  BY <1>2, <1>3 DEF Tickets, Close
<1>5. RiskOf' = RiskOf /\ PayoutOf' = PayoutOf /\ ReserveOf' = ReserveOf
  BY <1>3, <1>4 DEF RiskOf, PayoutOf, ReserveOf
<1>6. OpenTickets' = OpenTickets \ {t}
  BY <1>3, <1>4 DEF OpenTickets, Close
<1> QED
  BY <1>2, <1>3, <1>4, <1>5, <1>6 DEF OpenTickets, Close

\* Sums over open tickets once one of them has left.
LEMMA CloseSums ==
    ASSUME TypeOK, NEW S, S \subseteq OpenTickets, NEW t \in S
    PROVE  /\ Total(RiskOf, S \ {t}) = Total(RiskOf, S) - ticket[t].riskAmount
           /\ Total(PayoutOf, S \ {t}) = Total(PayoutOf, S) - ticket[t].payout
           /\ Total(ReserveOf, S \ {t}) = Total(ReserveOf, S) - ticket[t].reservedAmount
<1>1. S \subseteq TicketIds /\ IsFiniteSet(S)
  BY OpenFinite DEF OpenTickets
<1>2. \A s \in S : RiskOf[s] \in Nat /\ PayoutOf[s] \in Nat /\ ReserveOf[s] \in Nat
  BY <1>1, AmountsType
<1>3. /\ RiskOf[t] = ticket[t].riskAmount /\ PayoutOf[t] = ticket[t].payout
      /\ ReserveOf[t] = ticket[t].reservedAmount
  BY <1>1, AmountsType
<1>4. /\ Total(RiskOf, S \ {t}) \in Nat /\ Total(PayoutOf, S \ {t}) \in Nat
      /\ Total(ReserveOf, S \ {t}) \in Nat
  <2>1. S \ {t} \subseteq TicketIds
    BY <1>1
  <2> QED
    BY <2>1, OpenSums
<1>5. Total(RiskOf, S) = Total(RiskOf, S \ {t}) + RiskOf[t]
  <2>1. \A s \in S : RiskOf[s] \in Nat
    BY <1>2
  <2> QED
    BY <1>1, <2>1, TotalRemove
<1>6. Total(PayoutOf, S) = Total(PayoutOf, S \ {t}) + PayoutOf[t]
  <2>1. \A s \in S : PayoutOf[s] \in Nat
    BY <1>2
  <2> QED
    BY <1>1, <2>1, TotalRemove
<1>7. Total(ReserveOf, S) = Total(ReserveOf, S \ {t}) + ReserveOf[t]
  <2>1. \A s \in S : ReserveOf[s] \in Nat
    BY <1>2
  <2> QED
    BY <1>1, <2>1, TotalRemove
<1> QED
  BY <1>1, <1>2, <1>3, <1>4, <1>5, <1>6, <1>7

---------------------------------------------------------------------------
(* Exposure records. *)

\* What a ticket adds to an exposure record, and what it takes back.
ExposureGrows(x, y, outcome, risk, payout, reserve) ==
    /\ y.totalUserRisk = x.totalUserRisk + risk
    /\ y.lpReserveAllocated = x.lpReserveAllocated + reserve
    /\ y.payoutIfYes = x.payoutIfYes + (IF outcome = YES THEN payout ELSE 0)
    /\ y.payoutIfNo = x.payoutIfNo + (IF outcome = NO THEN payout ELSE 0)
    /\ y.reserveIfYes = x.reserveIfYes + (IF outcome = YES THEN reserve ELSE 0)
    /\ y.reserveIfNo = x.reserveIfNo + (IF outcome = NO THEN reserve ELSE 0)

ExposureShrinks(x, y, tk) ==
    /\ y.totalUserRisk = x.totalUserRisk - tk.riskAmount
    /\ y.lpReserveAllocated = x.lpReserveAllocated - tk.reservedAmount
    /\ y.payoutIfYes = x.payoutIfYes - (IF tk.outcome = YES THEN tk.payout ELSE 0)
    /\ y.payoutIfNo = x.payoutIfNo - (IF tk.outcome = NO THEN tk.payout ELSE 0)
    /\ y.reserveIfYes = x.reserveIfYes - (IF tk.outcome = YES THEN tk.reservedAmount ELSE 0)
    /\ y.reserveIfNo = x.reserveIfNo - (IF tk.outcome = NO THEN tk.reservedAmount ELSE 0)
    /\ (/\ y.totalUserRisk >= 0 /\ y.lpReserveAllocated >= 0
        /\ y.payoutIfYes >= 0 /\ y.payoutIfNo >= 0
        /\ y.reserveIfYes >= 0 /\ y.reserveIfNo >= 0) => y \in Exposures

\* Adding a ticket raises its side and the totals.
LEMMA WithTicketFields ==
    ASSUME NEW x \in Exposures, NEW outcome \in Outcomes,
           NEW risk \in Nat, NEW payout \in Nat, NEW reserve \in Nat,
           NEW y, y = WithTicket(x, outcome, risk, payout, reserve)
    PROVE  /\ y \in Exposures
           /\ ExposureGrows(x, y, outcome, risk, payout, reserve)
<1>1. CASE outcome = YES
  <2>1. y = [x EXCEPT !.totalUserRisk = @ + risk, !.lpReserveAllocated = @ + reserve,
                      !.payoutIfYes = @ + payout, !.reserveIfYes = @ + reserve,
                      !.payoutIfNo = @, !.reserveIfNo = @]
    BY <1>1 DEF WithTicket
  <2>2. y = [totalUserRisk |-> x.totalUserRisk + risk, lpReserveAllocated |-> x.lpReserveAllocated + reserve,
             payoutIfYes |-> x.payoutIfYes + payout, payoutIfNo |-> x.payoutIfNo,
             reserveIfYes |-> x.reserveIfYes + reserve, reserveIfNo |-> x.reserveIfNo]
    BY <2>1 DEF Exposures
  <2> QED
    BY <1>1, <2>2 DEF Exposures, YES, NO, ExposureGrows
<1>2. CASE outcome = NO
  <2>1. y = [x EXCEPT !.totalUserRisk = @ + risk, !.lpReserveAllocated = @ + reserve,
                      !.payoutIfYes = @, !.reserveIfYes = @,
                      !.payoutIfNo = @ + payout, !.reserveIfNo = @ + reserve]
    BY <1>2 DEF WithTicket, YES, NO
  <2>2. y = [totalUserRisk |-> x.totalUserRisk + risk, lpReserveAllocated |-> x.lpReserveAllocated + reserve,
             payoutIfYes |-> x.payoutIfYes, payoutIfNo |-> x.payoutIfNo + payout,
             reserveIfYes |-> x.reserveIfYes, reserveIfNo |-> x.reserveIfNo + reserve]
    BY <2>1 DEF Exposures
  <2> QED
    BY <1>2, <2>2 DEF Exposures, YES, NO, ExposureGrows
<1> QED
  BY <1>1, <1>2 DEF Outcomes

\* Taking a ticket out lowers them again.
LEMMA WithoutTicketFields ==
    ASSUME NEW x \in Exposures, NEW tk \in Tickets, NEW y, y = WithoutTicket(x, tk)
    PROVE  ExposureShrinks(x, y, tk)
<1>0. /\ tk.outcome \in Outcomes /\ tk.riskAmount \in Nat /\ tk.payout \in Nat
      /\ tk.reservedAmount \in Nat
  BY DEF Tickets
<1>1. CASE tk.outcome = YES
  <2>1. y = [x EXCEPT !.totalUserRisk = @ - tk.riskAmount, !.lpReserveAllocated = @ - tk.reservedAmount,
                      !.payoutIfYes = @ - tk.payout, !.reserveIfYes = @ - tk.reservedAmount,
                      !.payoutIfNo = @, !.reserveIfNo = @]
    BY <1>1 DEF WithoutTicket
  <2>2. y = [totalUserRisk |-> x.totalUserRisk - tk.riskAmount, lpReserveAllocated |-> x.lpReserveAllocated - tk.reservedAmount,
             payoutIfYes |-> x.payoutIfYes - tk.payout, payoutIfNo |-> x.payoutIfNo,
             reserveIfYes |-> x.reserveIfYes - tk.reservedAmount, reserveIfNo |-> x.reserveIfNo]
    BY <2>1 DEF Exposures
  <2> QED
    BY <1>0, <1>1, <2>2 DEF Exposures, YES, NO, ExposureShrinks
<1>2. CASE tk.outcome = NO
  <2>1. y = [x EXCEPT !.totalUserRisk = @ - tk.riskAmount, !.lpReserveAllocated = @ - tk.reservedAmount,
                      !.payoutIfYes = @, !.reserveIfYes = @,
                      !.payoutIfNo = @ - tk.payout, !.reserveIfNo = @ - tk.reservedAmount]
    BY <1>2 DEF WithoutTicket, YES, NO
  <2>2. y = [totalUserRisk |-> x.totalUserRisk - tk.riskAmount, lpReserveAllocated |-> x.lpReserveAllocated - tk.reservedAmount,
             payoutIfYes |-> x.payoutIfYes, payoutIfNo |-> x.payoutIfNo - tk.payout,
             reserveIfYes |-> x.reserveIfYes, reserveIfNo |-> x.reserveIfNo - tk.reservedAmount]
    BY <2>1 DEF Exposures
  <2> QED
    BY <1>0, <1>2, <2>2 DEF Exposures, YES, NO, ExposureShrinks
<1> QED
  BY <1>0, <1>1, <1>2 DEF Outcomes

---------------------------------------------------------------------------
(* Token transfers. *)

\* The contracts and the users hold different accounts.
LEMMA Addresses ==
    /\ Pool \in Accounts /\ Router \in Accounts /\ Insurance \in Accounts /\ Treasury \in Accounts
    /\ Pool \notin {Router, Insurance, Treasury} /\ Router \notin {Insurance, Treasury}
    /\ Insurance # Treasury
    /\ \A u \in Users : u \in Accounts /\ u \notin {Pool, Router, Insurance, Treasury}
BY ProtocolAssumption DEF Accounts, Contracts

\* A transfer out of sufficient funds.
LEMMA TransferType ==
    ASSUME NEW b \in [Accounts -> Nat], NEW from \in Accounts, NEW to \in Accounts, from # to,
           NEW amount \in Nat, amount <= b[from], NEW c, c = Transferred(b, from, to, amount)
    PROVE  /\ c \in [Accounts -> Nat]
           /\ c[from] = b[from] - amount /\ c[to] = b[to] + amount
           /\ \A a \in Accounts \ {from, to} : c[a] = b[a]
<1>1. c = [b EXCEPT ![from] = b[from] - amount, ![to] = b[to] + amount]
  BY DEF Transferred
<1>2. c = [a \in Accounts |-> IF a = from THEN b[from] - amount
                             ELSE IF a = to THEN b[to] + amount ELSE b[a]]
  BY <1>1
<1>3. b[from] - amount \in Nat /\ b[to] + amount \in Nat
  OBVIOUS
<1> QED
  BY <1>2, <1>3

\* Routing a fee out of the router's balance.
LEMMA FeeRoutedType ==
    ASSUME NEW b \in [Accounts -> Nat], NEW fee \in Nat, fee <= b[Router],
           feeSplit \in Splits, NEW c, c = FeeRouted(b, fee)
    PROVE  /\ c \in [Accounts -> Nat]
           /\ ShareOf(fee, feeSplit.lp) \in Nat
           /\ c[Pool] = b[Pool] + ShareOf(fee, feeSplit.lp)
           /\ c[Router] = b[Router] - fee
           /\ \A a \in Accounts \ Contracts : c[a] = b[a]
<1> DEFINE l == ShareOf(fee, feeSplit.lp)
           i == ShareOf(fee, feeSplit.insurance)
<1>1. l \in Nat /\ i \in Nat /\ fee - l - i \in Nat
  BY SplitFits
<1>2. c = [b EXCEPT ![Router] = @ - fee, ![Pool] = @ + l, ![Insurance] = @ + i,
                    ![Treasury] = @ + (fee - l - i)]
  BY DEF FeeRouted
<1> HIDE DEF l, i
<1>3. /\ b[Router] - fee \in Nat /\ b[Pool] + l \in Nat /\ b[Insurance] + i \in Nat
      /\ b[Treasury] + (fee - l - i) \in Nat
  BY <1>1, Addresses
<1>4. c = [a \in Accounts |-> IF a = Router THEN b[Router] - fee
                             ELSE IF a = Pool THEN b[Pool] + l
                             ELSE IF a = Insurance THEN b[Insurance] + i
                             ELSE IF a = Treasury THEN b[Treasury] + (fee - l - i) ELSE b[a]]
  BY <1>2, Addresses
<1> QED
  BY <1>1, <1>3, <1>4, Addresses DEF l, Contracts

---------------------------------------------------------------------------
(* Steps that leave tickets, exposure and the vault's ledger alone. *)

\* With the tickets, every sum over open ones stays.
LEMMA SumsStay ==
    ASSUME ticket' = ticket
    PROVE  /\ RiskOf' = RiskOf /\ PayoutOf' = PayoutOf /\ ReserveOf' = ReserveOf
           /\ OpenTickets' = OpenTickets
           /\ \A m \in Markets : /\ OpenOn(m)' = OpenOn(m)
                                /\ \A outcome \in Outcomes : OpenSide(m, outcome)' = OpenSide(m, outcome)
           /\ \A u \in Users : OpenOf(u)' = OpenOf(u)
BY DEF RiskOf, PayoutOf, ReserveOf, OpenTickets, OpenOn, OpenSide, OpenOf

\* Unless tickets, exposures or the escrow change, the books still reconcile.
LEMMA BooksStay ==
    ASSUME EngineInv, UNCHANGED <<positions, exposure, userReserveUsed>>,
           pool'.reservedAssets = pool.reservedAssets,
           pool'.lockedUserRisk = pool.lockedUserRisk
    PROVE  EscrowReconciles' /\ ExposureReconciles' /\ TicketsAddUp'
<1>0. ticket' = ticket /\ exposure' = exposure /\ userReserveUsed' = userReserveUsed
  BY DEF positions
<1> DEFINE R == RiskOf  P == PayoutOf  V == ReserveOf
<1>1. /\ R' = R /\ P' = P /\ V' = V
      /\ OpenTickets' = OpenTickets
      /\ \A m \in Markets : /\ OpenOn(m)' = OpenOn(m)
                           /\ OpenSide(m, YES)' = OpenSide(m, YES)
                           /\ OpenSide(m, NO)' = OpenSide(m, NO)
      /\ \A u \in Users : OpenOf(u)' = OpenOf(u)
  BY <1>0, SumsStay DEF Outcomes
<1>2. EscrowReconciles'
  BY <1>1, Zenon DEF EngineInv, EscrowReconciles
<1>3. ExposureReconciles'
  BY <1>0, <1>1, Zenon DEF EngineInv, ExposureReconciles
<1>4. TicketsAddUp'
  BY <1>0 DEF EngineInv, TicketsAddUp
<1> QED
  BY <1>2, <1>3, <1>4

\* Time, the owner's switches, and transfers that do not touch the vault's
\* own tokens or bring it more.
LEMMA QuietStep ==
    ASSUME EngineInv, UNCHANGED <<book, positions, pool>>,
           now' \in 0..MaxTime, paused' \in BOOLEAN, feeSplit' \in FeeSplits,
           usdc' \in [Accounts -> Nat], usdc'[Pool] >= usdc[Pool]
    PROVE  EngineInv'
<1>0. /\ market' = market /\ exposure' = exposure /\ userReserveUsed' = userReserveUsed
      /\ ticket' = ticket /\ totalSupply' = totalSupply /\ pool' = pool
  BY DEF book, positions
<1>1. EscrowReconciles' /\ ExposureReconciles' /\ TicketsAddUp'
  BY <1>0, BooksStay DEF positions
<1>2. TypeOK'
  BY <1>0, Zenon DEF EngineInv, TypeOK
<1>3. SharesAddUp' /\ BooksHaveDepth'
  BY <1>0, Zenon DEF EngineInv, SharesAddUp, BooksHaveDepth
<1>4. EscrowFunded'
  <2>1. /\ pool.internalAssets \in Nat /\ usdc[Pool] \in Nat /\ (usdc')[Pool] \in Nat
        /\ pool.reservedAssets + pool.lockedUserRisk <= pool.internalAssets
        /\ pool.internalAssets <= usdc[Pool]
    BY Addresses DEF EngineInv, EscrowFunded, TypeOK, Pools
  <2>2. (usdc')[Pool] >= usdc[Pool]
    OBVIOUS
  <2>3. pool.internalAssets <= (usdc')[Pool]
    BY <2>1, <2>2
  <2> QED
    BY <1>0, <2>1, <2>3 DEF EscrowFunded
<1> QED
  BY <1>1, <1>2, <1>3, <1>4 DEF EngineInv

\* A market changes state and keeps a sized book.
LEMMA MarketStep ==
    ASSUME EngineInv, NEW m \in Markets, NEW mkt \in MarketRecords, mkt.impactLiquidity > 0,
           MarketBecomes(m, mkt)
    PROVE  EngineInv'
<1>0. /\ market' = [market EXCEPT ![m] = mkt]
      /\ exposure' = exposure /\ userReserveUsed' = userReserveUsed
      /\ ticket' = ticket /\ totalSupply' = totalSupply /\ pool' = pool
      /\ now' = now /\ paused' = paused /\ feeSplit' = feeSplit /\ usdc' = usdc
  BY DEF MarketBecomes, positions, admin
<1>1. EscrowReconciles' /\ ExposureReconciles' /\ TicketsAddUp'
  BY <1>0, BooksStay DEF positions
<1>2. market' \in [Markets -> MarketRecords]
  BY <1>0 DEF EngineInv, TypeOK
<1>3. TypeOK'
  BY <1>0, <1>2, Zenon DEF EngineInv, TypeOK
<1>4. BooksHaveDepth'
  BY <1>0 DEF EngineInv, TypeOK, BooksHaveDepth
<1>5. SharesAddUp' /\ EscrowFunded'
  BY <1>0, Zenon DEF EngineInv, SharesAddUp, EscrowFunded
<1> QED
  BY <1>1, <1>3, <1>4, <1>5 DEF EngineInv

---------------------------------------------------------------------------
(* Deposits and withdrawals. *)

\* The pool's fields are naturals.
LEMMA PoolType ==
    ASSUME TypeOK
    PROVE  /\ pool.totalShares \in Nat /\ pool.sharesOf \in [LPs -> Nat]
           /\ pool.internalAssets \in Nat /\ pool.reservedAssets \in Nat
           /\ pool.lockedUserRisk \in Nat /\ pool.totalFeesEarned \in Nat
           /\ pool.totalUserLossesReceived \in Nat
           /\ ManagedAssets(pool) = pool.internalAssets - pool.lockedUserRisk
           /\ AvailableAssets(pool) = pool.internalAssets - pool.lockedUserRisk - pool.reservedAssets
BY DEF TypeOK, Pools, ManagedAssets, AvailableAssets

\* LPs are finitely many, and each of them a user.
LEMMA LpsFinite == IsFiniteSet(LPs) /\ LPs \subseteq Users
BY ProtocolAssumption, FS_Subset DEF Users

\* Shares change for one LP, and the sum with them.
LEMMA SharesMove ==
    ASSUME NEW a \in [LPs -> Nat], NEW lp \in LPs, NEW d \in Int, a[lp] + d \in Nat,
           NEW b, b = [a EXCEPT ![lp] = a[lp] + d]
    PROVE  /\ b \in [LPs -> Nat]
           /\ Total(b, LPs) = Total(a, LPs) + d
           /\ Total(b, LPs) \in Nat
<1>1. b \in [LPs -> Nat] /\ b[lp] = a[lp] + d /\ \A x \in LPs \ {lp} : b[x] = a[x]
  OBVIOUS
<1>2. IsFiniteSet(LPs) /\ IsFiniteSet(LPs \ {lp})
  BY LpsFinite, FS_RemoveElement
<1>3. Total(a, LPs) = Total(a, LPs \ {lp}) + a[lp]
  <2>1. \A x \in LPs : a[x] \in Nat
    OBVIOUS
  <2> QED
    BY <1>2, <2>1, TotalRemove
<1>4. Total(b, LPs) = Total(b, LPs \ {lp}) + b[lp]
  <2>1. \A x \in LPs : b[x] \in Nat
    BY <1>1
  <2> QED
    BY <1>2, <2>1, TotalRemove
<1>5. Total(a, LPs \ {lp}) = Total(b, LPs \ {lp})
  BY <1>1, TotalSame
<1>6. Total(a, LPs \ {lp}) \in Nat /\ Total(b, LPs) \in Nat
  <2>1. \A x \in LPs \ {lp} : a[x] \in Nat
    OBVIOUS
  <2>2. \A x \in LPs : b[x] \in Nat
    BY <1>1
  <2> QED
    BY <1>2, <2>1, <2>2, TotalType
<1> QED
  BY <1>1, <1>3, <1>4, <1>5, <1>6

\* The escrow and the books after a step that moves shares and free equity.
LEMMA LpStep ==
    ASSUME EngineInv, UNCHANGED <<now, admin, book, positions>>,
           pool' \in Pools, usdc' \in [Accounts -> Nat],
           pool'.reservedAssets = pool.reservedAssets,
           pool'.lockedUserRisk = pool.lockedUserRisk,
           EscrowFunded', SharesAddUp'
    PROVE  EngineInv'
<1>0. /\ market' = market /\ exposure' = exposure /\ userReserveUsed' = userReserveUsed
      /\ ticket' = ticket /\ totalSupply' = totalSupply
      /\ now' = now /\ paused' = paused /\ feeSplit' = feeSplit
  BY DEF book, positions, admin
<1>1. EscrowReconciles' /\ ExposureReconciles' /\ TicketsAddUp'
  BY <1>0, BooksStay DEF positions
<1>2. TypeOK'
  BY <1>0, Zenon DEF EngineInv, TypeOK
<1>3. BooksHaveDepth'
  BY <1>0, Zenon DEF EngineInv, BooksHaveDepth
<1> QED
  BY <1>1, <1>2, <1>3 DEF EngineInv

\* A deposit mints the shares the ledger divides it into.
LEMMA DepositStep ==
    ASSUME EngineInv, NEW lp \in LPs, NEW amount \in Deposits, Deposit(lp, amount)
    PROVE  /\ EngineInv'
           /\ pool.totalShares > 0 =>
                  ManagedAssets(pool') * pool.totalShares >= ManagedAssets(pool) * pool'.totalShares
<1> DEFINE minted == MintedShares(pool, amount)
           M == ManagedAssets(pool)
<1>0. TypeOK /\ amount \in Nat /\ CanDeposit(pool, amount) /\ SharesAddUp /\ EscrowFunded
      /\ UNCHANGED <<now, admin, book, positions>>
      /\ pool' = Deposited(pool, lp, amount)
  BY ProtocolAssumption DEF EngineInv, Deposit
<1>1. /\ M \in Nat /\ minted > 0
      /\ pool.totalShares # 0 => M > 0
  BY <1>0, PoolType DEF CanDeposit, ManagedReadable
<1>2. /\ minted \in Nat
      /\ pool.totalShares # 0 => minted * M <= amount * pool.totalShares
  <2>1. CASE pool.totalShares = 0
    BY <1>0, <2>1 DEF MintedShares
  <2>2. CASE pool.totalShares # 0
    <3>1. amount * pool.totalShares \in Nat /\ M \in Nat \ {0}
      BY <1>0, <1>1, <2>2, PoolType
    <3>2. minted = (amount * pool.totalShares) \div M
      BY <2>2 DEF MintedShares
    <3> HIDE DEF M, minted
    <3> QED
      BY <3>1, <3>2, DivBounds
  <2> QED
    BY <2>1, <2>2
<1>3. pool' = [pool EXCEPT !.sharesOf = [pool.sharesOf EXCEPT ![lp] = pool.sharesOf[lp] + minted],
                           !.totalShares = pool.totalShares + minted,
                           !.internalAssets = pool.internalAssets + amount]
  BY <1>0 DEF Deposited
<1> HIDE DEF minted, M
<1> DEFINE held == [pool.sharesOf EXCEPT ![lp] = pool.sharesOf[lp] + minted]
<1>4. held \in [LPs -> Nat] /\ Total(held, LPs) = Total(pool.sharesOf, LPs) + minted
  <2>1. pool.sharesOf \in [LPs -> Nat] /\ pool.sharesOf[lp] + minted \in Nat /\ minted \in Int
    BY <1>0, <1>2, PoolType
  <2> QED
    BY <2>1, SharesMove
<1> HIDE DEF held
<1>5. /\ pool' \in Pools /\ pool'.sharesOf = held
      /\ pool'.totalShares = pool.totalShares + minted
      /\ pool'.internalAssets = pool.internalAssets + amount
      /\ pool'.reservedAssets = pool.reservedAssets
      /\ pool'.lockedUserRisk = pool.lockedUserRisk
  <2>1. pool \in Pools
    BY <1>0 DEF TypeOK
  <2>2. pool' = [pool EXCEPT !.sharesOf = held, !.totalShares = pool.totalShares + minted,
                             !.internalAssets = pool.internalAssets + amount]
    BY <1>3 DEF held
  <2>3. pool.totalShares + minted \in Nat /\ pool.internalAssets + amount \in Nat
    BY <1>0, <1>2, PoolType
  <2> QED
    BY <1>4, <2>1, <2>2, <2>3 DEF Pools
<1>6. SharesAddUp'
  BY <1>0, <1>4, <1>5 DEF SharesAddUp
<1>7. usdc' \in [Accounts -> Nat] /\ (usdc')[Pool] = usdc[Pool] + amount
  <2>1. lp \in Accounts /\ lp # Pool /\ Pool \in Accounts
    BY Addresses, LpsFinite
  <2>2. usdc \in [Accounts -> Nat] /\ amount <= usdc[lp] /\ usdc' = Transferred(usdc, lp, Pool, amount)
    BY <1>0, <2>1 DEF TypeOK, Deposit
  <2> QED
    BY <1>0, <2>1, <2>2, TransferType
<1>8. EscrowFunded'
  <2>1. pool.internalAssets \in Nat /\ usdc[Pool] \in Nat /\ pool.reservedAssets \in Nat
        /\ pool.lockedUserRisk \in Nat
    BY <1>0, Addresses, PoolType DEF TypeOK
  <2> QED
    BY <1>0, <1>5, <1>7, <2>1 DEF EscrowFunded
<1>9. EngineInv'
  BY <1>0, <1>5, <1>6, <1>7, <1>8, LpStep
<1>10. ASSUME pool.totalShares > 0
       PROVE  ManagedAssets(pool') * pool.totalShares >= ManagedAssets(pool) * pool'.totalShares
  <2>1. pool.totalShares \in Nat /\ pool.internalAssets \in Nat /\ pool.lockedUserRisk \in Nat
    BY <1>0, PoolType
  <2>2. ManagedAssets(pool') = M + amount /\ ManagedAssets(pool) = M
    BY <1>5, <2>1, PoolType, <1>0 DEF ManagedAssets, M
  <2>3. minted * M <= amount * pool.totalShares
    BY <1>2, <1>10
  <2>4. (M + amount) * pool.totalShares >= M * (pool.totalShares + minted)
    BY <1>0, <1>1, <1>2, <2>1, <2>3, SMT
  <2> QED
    BY <1>5, <2>2, <2>4
<1> QED
  BY <1>9, <1>10

\* A withdrawal burns shares for at most their part of the equity, none of it
\* reserved.
LEMMA WithdrawStep ==
    ASSUME EngineInv, NEW lp \in LPs, NEW shares \in Int, Withdraw(lp, shares)
    PROVE  /\ EngineInv'
           /\ ManagedAssets(pool') * pool.totalShares >= ManagedAssets(pool) * pool'.totalShares
<1> DEFINE assets == AssetsFor(pool, shares)
           M == ManagedAssets(pool)
           S == pool.totalShares
<1>0. TypeOK /\ CanWithdraw(pool, lp, shares) /\ SharesAddUp /\ EscrowFunded
      /\ UNCHANGED <<now, admin, book, positions>>
      /\ pool' = Withdrawn(pool, lp, shares)
      /\ usdc' = Transferred(usdc, Pool, lp, assets) /\ usdc[Pool] >= assets
  BY DEF EngineInv, Withdraw
<1>1. /\ S \in Nat \ {0} /\ M \in Nat /\ shares \in Nat /\ shares > 0
      /\ shares <= pool.sharesOf[lp] /\ assets <= AvailableAssets(pool)
  BY <1>0, PoolType DEF CanWithdraw
<1>2. shares <= S
  <2>1. \A x \in LPs : pool.sharesOf[x] \in Nat
    BY <1>0, PoolType
  <2>2. pool.sharesOf[lp] <= S
    BY <1>0, <2>1, LpsFinite, TotalAtLeast DEF SharesAddUp
  <2> QED
    BY <1>1, <2>1, <2>2
<1>3. assets \in Nat /\ assets * S <= shares * M
  <2>1. shares * M \in Nat
    BY <1>1
  <2>2. assets = (shares * M) \div S
    BY DEF AssetsFor
  <2> HIDE DEF M, S, assets
  <2> QED
    BY <1>1, <2>1, <2>2, DivBounds
<1>4. pool' = [pool EXCEPT !.sharesOf = [pool.sharesOf EXCEPT ![lp] = pool.sharesOf[lp] - shares],
                           !.totalShares = S - shares,
                           !.internalAssets = pool.internalAssets - assets]
  BY <1>0 DEF Withdrawn
<1> HIDE DEF M, assets
<1> DEFINE held == [pool.sharesOf EXCEPT ![lp] = pool.sharesOf[lp] - shares]
<1>5. held \in [LPs -> Nat] /\ Total(held, LPs) = Total(pool.sharesOf, LPs) - shares
  <2>1. pool.sharesOf \in [LPs -> Nat] /\ pool.sharesOf[lp] \in Nat
    BY <1>0, PoolType
  <2>2. 0 - shares \in Int /\ pool.sharesOf[lp] + (0 - shares) \in Nat
    BY <1>1, <2>1
  <2>3. held = [pool.sharesOf EXCEPT ![lp] = pool.sharesOf[lp] + (0 - shares)]
    BY <1>1, <2>1
  <2>4. held \in [LPs -> Nat] /\ Total(held, LPs) = Total(pool.sharesOf, LPs) + (0 - shares)
    BY <2>1, <2>2, <2>3, SharesMove
  <2>5. Total(pool.sharesOf, LPs) \in Nat
    BY <1>0, <1>1 DEF SharesAddUp
  <2> QED
    BY <1>1, <2>4, <2>5
<1> HIDE DEF held
<1>6. /\ pool.internalAssets \in Nat /\ usdc[Pool] \in Nat /\ pool.reservedAssets \in Nat
      /\ pool.lockedUserRisk \in Nat
      /\ pool.reservedAssets + pool.lockedUserRisk + assets <= pool.internalAssets
      /\ pool.internalAssets <= usdc[Pool]
  BY <1>0, <1>1, <1>3, Addresses, PoolType DEF TypeOK, EscrowFunded
<1>7. /\ pool' \in Pools /\ pool'.sharesOf = held
      /\ pool'.totalShares = S - shares
      /\ pool'.internalAssets = pool.internalAssets - assets
      /\ pool'.reservedAssets = pool.reservedAssets
      /\ pool'.lockedUserRisk = pool.lockedUserRisk
  <2>1. pool \in Pools
    BY <1>0 DEF TypeOK
  <2>2. pool' = [pool EXCEPT !.sharesOf = held, !.totalShares = S - shares,
                             !.internalAssets = pool.internalAssets - assets]
    BY <1>4 DEF held
  <2>3. S - shares \in Nat /\ pool.internalAssets - assets \in Nat
    BY <1>1, <1>2, <1>3, <1>6
  <2> HIDE DEF S
  <2> QED
    BY <1>5, <2>1, <2>2, <2>3 DEF Pools
<1>8. SharesAddUp'
  BY <1>0, <1>5, <1>7 DEF SharesAddUp
<1>9. usdc' \in [Accounts -> Nat] /\ (usdc')[Pool] = usdc[Pool] - assets
  <2>1. lp \in Accounts /\ Pool # lp /\ Pool \in Accounts
    BY Addresses, LpsFinite
  <2>2. usdc \in [Accounts -> Nat] /\ assets <= usdc[Pool]
    BY <1>0, <1>3, <1>6 DEF TypeOK
  <2> QED
    BY <1>0, <1>3, <2>1, <2>2, TransferType
<1>10. EscrowFunded'
  BY <1>3, <1>6, <1>7, <1>9 DEF EscrowFunded
<1>11. EngineInv'
  BY <1>0, <1>7, <1>8, <1>9, <1>10, LpStep
<1>12. ManagedAssets(pool') * S >= M * pool'.totalShares
  <2>1. ManagedAssets(pool') = M - assets
    BY <1>0, <1>3, <1>6, <1>7 DEF ManagedAssets, M
  <2>2. (M - assets) * S >= M * (S - shares)
    <3> HIDE DEF S
    <3> QED
      BY <1>1, <1>3, SMT
  <2> QED
    BY <1>7, <2>1, <2>2
<1> QED
  BY <1>11, <1>12 DEF M

---------------------------------------------------------------------------
(* Buying. *)

\* What an accepted purchase mints, moves and reserves.
LEMMA BuyEffect ==
    ASSUME EngineInv, NEW buyer \in Traders, NEW m \in Markets, NEW outcome \in Outcomes,
           NEW risk \in Risks, NEW boostBps \in Boosts,
           BuyTicket(buyer, m, outcome, risk, boostBps),
           NEW payout, payout = QuotedPayout(m, outcome, risk, boostBps),
           NEW reserve, reserve = payout - risk,
           NEW lpFee, lpFee = ShareOf(Fee(risk, boostBps), feeSplit.lp),
           NEW tk, tk = [status |-> "Open", market |-> m, owner |-> buyer,
                         outcome |-> outcome, riskAmount |-> risk,
                         payout |-> payout, reservedAmount |-> reserve]
    PROVE  /\ risk \in Nat \ {0} /\ payout \in Nat /\ reserve \in Nat /\ lpFee \in Nat
           /\ tk \in Tickets /\ Mint(tk)
           /\ AvailableAssets(pool) >= reserve
           /\ pool' \in Pools /\ pool'.sharesOf = pool.sharesOf
           /\ pool'.totalShares = pool.totalShares
           /\ pool'.reservedAssets = pool.reservedAssets + reserve
           /\ pool'.lockedUserRisk = pool.lockedUserRisk + risk
           /\ pool'.internalAssets = pool.internalAssets + risk + lpFee
           /\ usdc' \in [Accounts -> Nat]
           /\ (usdc')[Pool] = usdc[Pool] + risk + lpFee
           /\ (usdc')[Router] = usdc[Router]
<1> DEFINE price == PriceForOutcome(market[m], outcome)
           fee == Fee(risk, boostBps)
<1>0. TypeOK /\ BooksHaveDepth /\ buyer \in Users
  BY DEF EngineInv, Users
<1>1. QuoteAccepted(m, buyer, outcome, risk, boostBps)
  BY DEF BuyTicket
<1>2. risk \in Nat /\ boostBps \in Nat
  BY ProtocolAssumption
<1>3. /\ risk \in Nat \ {0} /\ boostBps >= BPS /\ Quotable(price, boostBps)
      /\ payout - risk >= 0 /\ AvailableAssets(pool) >= reserve
  BY <1>1, <1>2, ProtocolAssumption DEF QuoteAccepted, CanReserve
<1>4. payout \in Nat /\ reserve \in Nat
  <2>1. price \in Nat
    BY <1>0 DEF TypeOK, MarketRecords, PriceForOutcome
  <2>2. payout = Payout(risk, price, boostBps)
    BY DEF QuotedPayout
  <2> HIDE DEF price
  <2>3. payout \in Nat
    BY <1>2, <1>3, <2>1, <2>2, PayoutType
  <2> QED
    BY <1>2, <1>3, <2>3
<1>5. fee \in Nat
  BY <1>2, <1>3, FeeType
<1>6. feeSplit \in Splits
  BY <1>0, ProtocolAssumption DEF TypeOK
<1> HIDE DEF fee, price
<1>7. tk \in Tickets
  BY <1>0, <1>3, <1>4 DEF Tickets
<1>8. Mint(tk)
  BY DEF BuyTicket, Mint
<1>9. /\ usdc' \in [Accounts -> Nat] /\ lpFee \in Nat
      /\ (usdc')[Pool] = usdc[Pool] + risk + lpFee
      /\ (usdc')[Router] = usdc[Router]
  <2> DEFINE b == Transferred(usdc, buyer, Pool, risk)
             c == Transferred(b, buyer, Router, fee)
  <2>1. /\ usdc' = FeeRouted(c, fee) /\ usdc[buyer] >= risk + fee
    BY DEF BuyTicket, fee
  <2>2. /\ usdc \in [Accounts -> Nat] /\ buyer \in Accounts /\ Pool \in Accounts /\ Router \in Accounts
        /\ buyer # Pool /\ buyer # Router /\ Pool # Router
    BY <1>0, Addresses DEF TypeOK
  <2>3. risk <= usdc[buyer] /\ fee <= usdc[buyer] - risk
    BY <1>2, <1>5, <2>1, <2>2
  <2>4. /\ b \in [Accounts -> Nat] /\ b[buyer] = usdc[buyer] - risk
        /\ b[Pool] = usdc[Pool] + risk /\ b[Router] = usdc[Router]
    <3>1. b = Transferred(usdc, buyer, Pool, risk)
      OBVIOUS
    <3> HIDE DEF b
    <3> QED
      BY <1>2, <2>2, <2>3, <3>1, TransferType
  <2> HIDE DEF b
  <2>5. /\ c \in [Accounts -> Nat] /\ c[Pool] = usdc[Pool] + risk
        /\ c[Router] = usdc[Router] + fee
    <3>1. c = Transferred(b, buyer, Router, fee)
      OBVIOUS
    <3>2. fee <= b[buyer]
      BY <2>3, <2>4
    <3> HIDE DEF c
    <3>3. /\ c \in [Accounts -> Nat] /\ c[Router] = b[Router] + fee
          /\ \A a \in Accounts \ {buyer, Router} : c[a] = b[a]
      BY <1>5, <2>2, <2>4, <3>1, <3>2, TransferType
    <3> QED
      BY <2>2, <2>4, <3>3
  <2> HIDE DEF c
  <2>6. fee <= c[Router]
    BY <1>5, <2>2, <2>5
  <2>7. /\ usdc' \in [Accounts -> Nat] /\ ShareOf(fee, feeSplit.lp) \in Nat
        /\ (usdc')[Pool] = c[Pool] + ShareOf(fee, feeSplit.lp)
        /\ (usdc')[Router] = c[Router] - fee
    BY <1>5, <1>6, <2>1, <2>5, <2>6, FeeRoutedType
  <2>8. usdc[Router] \in Nat
    BY <2>2
  <2> QED
    BY <1>5, <2>5, <2>7, <2>8 DEF fee
<1>10. /\ pool' \in Pools /\ pool'.sharesOf = pool.sharesOf
       /\ pool'.totalShares = pool.totalShares
       /\ pool'.reservedAssets = pool.reservedAssets + reserve
       /\ pool'.lockedUserRisk = pool.lockedUserRisk + risk
       /\ pool'.internalAssets = pool.internalAssets + risk + lpFee
  <2>1. pool' = FeeCredited(RiskLocked(ReservedForTicket(pool, reserve), risk), lpFee)
    BY DEF BuyTicket
  <2>2. pool \in Pools
    BY <1>0 DEF TypeOK
  <2> DEFINE p1 == ReservedForTicket(pool, reserve)
             p2 == RiskLocked(p1, risk)
  <2>3. /\ p1 \in Pools /\ p1.sharesOf = pool.sharesOf /\ p1.totalShares = pool.totalShares
        /\ p1.reservedAssets = pool.reservedAssets + reserve
        /\ p1.lockedUserRisk = pool.lockedUserRisk /\ p1.internalAssets = pool.internalAssets
    <3>1. p1 = [pool EXCEPT !.reservedAssets = @ + reserve]
      BY DEF ReservedForTicket
    <3> HIDE DEF p1
    <3> QED
      BY <1>4, <2>2, <3>1 DEF Pools
  <2> HIDE DEF p1
  <2>4. /\ p2 \in Pools /\ p2.sharesOf = p1.sharesOf /\ p2.totalShares = p1.totalShares
        /\ p2.reservedAssets = p1.reservedAssets
        /\ p2.lockedUserRisk = p1.lockedUserRisk + risk
        /\ p2.internalAssets = p1.internalAssets + risk
    <3> DEFINE locked == p1.lockedUserRisk + risk
               ledger == p1.internalAssets + risk
    <3>1. p2 = [p1 EXCEPT !.lockedUserRisk = locked, !.internalAssets = ledger]
      BY DEF RiskLocked
    <3>2. locked \in Nat /\ ledger \in Nat
      BY <1>2, <2>3 DEF Pools
    <3> HIDE DEF p2, locked, ledger
    <3>3. /\ p2 \in Pools /\ p2.sharesOf = p1.sharesOf /\ p2.totalShares = p1.totalShares
          /\ p2.reservedAssets = p1.reservedAssets
          /\ p2.lockedUserRisk = locked /\ p2.internalAssets = ledger
      BY <2>3, <3>1, <3>2 DEF Pools
    <3> QED
      BY <3>3 DEF locked, ledger
  <2>5. pool' = FeeCredited(p2, lpFee)
    BY <2>1 DEF p1
  <2> HIDE DEF p2
  <2>6. /\ pool' \in Pools /\ pool'.sharesOf = p2.sharesOf /\ pool'.totalShares = p2.totalShares
        /\ pool'.reservedAssets = p2.reservedAssets
        /\ pool'.lockedUserRisk = p2.lockedUserRisk
        /\ pool'.internalAssets = p2.internalAssets + lpFee
    <3> DEFINE ledger == p2.internalAssets + lpFee
               earned == p2.totalFeesEarned + lpFee
    <3>1. pool' = [p2 EXCEPT !.internalAssets = ledger, !.totalFeesEarned = earned]
      BY <2>5 DEF FeeCredited
    <3>2. ledger \in Nat /\ earned \in Nat
      BY <1>9, <2>4 DEF Pools
    <3> HIDE DEF ledger, earned
    <3>3. /\ pool' \in Pools /\ pool'.sharesOf = p2.sharesOf /\ pool'.totalShares = p2.totalShares
          /\ pool'.reservedAssets = p2.reservedAssets
          /\ pool'.lockedUserRisk = p2.lockedUserRisk /\ pool'.internalAssets = ledger
      BY <2>4, <3>1, <3>2 DEF Pools
    <3> QED
      BY <3>3 DEF ledger
  <2> QED
    BY <2>3, <2>4, <2>6
<1> QED
  BY <1>3, <1>4, <1>7, <1>8, <1>9, <1>10

\* The new ticket is counted in its market, on its side and for its owner.
LEMMA MintSets ==
    ASSUME TypeOK, NEW tk \in Tickets, tk.status = "Open", Mint(tk),
           NEW k \in Markets, NEW u \in Users, NEW side \in Outcomes
    PROVE  /\ OpenOn(k)' = IF k = tk.market THEN OpenOn(k) \cup {NextTicketId} ELSE OpenOn(k)
           /\ OpenSide(k, side)' = IF k = tk.market /\ side = tk.outcome
                                   THEN OpenSide(k, side) \cup {NextTicketId} ELSE OpenSide(k, side)
           /\ OpenOf(u)' = IF u = tk.owner THEN OpenOf(u) \cup {NextTicketId} ELSE OpenOf(u)
           /\ OpenOn(k) \subseteq OpenTickets /\ OpenSide(k, side) \subseteq OpenTickets
           /\ OpenOf(u) \subseteq OpenTickets
<1> DEFINE id == NextTicketId
<1>1. /\ id \in TicketIds \ OpenTickets /\ ticket'[id] = tk
      /\ \A t \in TicketIds \ {id} : ticket'[t] = ticket[t]
      /\ OpenTickets' = OpenTickets \cup {id}
      /\ OpenTickets \subseteq TicketIds
  BY MintOpens DEF OpenTickets
<1> HIDE DEF id
<1>2. \A t \in OpenTickets : t # id /\ ticket'[t] = ticket[t]
  BY <1>1
<1>3. OpenOn(k)' = {t \in OpenTickets \cup {id} : ticket'[t].market = k}
  BY <1>1 DEF OpenOn
<1>4. OpenOn(k)' = IF k = tk.market THEN OpenOn(k) \cup {id} ELSE OpenOn(k)
  BY <1>1, <1>2, <1>3 DEF OpenOn
<1>5. OpenSide(k, side)' = {t \in OpenOn(k)' : ticket'[t].outcome = side}
  BY DEF OpenSide
<1>6. OpenSide(k, side)' = IF k = tk.market /\ side = tk.outcome
                          THEN OpenSide(k, side) \cup {id} ELSE OpenSide(k, side)
  BY <1>1, <1>2, <1>4, <1>5 DEF OpenSide, OpenOn
<1>7. OpenOf(u)' = {t \in OpenTickets \cup {id} : ticket'[t].owner = u}
  BY <1>1 DEF OpenOf
<1>8. OpenOf(u)' = IF u = tk.owner THEN OpenOf(u) \cup {id} ELSE OpenOf(u)
  BY <1>1, <1>2, <1>7 DEF OpenOf
<1> QED
  BY <1>4, <1>6, <1>8 DEF id, OpenOn, OpenSide, OpenOf

\* The exposure records follow a mint that is added to them.
LEMMA MintExposure ==
    ASSUME TypeOK, ExposureReconciles,
           NEW tk \in Tickets, tk.status = "Open", Mint(tk),
           exposure' = [exposure EXCEPT ![tk.market] =
               WithTicket(@, tk.outcome, tk.riskAmount, tk.payout, tk.reservedAmount)],
           userReserveUsed' = [userReserveUsed EXCEPT ![tk.owner] = @ + tk.reservedAmount]
    PROVE  /\ exposure' \in [Markets -> Exposures]
           /\ userReserveUsed' \in [Users -> Nat]
           /\ ExposureReconciles'
<1> DEFINE id == NextTicketId
           m == tk.market
           x == exposure[m]
           y == WithTicket(x, tk.outcome, tk.riskAmount, tk.payout, tk.reservedAmount)
           u0 == tk.owner
           used == userReserveUsed[u0] + tk.reservedAmount
           R == RiskOf'
           P == PayoutOf'
           V == ReserveOf'
<1>0. /\ exposure \in [Markets -> Exposures] /\ userReserveUsed \in [Users -> Nat]
      /\ m \in Markets /\ u0 \in Users /\ tk.outcome \in Outcomes
      /\ tk.riskAmount \in Nat /\ tk.payout \in Nat /\ tk.reservedAmount \in Nat
  BY DEF TypeOK, Tickets, Users
<1>1. y \in Exposures /\ ExposureGrows(x, y, tk.outcome, tk.riskAmount, tk.payout, tk.reservedAmount)
  <2>1. x \in Exposures
    BY <1>0
  <2>2. y = WithTicket(x, tk.outcome, tk.riskAmount, tk.payout, tk.reservedAmount)
    OBVIOUS
  <2> DEFINE o == tk.outcome  r == tk.riskAmount  p == tk.payout  v == tk.reservedAmount
  <2>3. o \in Outcomes /\ r \in Nat /\ p \in Nat /\ v \in Nat /\ y = WithTicket(x, o, r, p, v)
    BY <1>0, <2>2
  <2> HIDE DEF x, y, o, r, p, v
  <2>4. y \in Exposures /\ ExposureGrows(x, y, o, r, p, v)
    BY <2>1, <2>3, WithTicketFields, Zenon
  <2> QED
    BY <2>4 DEF o, r, p, v
<1>2. exposure' = [exposure EXCEPT ![m] = y] /\ userReserveUsed' = [userReserveUsed EXCEPT ![u0] = used]
  OBVIOUS
<1>3. used \in Nat
  BY <1>0
<1> HIDE DEF m, y, u0, used
<1>4. /\ exposure' \in [Markets -> Exposures] /\ userReserveUsed' \in [Users -> Nat]
      /\ exposure'[m] = y /\ \A k \in Markets \ {m} : exposure'[k] = exposure[k]
      /\ userReserveUsed'[u0] = used
      /\ \A u \in Users \ {u0} : userReserveUsed'[u] = userReserveUsed[u]
  BY <1>0, <1>1, <1>2, <1>3
<1> HIDE DEF id, R, P, V, x
<1>5. ASSUME NEW S, S \subseteq OpenTickets
      PROVE  /\ Total(R, S \cup {id}) = Total(RiskOf, S) + tk.riskAmount
             /\ Total(P, S \cup {id}) = Total(PayoutOf, S) + tk.payout
             /\ Total(V, S \cup {id}) = Total(ReserveOf, S) + tk.reservedAmount
             /\ Total(R, S) = Total(RiskOf, S)
             /\ Total(P, S) = Total(PayoutOf, S)
             /\ Total(V, S) = Total(ReserveOf, S)
  BY <1>5, MintSums DEF id, R, P, V
<1>6. ASSUME NEW k \in Markets
      PROVE  /\ exposure'[k].totalUserRisk = Total(R, OpenOn(k)')
             /\ exposure'[k].lpReserveAllocated = Total(V, OpenOn(k)')
             /\ exposure'[k].payoutIfYes = Total(P, OpenSide(k, YES)')
             /\ exposure'[k].payoutIfNo = Total(P, OpenSide(k, NO)')
             /\ exposure'[k].reserveIfYes = Total(V, OpenSide(k, YES)')
             /\ exposure'[k].reserveIfNo = Total(V, OpenSide(k, NO)')
  <2>1. PICK u \in Users : TRUE
    BY <1>0
  <2>2. /\ OpenOn(k)' = (IF k = m THEN OpenOn(k) \cup {id} ELSE OpenOn(k))
        /\ OpenSide(k, YES)' = (IF k = m /\ YES = tk.outcome
                                THEN OpenSide(k, YES) \cup {id} ELSE OpenSide(k, YES))
        /\ OpenSide(k, NO)' = (IF k = m /\ NO = tk.outcome
                               THEN OpenSide(k, NO) \cup {id} ELSE OpenSide(k, NO))
        /\ OpenOn(k) \subseteq OpenTickets /\ OpenSide(k, YES) \subseteq OpenTickets
        /\ OpenSide(k, NO) \subseteq OpenTickets
    BY MintSets DEF id, m, Outcomes
  <2>3. /\ exposure[k].totalUserRisk = Total(RiskOf, OpenOn(k))
        /\ exposure[k].lpReserveAllocated = Total(ReserveOf, OpenOn(k))
        /\ exposure[k].payoutIfYes = Total(PayoutOf, OpenSide(k, YES))
        /\ exposure[k].payoutIfNo = Total(PayoutOf, OpenSide(k, NO))
        /\ exposure[k].reserveIfYes = Total(ReserveOf, OpenSide(k, YES))
        /\ exposure[k].reserveIfNo = Total(ReserveOf, OpenSide(k, NO))
        /\ exposure[k].payoutIfYes \in Nat /\ exposure[k].payoutIfNo \in Nat
        /\ exposure[k].reserveIfYes \in Nat /\ exposure[k].reserveIfNo \in Nat
    BY <1>0 DEF ExposureReconciles, Exposures
  <2>4. CASE k # m
    BY <1>4, <1>5, <2>2, <2>3, <2>4
  <2>5. CASE k = m
    <3>1. exposure[k] = x /\ exposure'[k] = y
      BY <1>4, <2>5 DEF x
    <3>2. /\ y.totalUserRisk = Total(R, OpenOn(k)')
          /\ y.lpReserveAllocated = Total(V, OpenOn(k)')
      BY <1>1, <1>5, <2>2, <2>3, <2>5, <3>1 DEF ExposureGrows
    <3>3. /\ y.payoutIfYes = Total(P, OpenSide(k, YES)')
          /\ y.reserveIfYes = Total(V, OpenSide(k, YES)')
      BY <1>1, <1>5, <2>2, <2>3, <2>5, <3>1 DEF ExposureGrows
    <3>4. /\ y.payoutIfNo = Total(P, OpenSide(k, NO)')
          /\ y.reserveIfNo = Total(V, OpenSide(k, NO)')
      BY <1>1, <1>5, <2>2, <2>3, <2>5, <3>1 DEF ExposureGrows
    <3> QED
      BY <3>1, <3>2, <3>3, <3>4
  <2> QED
    BY <2>4, <2>5
<1>7. ASSUME NEW u \in Users
      PROVE  userReserveUsed'[u] = Total(V, OpenOf(u)')
  <2>1. /\ OpenOf(u)' = (IF u = u0 THEN OpenOf(u) \cup {id} ELSE OpenOf(u))
        /\ OpenOf(u) \subseteq OpenTickets
    BY <1>0, MintSets DEF id, u0
  <2>2. userReserveUsed[u] = Total(ReserveOf, OpenOf(u))
    BY DEF ExposureReconciles
  <2> QED
    BY <1>4, <1>5, <2>1, <2>2 DEF used
<1>8. ExposureReconciles'
  BY <1>6, <1>7 DEF ExposureReconciles, R, P, V
<1> QED
  BY <1>4, <1>8

\* A purchase keeps the invariant.
LEMMA BuyStep ==
    ASSUME EngineInv, NEW buyer \in Traders, NEW m \in Markets, NEW outcome \in Outcomes,
           NEW risk \in Risks, NEW boostBps \in Boosts,
           BuyTicket(buyer, m, outcome, risk, boostBps)
    PROVE  EngineInv' /\ (usdc')[Router] = usdc[Router]
<1> DEFINE payout == QuotedPayout(m, outcome, risk, boostBps)
           reserve == payout - risk
           lpFee == ShareOf(Fee(risk, boostBps), feeSplit.lp)
           tk == [status |-> "Open", market |-> m, owner |-> buyer,
                  outcome |-> outcome, riskAmount |-> risk,
                  payout |-> payout, reservedAmount |-> reserve]
<1>0. /\ TypeOK /\ TicketsAddUp /\ SharesAddUp /\ BooksHaveDepth
      /\ EscrowReconciles /\ ExposureReconciles /\ EscrowFunded
  BY DEF EngineInv
<1>1. /\ risk \in Nat \ {0} /\ payout \in Nat /\ reserve \in Nat /\ lpFee \in Nat
      /\ tk \in Tickets /\ Mint(tk)
      /\ AvailableAssets(pool) >= reserve
      /\ pool' \in Pools /\ pool'.sharesOf = pool.sharesOf
      /\ pool'.totalShares = pool.totalShares
      /\ pool'.reservedAssets = pool.reservedAssets + reserve
      /\ pool'.lockedUserRisk = pool.lockedUserRisk + risk
      /\ pool'.internalAssets = pool.internalAssets + risk + lpFee
      /\ usdc' \in [Accounts -> Nat]
      /\ (usdc')[Pool] = usdc[Pool] + risk + lpFee
      /\ (usdc')[Router] = usdc[Router]
  <2> HIDE DEF tk, payout, reserve, lpFee
  <2>1. /\ payout = QuotedPayout(m, outcome, risk, boostBps) /\ reserve = payout - risk
        /\ lpFee = ShareOf(Fee(risk, boostBps), feeSplit.lp)
        /\ tk = [status |-> "Open", market |-> m, owner |-> buyer,
                 outcome |-> outcome, riskAmount |-> risk,
                 payout |-> payout, reservedAmount |-> reserve]
    BY DEF payout, reserve, lpFee, tk
  <2> QED
    BY <2>1, BuyEffect
<1>2. /\ tk.status = "Open" /\ tk.market = m /\ tk.owner = buyer /\ tk.outcome = outcome
      /\ tk.riskAmount = risk /\ tk.payout = payout /\ tk.reservedAmount = reserve
      /\ payout = risk + reserve
  <2>1. payout = risk + reserve
    BY <1>1
  <2> HIDE DEF payout, reserve
  <2> QED
    BY <2>1
<1>3. /\ exposure' = [exposure EXCEPT ![m] = WithTicket(@, outcome, risk, payout, reserve)]
      /\ userReserveUsed' = [userReserveUsed EXCEPT ![buyer] = @ + reserve]
      /\ market' = [market EXCEPT ![m] = ApplyTradeImpact(@, outcome, risk)]
      /\ now' = now /\ paused' = paused /\ feeSplit' = feeSplit
      /\ market[m].status = "Open"
  BY DEF BuyTicket, admin, CanBuy
<1> HIDE DEF tk, payout, reserve, lpFee
<1>4. /\ exposure' \in [Markets -> Exposures] /\ userReserveUsed' \in [Users -> Nat]
      /\ ExposureReconciles'
  <2>1. /\ exposure' = [exposure EXCEPT ![tk.market] =
                          WithTicket(@, tk.outcome, tk.riskAmount, tk.payout, tk.reservedAmount)]
        /\ userReserveUsed' = [userReserveUsed EXCEPT ![tk.owner] = @ + tk.reservedAmount]
    BY <1>2, <1>3, Zenon
  <2> QED
    BY <1>0, <1>1, <1>2, <2>1, MintExposure
<1>5. /\ NextTicketId \in TicketIds \ OpenTickets /\ ticket'[NextTicketId] = tk
      /\ \A t \in TicketIds \ {NextTicketId} : ticket'[t] = ticket[t]
      /\ OpenTickets' = OpenTickets \cup {NextTicketId}
  BY <1>0, <1>1, <1>2, MintOpens
<1>6. market' \in [Markets -> MarketRecords] /\ BooksHaveDepth'
  <2> DEFINE mkt == ApplyTradeImpact(market[m], outcome, risk)
  <2>1. market[m] \in MarketRecords /\ market[m].impactLiquidity > 0 /\ risk \in Nat
    BY <1>0, <1>1, <1>3 DEF TypeOK, BooksHaveDepth
  <2>2. mkt \in MarketRecords /\ mkt.impactLiquidity = market[m].impactLiquidity
    BY <2>1, TradeType
  <2>3. market' = [market EXCEPT ![m] = mkt]
    BY <1>3
  <2> HIDE DEF mkt
  <2>4. market \in [Markets -> MarketRecords]
    BY <1>0 DEF TypeOK
  <2> QED
    BY <1>0, <2>1, <2>2, <2>3, <2>4 DEF BooksHaveDepth
<1>7. /\ totalSupply' \in 0..MaxTickets /\ ticket' \in [TicketIds -> Tickets \cup {NoTicket}]
      /\ \A t \in TicketIds : ticket'[t].status # "None" <=> t <= totalSupply'
  <2>1. /\ totalSupply \in 0..MaxTickets /\ ticket \in [TicketIds -> Tickets \cup {NoTicket}]
        /\ \A t \in TicketIds : ticket[t].status # "None" <=> t <= totalSupply
        /\ MaxTickets \in Nat
    BY <1>0, ProtocolAssumption DEF TypeOK
  <2>2. totalSupply' = totalSupply + 1 /\ totalSupply < MaxTickets /\ NextTicketId = totalSupply + 1
        /\ ticket' = [ticket EXCEPT ![NextTicketId] = tk]
    BY <1>1 DEF Mint, NextTicketId
  <2>3. \A t \in TicketIds : t \in Nat
    BY <2>1 DEF TicketIds
  <2> QED
    BY <1>1, <1>2, <1>5, <2>1, <2>2, <2>3
<1>8. TypeOK'
  BY <1>0, <1>1, <1>3, <1>4, <1>6, <1>7, Zenon DEF TypeOK
<1>9. TicketsAddUp'
  BY <1>0, <1>2, <1>5 DEF TicketsAddUp
<1>10. SharesAddUp'
  BY <1>0, <1>1 DEF SharesAddUp
<1>11. EscrowReconciles'
  <2>1. /\ Total(RiskOf', OpenTickets \cup {NextTicketId}) = Total(RiskOf, OpenTickets) + risk
        /\ Total(ReserveOf', OpenTickets \cup {NextTicketId}) = Total(ReserveOf, OpenTickets) + reserve
    BY <1>0, <1>1, <1>2, MintSums
  <2> QED
    BY <1>0, <1>1, <1>5, <2>1 DEF EscrowReconciles
<1>12. EscrowFunded'
  <2>1. usdc[Pool] \in Nat
    BY <1>0, Addresses DEF TypeOK
  <2> QED
    BY <1>0, <1>1, <2>1, PoolType DEF EscrowFunded
<1> QED
  BY <1>1, <1>4, <1>6, <1>8, <1>9, <1>10, <1>11, <1>12 DEF EngineInv

---------------------------------------------------------------------------
(* Settlement. *)

\* An open ticket can always be taken out of the books and its escrow
\* released: the subtractions stay above zero.
LEMMA OpenTicketBacked ==
    ASSUME EngineInv, NEW t \in OpenTickets
    PROVE  /\ ticket[t] \in Tickets
           /\ CanRemoveExposure(ticket[t])
           /\ CanRelease(pool, ticket[t].riskAmount, ticket[t].reservedAmount)
           /\ ticket[t].payout = ticket[t].riskAmount + ticket[t].reservedAmount
           /\ CanPay(ticket[t].payout) /\ CanPay(ticket[t].riskAmount) /\ CanPay(0)
<1> DEFINE tk == ticket[t]
           x == exposure[tk.market]
           y == WithoutTicket(x, tk)
<1>0. /\ TypeOK /\ ExposureReconciles /\ EscrowReconciles /\ EscrowFunded /\ TicketsAddUp
      /\ t \in TicketIds /\ tk.status = "Open"
  BY DEF EngineInv, OpenTickets
<1>1. tk \in Tickets
  BY <1>0, MintedType
<1>2. /\ tk.market \in Markets /\ tk.owner \in Users /\ tk.outcome \in Outcomes
      /\ tk.riskAmount \in Nat /\ tk.payout \in Nat /\ tk.reservedAmount \in Nat
  BY <1>1 DEF Tickets, Users
<1>3. /\ RiskOf[t] = tk.riskAmount /\ PayoutOf[t] = tk.payout /\ ReserveOf[t] = tk.reservedAmount
  BY <1>0, AmountsType
<1>4. tk.payout = tk.riskAmount + tk.reservedAmount
  BY <1>0 DEF TicketsAddUp
<1> HIDE DEF tk
<1>5. /\ OpenTickets \subseteq TicketIds /\ OpenOn(tk.market) \subseteq TicketIds
      /\ OpenSide(tk.market, YES) \subseteq TicketIds /\ OpenSide(tk.market, NO) \subseteq TicketIds
      /\ OpenOf(tk.owner) \subseteq TicketIds
      /\ t \in OpenOn(tk.market) /\ t \in OpenOf(tk.owner)
      /\ tk.outcome = YES => t \in OpenSide(tk.market, YES)
      /\ tk.outcome = NO => t \in OpenSide(tk.market, NO)
  BY DEF OpenTickets, OpenOn, OpenSide, OpenOf, tk
<1>6. /\ tk.riskAmount <= Total(RiskOf, OpenTickets) /\ tk.reservedAmount <= Total(ReserveOf, OpenTickets)
      /\ tk.riskAmount <= Total(RiskOf, OpenOn(tk.market))
      /\ tk.reservedAmount <= Total(ReserveOf, OpenOn(tk.market))
      /\ tk.reservedAmount <= Total(ReserveOf, OpenOf(tk.owner))
  BY <1>0, <1>3, <1>5, OpenSums
<1>7. /\ tk.outcome = YES => /\ tk.payout <= Total(PayoutOf, OpenSide(tk.market, YES))
                             /\ tk.reservedAmount <= Total(ReserveOf, OpenSide(tk.market, YES))
      /\ tk.outcome = NO => /\ tk.payout <= Total(PayoutOf, OpenSide(tk.market, NO))
                            /\ tk.reservedAmount <= Total(ReserveOf, OpenSide(tk.market, NO))
  BY <1>0, <1>3, <1>5, OpenSums
<1>8. CanRemoveExposure(tk)
  <2>1. x \in Exposures
    BY <1>0, <1>2 DEF TypeOK
  <2>2. /\ x.totalUserRisk = Total(RiskOf, OpenOn(tk.market))
        /\ x.lpReserveAllocated = Total(ReserveOf, OpenOn(tk.market))
        /\ x.payoutIfYes = Total(PayoutOf, OpenSide(tk.market, YES))
        /\ x.payoutIfNo = Total(PayoutOf, OpenSide(tk.market, NO))
        /\ x.reserveIfYes = Total(ReserveOf, OpenSide(tk.market, YES))
        /\ x.reserveIfNo = Total(ReserveOf, OpenSide(tk.market, NO))
        /\ userReserveUsed[tk.owner] = Total(ReserveOf, OpenOf(tk.owner))
    BY <1>0, <1>2 DEF ExposureReconciles
  <2>3. /\ x.totalUserRisk \in Nat /\ x.lpReserveAllocated \in Nat
        /\ x.payoutIfYes \in Nat /\ x.payoutIfNo \in Nat
        /\ x.reserveIfYes \in Nat /\ x.reserveIfNo \in Nat
    BY <2>1 DEF Exposures
  <2> HIDE DEF x
  <2>4. ExposureShrinks(x, y, tk)
    BY <1>1, <2>1, WithoutTicketFields
  <2>5. CanRemoveExposure(tk) <=>
          /\ y.totalUserRisk >= 0 /\ y.lpReserveAllocated >= 0
          /\ y.payoutIfYes >= 0 /\ y.reserveIfYes >= 0
          /\ y.payoutIfNo >= 0 /\ y.reserveIfNo >= 0
          /\ userReserveUsed[tk.owner] >= tk.reservedAmount
    BY DEF CanRemoveExposure, x
  <2> HIDE DEF y
  <2>6. y.totalUserRisk >= 0 /\ y.lpReserveAllocated >= 0
    BY <1>2, <1>6, <2>2, <2>3, <2>4 DEF ExposureShrinks
  <2>7. y.payoutIfYes >= 0 /\ y.reserveIfYes >= 0
    BY <1>2, <1>7, <2>2, <2>3, <2>4 DEF ExposureShrinks
  <2>8. y.payoutIfNo >= 0 /\ y.reserveIfNo >= 0
    BY <1>2, <1>7, <2>2, <2>3, <2>4 DEF ExposureShrinks
  <2> QED
    BY <1>6, <2>2, <2>5, <2>6, <2>7, <2>8
<1>9. CanRelease(pool, tk.riskAmount, tk.reservedAmount)
  BY <1>0, <1>6 DEF EscrowReconciles, CanRelease
<1>10. CanPay(tk.payout) /\ CanPay(tk.riskAmount) /\ CanPay(0)
  <2>1. /\ pool.internalAssets \in Nat /\ pool.reservedAssets \in Nat /\ pool.lockedUserRisk \in Nat
        /\ usdc[Pool] \in Nat
    BY <1>0, PoolType, Addresses DEF TypeOK
  <2>2. /\ tk.reservedAmount <= pool.reservedAssets /\ tk.riskAmount <= pool.lockedUserRisk
        /\ pool.reservedAssets + pool.lockedUserRisk <= pool.internalAssets
        /\ pool.internalAssets <= usdc[Pool]
    BY <1>0, <1>6 DEF EscrowReconciles, EscrowFunded
  <2> QED
    BY <1>2, <1>4, <2>1, <2>2 DEF CanPay
<1> QED
  BY <1>1, <1>4, <1>8, <1>9, <1>10 DEF tk

\* The ticket closed leaves the sets it was counted in.
LEMMA CloseSets ==
    ASSUME TypeOK, NEW t \in TicketIds, NEW status, Close(t, status),
           NEW k \in Markets, NEW u \in Users, NEW side \in Outcomes
    PROVE  /\ OpenOn(k)' = IF k = ticket[t].market THEN OpenOn(k) \ {t} ELSE OpenOn(k)
           /\ OpenSide(k, side)' = IF k = ticket[t].market /\ side = ticket[t].outcome
                                   THEN OpenSide(k, side) \ {t} ELSE OpenSide(k, side)
           /\ OpenOf(u)' = IF u = ticket[t].owner THEN OpenOf(u) \ {t} ELSE OpenOf(u)
           /\ OpenOn(k) \subseteq OpenTickets /\ OpenSide(k, side) \subseteq OpenTickets
           /\ OpenOf(u) \subseteq OpenTickets
           /\ k = ticket[t].market => t \in OpenOn(k)
           /\ k = ticket[t].market /\ side = ticket[t].outcome => t \in OpenSide(k, side)
           /\ u = ticket[t].owner => t \in OpenOf(u)
<1>1. /\ t \in OpenTickets /\ OpenTickets' = OpenTickets \ {t}
      /\ \A s \in TicketIds \ {t} : ticket'[s] = ticket[s]
      /\ OpenTickets \subseteq TicketIds
  BY CloseCloses DEF OpenTickets
<1>2. \A s \in OpenTickets' : s \in OpenTickets /\ s # t /\ ticket'[s] = ticket[s]
  BY <1>1
<1>3. OpenOn(k)' = IF k = ticket[t].market THEN OpenOn(k) \ {t} ELSE OpenOn(k)
  BY <1>1, <1>2 DEF OpenOn
<1>4. OpenSide(k, side)' = {s \in OpenOn(k)' : ticket'[s].outcome = side}
  BY DEF OpenSide
<1>5. OpenSide(k, side)' = IF k = ticket[t].market /\ side = ticket[t].outcome
                          THEN OpenSide(k, side) \ {t} ELSE OpenSide(k, side)
  BY <1>1, <1>3, <1>4 DEF OpenSide, OpenOn
<1>6. OpenOf(u)' = IF u = ticket[t].owner THEN OpenOf(u) \ {t} ELSE OpenOf(u)
  BY <1>1, <1>2 DEF OpenOf
<1> QED
  BY <1>1, <1>3, <1>5, <1>6 DEF OpenOn, OpenSide, OpenOf

\* The exposure records follow a ticket that is taken out of them.
LEMMA CloseExposure ==
    ASSUME EngineInv, NEW t \in TicketIds, NEW status, Close(t, status),
           exposure' = [exposure EXCEPT ![ticket[t].market] = WithoutTicket(@, ticket[t])],
           userReserveUsed' = [userReserveUsed EXCEPT
                                  ![ticket[t].owner] = @ - ticket[t].reservedAmount]
    PROVE  /\ exposure' \in [Markets -> Exposures]
           /\ userReserveUsed' \in [Users -> Nat]
           /\ ExposureReconciles'
<1> DEFINE tk == ticket[t]
           m == tk.market
           x == exposure[m]
           y == WithoutTicket(x, tk)
           u0 == tk.owner
           used == userReserveUsed[u0] - tk.reservedAmount
           R == RiskOf
           P == PayoutOf
           V == ReserveOf
<1>0. TypeOK /\ ExposureReconciles /\ t \in OpenTickets
  BY DEF EngineInv, OpenTickets, Close
<1>1. /\ exposure \in [Markets -> Exposures] /\ userReserveUsed \in [Users -> Nat]
      /\ tk \in Tickets /\ m \in Markets /\ u0 \in Users /\ tk.outcome \in Outcomes
      /\ tk.riskAmount \in Nat /\ tk.payout \in Nat /\ tk.reservedAmount \in Nat
  BY <1>0, MintedType DEF Users, TypeOK, Tickets, Close
<1>2. y \in Exposures /\ ExposureShrinks(x, y, tk) /\ used \in Nat
  <2>1. x \in Exposures
    BY <1>1
  <2>2. CanRemoveExposure(tk)
    BY <1>0, OpenTicketBacked
  <2>3. /\ y.totalUserRisk >= 0 /\ y.lpReserveAllocated >= 0
        /\ y.payoutIfYes >= 0 /\ y.reserveIfYes >= 0
        /\ y.payoutIfNo >= 0 /\ y.reserveIfNo >= 0
        /\ userReserveUsed[u0] >= tk.reservedAmount
    BY <2>2 DEF CanRemoveExposure
  <2>4. used \in Nat
    <3>1. userReserveUsed[u0] \in Nat
      BY <1>1
    <3> QED
      BY <1>1, <2>3, <3>1
  <2>5. y = WithoutTicket(x, tk)
    OBVIOUS
  <2> HIDE DEF x, y, tk
  <2>6. ExposureShrinks(x, y, tk)
    BY <1>1, <2>1, <2>5, WithoutTicketFields
  <2> QED
    BY <2>3, <2>4, <2>6 DEF ExposureShrinks
<1>3. exposure' = [exposure EXCEPT ![m] = y] /\ userReserveUsed' = [userReserveUsed EXCEPT ![u0] = used]
  OBVIOUS
<1> HIDE DEF m, y, u0, used, tk
<1>4. /\ exposure' \in [Markets -> Exposures] /\ userReserveUsed' \in [Users -> Nat]
      /\ exposure'[m] = y /\ \A k \in Markets \ {m} : exposure'[k] = exposure[k]
      /\ userReserveUsed'[u0] = used
      /\ \A u \in Users \ {u0} : userReserveUsed'[u] = userReserveUsed[u]
  BY <1>1, <1>2, <1>3
<1> HIDE DEF R, P, V, x
<1>5. R' = R /\ P' = P /\ V' = V
  BY <1>0, CloseCloses DEF R, P, V
<1>6. ASSUME NEW S, S \subseteq OpenTickets, t \in S
      PROVE  /\ Total(R, S \ {t}) = Total(R, S) - tk.riskAmount
             /\ Total(P, S \ {t}) = Total(P, S) - tk.payout
             /\ Total(V, S \ {t}) = Total(V, S) - tk.reservedAmount
  BY <1>0, <1>6, CloseSums DEF R, P, V, tk
<1>7. ASSUME NEW k \in Markets
      PROVE  /\ exposure'[k].totalUserRisk = Total(R, OpenOn(k)')
             /\ exposure'[k].lpReserveAllocated = Total(V, OpenOn(k)')
             /\ exposure'[k].payoutIfYes = Total(P, OpenSide(k, YES)')
             /\ exposure'[k].payoutIfNo = Total(P, OpenSide(k, NO)')
             /\ exposure'[k].reserveIfYes = Total(V, OpenSide(k, YES)')
             /\ exposure'[k].reserveIfNo = Total(V, OpenSide(k, NO)')
  <2>1. YES \in Outcomes /\ NO \in Outcomes
    BY DEF Outcomes
  <2>2. /\ OpenOn(k)' = (IF k = m THEN OpenOn(k) \ {t} ELSE OpenOn(k))
        /\ OpenSide(k, YES)' = (IF k = m /\ YES = tk.outcome
                                THEN OpenSide(k, YES) \ {t} ELSE OpenSide(k, YES))
        /\ OpenSide(k, NO)' = (IF k = m /\ NO = tk.outcome
                               THEN OpenSide(k, NO) \ {t} ELSE OpenSide(k, NO))
        /\ OpenOn(k) \subseteq OpenTickets /\ OpenSide(k, YES) \subseteq OpenTickets
        /\ OpenSide(k, NO) \subseteq OpenTickets
        /\ k = m => t \in OpenOn(k)
        /\ k = m /\ YES = tk.outcome => t \in OpenSide(k, YES)
        /\ k = m /\ NO = tk.outcome => t \in OpenSide(k, NO)
    BY <1>0, <1>1, <2>1, CloseSets DEF tk, m, u0
  <2>3. /\ exposure[k].totalUserRisk = Total(R, OpenOn(k))
        /\ exposure[k].lpReserveAllocated = Total(V, OpenOn(k))
        /\ exposure[k].payoutIfYes = Total(P, OpenSide(k, YES))
        /\ exposure[k].payoutIfNo = Total(P, OpenSide(k, NO))
        /\ exposure[k].reserveIfYes = Total(V, OpenSide(k, YES))
        /\ exposure[k].reserveIfNo = Total(V, OpenSide(k, NO))
        /\ exposure[k].payoutIfYes \in Nat /\ exposure[k].payoutIfNo \in Nat
        /\ exposure[k].reserveIfYes \in Nat /\ exposure[k].reserveIfNo \in Nat
    BY <1>0, <1>1 DEF ExposureReconciles, Exposures, R, P, V
  <2>4. CASE k # m
    BY <1>4, <2>2, <2>3, <2>4
  <2>5. CASE k = m
    <3>1. exposure[k] = x /\ exposure'[k] = y
      BY <1>4, <2>5 DEF x
    <3>2. /\ y.totalUserRisk = Total(R, OpenOn(k)')
          /\ y.lpReserveAllocated = Total(V, OpenOn(k)')
      BY <1>2, <1>6, <2>2, <2>3, <2>5, <3>1 DEF ExposureShrinks
    <3>3. /\ y.payoutIfYes = Total(P, OpenSide(k, YES)')
          /\ y.reserveIfYes = Total(V, OpenSide(k, YES)')
      BY <1>2, <1>6, <2>2, <2>3, <2>5, <3>1 DEF ExposureShrinks
    <3>4. /\ y.payoutIfNo = Total(P, OpenSide(k, NO)')
          /\ y.reserveIfNo = Total(V, OpenSide(k, NO)')
      BY <1>2, <1>6, <2>2, <2>3, <2>5, <3>1, SMTT(40) DEF ExposureShrinks
    <3> QED
      BY <3>1, <3>2, <3>3, <3>4
  <2> QED
    BY <2>4, <2>5
<1>8. ASSUME NEW u \in Users
      PROVE  userReserveUsed'[u] = Total(V, OpenOf(u)')
  <2>1. /\ OpenOf(u)' = (IF u = u0 THEN OpenOf(u) \ {t} ELSE OpenOf(u))
        /\ OpenOf(u) \subseteq OpenTickets
        /\ u = u0 => t \in OpenOf(u)
    BY <1>0, <1>1, CloseSets DEF tk, u0, m
  <2>2. userReserveUsed[u] = Total(V, OpenOf(u))
    BY <1>0 DEF ExposureReconciles, V
  <2> QED
    BY <1>4, <1>6, <2>1, <2>2 DEF used
<1>9. ExposureReconciles'
  BY <1>5, <1>7, <1>8 DEF ExposureReconciles, R, P, V
<1> QED
  BY <1>4, <1>9

\* Closing a ticket keeps the invariant whatever is paid out of its stake and
\* its reserve, and what is not paid becomes free.
LEMMA CloseStep ==
    ASSUME EngineInv, NEW t \in TicketIds, NEW status \in {"Settled", "Cancelled"},
           CloseTicket(t, status),
           NEW paid \in Nat, paid <= ticket[t].payout,
           pool' \in Pools, pool'.sharesOf = pool.sharesOf, pool'.totalShares = pool.totalShares,
           pool'.reservedAssets = pool.reservedAssets - ticket[t].reservedAmount,
           pool'.lockedUserRisk = pool.lockedUserRisk - ticket[t].riskAmount,
           pool'.internalAssets = pool.internalAssets - paid,
           usdc' \in [Accounts -> Nat], (usdc')[Pool] = usdc[Pool] - paid
    PROVE  EngineInv' /\ AvailableAssets(pool') >= AvailableAssets(pool)
<1>0. /\ TypeOK /\ TicketsAddUp /\ SharesAddUp /\ BooksHaveDepth
      /\ EscrowReconciles /\ ExposureReconciles /\ EscrowFunded
  BY DEF EngineInv
<1>1. /\ Close(t, status)
      /\ exposure' = [exposure EXCEPT ![ticket[t].market] = WithoutTicket(@, ticket[t])]
      /\ userReserveUsed' = [userReserveUsed EXCEPT ![ticket[t].owner] = @ - ticket[t].reservedAmount]
      /\ now' = now /\ paused' = paused /\ feeSplit' = feeSplit /\ market' = market
      /\ totalSupply' = totalSupply
  BY DEF CloseTicket, Close, admin
<1>2. /\ exposure' \in [Markets -> Exposures] /\ userReserveUsed' \in [Users -> Nat]
      /\ ExposureReconciles'
  BY <1>1, CloseExposure
<1>3. /\ ticket[t] \in Tickets /\ t \in OpenTickets
      /\ ticket'[t] = [ticket[t] EXCEPT !.status = status] /\ ticket'[t] \in Tickets
      /\ \A s \in TicketIds \ {t} : ticket'[s] = ticket[s]
      /\ RiskOf' = RiskOf /\ ReserveOf' = ReserveOf
      /\ OpenTickets' = OpenTickets \ {t}
  BY <1>0, <1>1, CloseCloses
<1>4. /\ ticket' \in [TicketIds -> Tickets \cup {NoTicket}]
      /\ \A s \in TicketIds : ticket'[s].status # "None" <=> s <= totalSupply'
  <2>1. /\ ticket \in [TicketIds -> Tickets \cup {NoTicket}]
        /\ \A s \in TicketIds : ticket[s].status # "None" <=> s <= totalSupply
    BY <1>0 DEF TypeOK
  <2>2. ticket' = [ticket EXCEPT ![t].status = status]
    BY <1>1 DEF Close
  <2>3. DOMAIN ticket' = TicketIds /\ ticket' = [s \in TicketIds |-> ticket'[s]]
    BY <2>1, <2>2
  <2>4. ticket'[t].status # "None" /\ ticket[t].status # "None"
    BY <1>3 DEF Tickets
  <2> QED
    BY <1>1, <1>3, <2>1, <2>3, <2>4
<1>5. TypeOK'
  BY <1>0, <1>1, <1>2, <1>4, Zenon DEF TypeOK
<1>6. TicketsAddUp'
  <2>1. /\ ticket'[t].payout = ticket[t].payout
        /\ ticket'[t].riskAmount = ticket[t].riskAmount
        /\ ticket'[t].reservedAmount = ticket[t].reservedAmount
    BY <1>3 DEF Tickets
  <2>2. \A s \in TicketIds : ticket'[s].payout = ticket'[s].riskAmount + ticket'[s].reservedAmount
    <3> SUFFICES ASSUME NEW s \in TicketIds
                 PROVE  ticket'[s].payout = ticket'[s].riskAmount + ticket'[s].reservedAmount
      OBVIOUS
    <3>1. ticket[s].payout = ticket[s].riskAmount + ticket[s].reservedAmount
      BY <1>0 DEF TicketsAddUp
    <3>2. CASE s = t
      BY <2>1, <3>1, <3>2
    <3>3. CASE s # t
      BY <1>3, <3>1, <3>3
    <3> QED
      BY <3>2, <3>3
  <2> QED
    BY <2>2 DEF TicketsAddUp
<1>7. SharesAddUp' /\ BooksHaveDepth'
  BY <1>0, <1>1 DEF SharesAddUp, BooksHaveDepth
<1>8. EscrowReconciles'
  <2>1. /\ Total(RiskOf, OpenTickets \ {t}) = Total(RiskOf, OpenTickets) - ticket[t].riskAmount
        /\ Total(ReserveOf, OpenTickets \ {t}) = Total(ReserveOf, OpenTickets) - ticket[t].reservedAmount
    BY <1>0, <1>3, CloseSums
  <2> QED
    BY <1>0, <1>3, <2>1 DEF EscrowReconciles
<1>9. EscrowFunded' /\ AvailableAssets(pool') >= AvailableAssets(pool)
  <2>1. /\ ticket[t].payout = ticket[t].riskAmount + ticket[t].reservedAmount
        /\ ticket[t].riskAmount \in Nat /\ ticket[t].reservedAmount \in Nat
    BY <1>0, <1>3 DEF TicketsAddUp, Tickets
  <2>2. /\ pool.internalAssets \in Nat /\ pool.reservedAssets \in Nat /\ pool.lockedUserRisk \in Nat
        /\ usdc[Pool] \in Nat
    BY <1>0, PoolType, Addresses DEF TypeOK
  <2> QED
    BY <1>0, <2>1, <2>2 DEF EscrowFunded, AvailableAssets
<1> QED
  BY <1>2, <1>5, <1>6, <1>7, <1>8, <1>9 DEF EngineInv

\* What the vault's three ways of releasing a ticket do to its record.
LEMMA ReleaseFields ==
    ASSUME NEW p \in Pools, NEW risk \in Nat, NEW reserved \in Nat, CanRelease(p, risk, reserved),
           NEW paid \in Nat, paid <= p.internalAssets,
           NEW q,
           \/ q = PayoutPaid(p, paid, reserved, risk)
           \/ q = RiskRefunded(p, risk, reserved) /\ paid = risk
           \/ q = LossSettled(p, risk, reserved) /\ paid = 0
    PROVE  /\ q \in Pools /\ q.sharesOf = p.sharesOf /\ q.totalShares = p.totalShares
           /\ q.reservedAssets = p.reservedAssets - reserved
           /\ q.lockedUserRisk = p.lockedUserRisk - risk
           /\ q.internalAssets = p.internalAssets - paid
<1> DEFINE r == Released(p, risk, reserved)
           ringFenced == p.reservedAssets - reserved
           locked == p.lockedUserRisk - risk
           ledger == p.internalAssets - paid
           losses == p.totalUserLossesReceived + risk
<1>1. ringFenced \in Nat /\ locked \in Nat /\ ledger \in Nat /\ losses \in Nat
      /\ p.internalAssets \in Nat
  BY DEF Pools, CanRelease
<1>2. r = [p EXCEPT !.reservedAssets = ringFenced, !.lockedUserRisk = locked]
  BY DEF Released
<1> HIDE DEF r, ringFenced, locked
<1>3. /\ r \in Pools /\ r.sharesOf = p.sharesOf /\ r.totalShares = p.totalShares
      /\ r.reservedAssets = ringFenced /\ r.lockedUserRisk = locked
      /\ r.internalAssets = p.internalAssets
      /\ r.totalUserLossesReceived = p.totalUserLossesReceived
  BY <1>1, <1>2 DEF Pools
<1>4. CASE q = PayoutPaid(p, paid, reserved, risk) \/ (q = RiskRefunded(p, risk, reserved) /\ paid = risk)
  <2>1. q = [r EXCEPT !.internalAssets = ledger]
    BY <1>3, <1>4 DEF PayoutPaid, RiskRefunded, r
  <2> HIDE DEF ledger
  <2>2. /\ q \in Pools /\ q.sharesOf = r.sharesOf /\ q.totalShares = r.totalShares
        /\ q.reservedAssets = r.reservedAssets /\ q.lockedUserRisk = r.lockedUserRisk
        /\ q.internalAssets = ledger
    BY <1>1, <1>3, <2>1 DEF Pools
  <2> QED
    BY <1>3, <2>2 DEF ringFenced, locked, ledger
<1>5. CASE q = LossSettled(p, risk, reserved) /\ paid = 0
  <2>1. q = [r EXCEPT !.totalUserLossesReceived = losses]
    BY <1>3, <1>5 DEF LossSettled, r
  <2> HIDE DEF losses
  <2>2. /\ q \in Pools /\ q.sharesOf = r.sharesOf /\ q.totalShares = r.totalShares
        /\ q.reservedAssets = r.reservedAssets /\ q.lockedUserRisk = r.lockedUserRisk
        /\ q.internalAssets = r.internalAssets
    BY <1>1, <1>3, <2>1 DEF Pools
  <2>3. p.internalAssets = p.internalAssets - paid
    BY <1>1, <1>5
  <2> QED
    BY <1>3, <2>2, <2>3 DEF ringFenced, locked
<1> QED
  BY <1>4, <1>5

\* A settlement of any kind.
LEMMA SettleStep ==
    ASSUME EngineInv, NEW t \in TicketIds, SettleTicket(t)
    PROVE  /\ EngineInv' /\ AvailableAssets(pool') >= AvailableAssets(pool)
           /\ (usdc')[Router] = usdc[Router]
           /\ pool'.totalShares = pool.totalShares
<1> DEFINE tk == ticket[t]
<1>0. /\ TypeOK /\ t \in OpenTickets /\ pool \in Pools /\ pool.internalAssets \in Nat
      /\ usdc \in [Accounts -> Nat]
  BY DEF EngineInv, TypeOK, Pools, OpenTickets, SettleTicket, RefundTicket, PayTicket,
         ForfeitTicket, CloseTicket
<1>1. /\ tk \in Tickets /\ CanRelease(pool, tk.riskAmount, tk.reservedAmount)
      /\ tk.payout = tk.riskAmount + tk.reservedAmount
      /\ tk.riskAmount \in Nat /\ tk.reservedAmount \in Nat /\ tk.payout \in Nat
      /\ tk.owner \in Accounts /\ Pool \in Accounts /\ Router \in Accounts
      /\ tk.owner # Pool /\ tk.owner # Router /\ Pool # Router
  BY <1>0, OpenTicketBacked, Addresses DEF Tickets, Users
<1> HIDE DEF tk
<1>2. CASE RefundTicket(t)
  <2>1. /\ CloseTicket(t, "Cancelled") /\ CanPay(tk.riskAmount)
        /\ pool' = RiskRefunded(pool, tk.riskAmount, tk.reservedAmount)
        /\ usdc' = Transferred(usdc, Pool, tk.owner, tk.riskAmount)
    BY <1>2 DEF RefundTicket, tk
  <2>2. tk.riskAmount <= pool.internalAssets /\ tk.riskAmount <= usdc[Pool]
    BY <1>0, <1>1, <2>1 DEF CanPay
  <2>3. /\ pool' \in Pools /\ pool'.sharesOf = pool.sharesOf /\ pool'.totalShares = pool.totalShares
        /\ pool'.reservedAssets = pool.reservedAssets - tk.reservedAmount
        /\ pool'.lockedUserRisk = pool.lockedUserRisk - tk.riskAmount
        /\ pool'.internalAssets = pool.internalAssets - tk.riskAmount
    BY <1>0, <1>1, <2>1, <2>2, ReleaseFields
  <2>4. /\ usdc' \in [Accounts -> Nat] /\ (usdc')[Pool] = usdc[Pool] - tk.riskAmount
        /\ (usdc')[Router] = usdc[Router]
    BY <1>0, <1>1, <2>1, <2>2, TransferType
  <2>5. tk.riskAmount <= tk.payout
    BY <1>1
  <2> QED
    BY <1>1, <2>1, <2>3, <2>4, <2>5, CloseStep DEF tk
<1>3. CASE PayTicket(t)
  <2>1. /\ CloseTicket(t, "Settled") /\ CanPay(tk.payout)
        /\ pool' = PayoutPaid(pool, tk.payout, tk.reservedAmount, tk.riskAmount)
        /\ usdc' = Transferred(usdc, Pool, tk.owner, tk.payout)
    BY <1>3 DEF PayTicket, tk
  <2>2. tk.payout <= pool.internalAssets /\ tk.payout <= usdc[Pool]
    BY <1>0, <1>1, <2>1 DEF CanPay
  <2>3. /\ pool' \in Pools /\ pool'.sharesOf = pool.sharesOf /\ pool'.totalShares = pool.totalShares
        /\ pool'.reservedAssets = pool.reservedAssets - tk.reservedAmount
        /\ pool'.lockedUserRisk = pool.lockedUserRisk - tk.riskAmount
        /\ pool'.internalAssets = pool.internalAssets - tk.payout
    BY <1>0, <1>1, <2>1, <2>2, ReleaseFields
  <2>4. /\ usdc' \in [Accounts -> Nat] /\ (usdc')[Pool] = usdc[Pool] - tk.payout
        /\ (usdc')[Router] = usdc[Router]
    BY <1>0, <1>1, <2>1, <2>2, TransferType
  <2>5. tk.payout <= tk.payout
    BY <1>1
  <2> QED
    BY <1>1, <2>1, <2>3, <2>4, <2>5, CloseStep DEF tk
<1>4. CASE ForfeitTicket(t)
  <2>1. /\ CloseTicket(t, "Settled")
        /\ pool' = LossSettled(pool, tk.riskAmount, tk.reservedAmount)
        /\ usdc' = usdc
    BY <1>4 DEF ForfeitTicket, tk
  <2>2. 0 <= pool.internalAssets /\ 0 <= tk.payout
    BY <1>0, <1>1
  <2>3. /\ pool' \in Pools /\ pool'.sharesOf = pool.sharesOf /\ pool'.totalShares = pool.totalShares
        /\ pool'.reservedAssets = pool.reservedAssets - tk.reservedAmount
        /\ pool'.lockedUserRisk = pool.lockedUserRisk - tk.riskAmount
        /\ pool'.internalAssets = pool.internalAssets - 0
    BY <1>0, <1>1, <2>1, <2>2, ReleaseFields
  <2>4. /\ usdc' \in [Accounts -> Nat] /\ (usdc')[Pool] = usdc[Pool] - 0
        /\ (usdc')[Router] = usdc[Router]
    BY <1>0, <1>1, <2>1
  <2> QED
    BY <2>1, <2>2, <2>3, <2>4, CloseStep DEF tk
<1> QED
  BY <1>2, <1>3, <1>4 DEF SettleTicket

---------------------------------------------------------------------------
(* The invariant. *)

\* Nothing deposited, created or minted.
LEMMA InitEngine == Init => EngineInv
<1> SUFFICES ASSUME Init PROVE EngineInv
  OBVIOUS
<1>1. OpenTickets = {}
  BY DEF Init, OpenTickets, NoTicket
<1>2. /\ \A m \in Markets : /\ OpenOn(m) = {} /\ OpenSide(m, YES) = {} /\ OpenSide(m, NO) = {}
      /\ \A u \in Users : OpenOf(u) = {}
  BY <1>1 DEF OpenOn, OpenSide, OpenOf
<1>3. pool = [totalShares |-> 0, sharesOf |-> [lp \in LPs |-> 0], internalAssets |-> 0,
              reservedAssets |-> 0, lockedUserRisk |-> 0,
              totalFeesEarned |-> 0, totalUserLossesReceived |-> 0]
  BY DEF Init, EmptyPool
<1>4. TypeOK
  <2>1. now \in 0..MaxTime /\ paused \in BOOLEAN /\ feeSplit \in FeeSplits /\ totalSupply \in 0..MaxTickets
    <3>1. MaxTime \in Nat /\ MaxTickets \in Nat /\ FirstSplit \in FeeSplits
      BY ProtocolAssumption
    <3>2. now = 0 /\ feeSplit = FirstSplit /\ totalSupply = 0
      BY DEF Init
    <3>3. paused \in BOOLEAN
      BY Zenon DEF Init
    <3>4. now \in 0..MaxTime /\ totalSupply \in 0..MaxTickets /\ feeSplit \in FeeSplits
      BY <3>1, <3>2
    <3> QED
      BY <3>3, <3>4, Zenon
  <2>2. market \in [Markets -> MarketRecords]
    <3>1. NoMarket \in MarketRecords
      BY DEF NoMarket, MarketRecords, Statuses
    <3> QED
      BY <3>1 DEF Init
  <2>3. exposure \in [Markets -> Exposures] /\ userReserveUsed \in [Users -> Nat]
    <3>1. NoExposure \in Exposures
      BY DEF NoExposure, Exposures
    <3> QED
      BY <3>1 DEF Init
  <2>4. /\ ticket \in [TicketIds -> Tickets \cup {NoTicket}]
        /\ \A t \in TicketIds : ticket[t].status # "None" <=> t <= totalSupply
    <3>1. \A t \in TicketIds : ~(t <= 0)
      BY ProtocolAssumption DEF TicketIds
    <3> QED
      BY <3>1 DEF Init, NoTicket
  <2>5. pool \in Pools
    BY <1>3 DEF Pools
  <2>6. usdc \in [Accounts -> Nat]
    BY ProtocolAssumption DEF Init
  <2> QED
    BY <2>1, <2>2, <2>3, <2>4, <2>5, <2>6 DEF TypeOK
<1>5. TicketsAddUp
  BY DEF Init, TicketsAddUp, NoTicket
<1>6. SharesAddUp
  <2> DEFINE none == [lp \in LPs |-> 0]
  <2>1. Coins(none, LPs) = {}
    BY DEF Coins, CoinsOf
  <2>2. Total(none, LPs) = 0
    BY <2>1, FS_EmptySet DEF Total
  <2> HIDE DEF none
  <2>3. pool.totalShares = 0 /\ pool.sharesOf = none
    BY <1>3 DEF none
  <2> QED
    BY <2>2, <2>3 DEF SharesAddUp
<1>7. BooksHaveDepth
  BY DEF Init, BooksHaveDepth, NoMarket
<1>8. EscrowReconciles
  BY <1>1, <1>3, TotalEmpty DEF EscrowReconciles
<1>9. ExposureReconciles
  <2>1. \A m \in Markets :
          /\ exposure[m].totalUserRisk = 0 /\ exposure[m].lpReserveAllocated = 0
          /\ exposure[m].payoutIfYes = 0 /\ exposure[m].payoutIfNo = 0
          /\ exposure[m].reserveIfYes = 0 /\ exposure[m].reserveIfNo = 0
    BY DEF Init, NoExposure
  <2>2. \A u \in Users : userReserveUsed[u] = 0
    BY DEF Init
  <2>3. Total(RiskOf, {}) = 0 /\ Total(PayoutOf, {}) = 0 /\ Total(ReserveOf, {}) = 0
    BY TotalEmpty
  <2> QED
    BY <1>2, <2>1, <2>2, <2>3 DEF ExposureReconciles
<1>10. EscrowFunded
  <2>1. usdc[Pool] = 0
    BY Addresses DEF Init
  <2> QED
    BY <1>3, <2>1 DEF EscrowFunded
<1> QED
  BY <1>4, <1>5, <1>6, <1>7, <1>8, <1>9, <1>10 DEF EngineInv

\* The transactions of a market's life.
LEMMA LifecycleStep ==
    ASSUME EngineInv, NEW m \in Markets,
           \/ \E seed \in Seeds : CreateMarket(m, seed)
           \/ OpenMarket(m) \/ LockMarket(m)
           \/ \E outcome \in Outcomes : ResolveMarket(m, outcome)
           \/ CancelMarket(m) \/ ArchiveMarket(m)
    PROVE  EngineInv'
<1> DEFINE mkt == market[m]
<1>0. mkt \in MarketRecords /\ (mkt.status # "None" => mkt.impactLiquidity > 0)
  BY DEF EngineInv, TypeOK, BooksHaveDepth
<1>1. CASE \E seed \in Seeds : CreateMarket(m, seed)
  <2>1. PICK seed \in Seeds : CreateMarket(m, seed)
    BY <1>1
  <2> DEFINE managed == IF ManagedReadable(pool) THEN ManagedAssets(pool) ELSE 0
             built == Construct(seed, managed)
  <2>2. managed \in Nat
    BY PoolType DEF EngineInv, ManagedReadable
  <2>3. MarketBecomes(m, built)
    BY <2>1 DEF CreateMarket
  <2> HIDE DEF managed
  <2>4. built \in MarketRecords /\ built.impactLiquidity > 0
    BY <2>2, ConstructType
  <2> HIDE DEF built
  <2> QED
    BY <2>3, <2>4, MarketStep
<1>2. CASE OpenMarket(m)
  <2>1. mkt.status # "None" /\ MarketBecomes(m, Opened(mkt))
    BY <1>2 DEF OpenMarket, CanOpen
  <2>2. Opened(mkt) \in MarketRecords /\ Opened(mkt).impactLiquidity = mkt.impactLiquidity
    <3> HIDE DEF mkt
    <3> QED
      BY <1>0 DEF Opened, MarketRecords, Statuses
  <2> QED
    BY <1>0, <2>1, <2>2, MarketStep
<1>3. CASE LockMarket(m)
  <2>1. mkt.status # "None" /\ MarketBecomes(m, Locked(mkt))
    BY <1>3 DEF LockMarket, CanLock
  <2>2. Locked(mkt) \in MarketRecords /\ Locked(mkt).impactLiquidity = mkt.impactLiquidity
    <3> HIDE DEF mkt
    <3> QED
      BY <1>0 DEF Locked, MarketRecords, Statuses
  <2> QED
    BY <1>0, <2>1, <2>2, MarketStep
<1>4. CASE \E outcome \in Outcomes : ResolveMarket(m, outcome)
  <2>1. PICK outcome \in Outcomes : ResolveMarket(m, outcome)
    BY <1>4
  <2>2. mkt.status # "None" /\ MarketBecomes(m, Resolved(mkt, outcome))
    BY <2>1 DEF ResolveMarket, CanResolve
  <2>3. /\ Resolved(mkt, outcome) \in MarketRecords
        /\ Resolved(mkt, outcome).impactLiquidity = mkt.impactLiquidity
    <3> HIDE DEF mkt
    <3> QED
      BY <1>0 DEF Resolved, MarketRecords, Statuses
  <2> QED
    BY <1>0, <2>2, <2>3, MarketStep
<1>5. CASE CancelMarket(m)
  <2>1. mkt.status # "None" /\ MarketBecomes(m, Cancelled(mkt))
    BY <1>5 DEF CancelMarket, CanCancel
  <2>2. Cancelled(mkt) \in MarketRecords /\ Cancelled(mkt).impactLiquidity = mkt.impactLiquidity
    <3> HIDE DEF mkt
    <3> QED
      BY <1>0 DEF Cancelled, MarketRecords, Statuses
  <2> QED
    BY <1>0, <2>1, <2>2, MarketStep
<1>6. CASE ArchiveMarket(m)
  <2>1. mkt.status # "None" /\ MarketBecomes(m, Archived(mkt))
    BY <1>6 DEF ArchiveMarket, CanArchive
  <2>2. Archived(mkt) \in MarketRecords /\ Archived(mkt).impactLiquidity = mkt.impactLiquidity
    <3> HIDE DEF mkt
    <3> QED
      BY <1>0 DEF Archived, MarketRecords, Statuses
  <2> QED
    BY <1>0, <2>1, <2>2, MarketStep
<1> QED
  BY <1>1, <1>2, <1>3, <1>4, <1>5, <1>6

\* The other transactions that leave the ledger alone.
LEMMA OwnerStep ==
    ASSUME EngineInv,
           \/ Tick
           \/ \E from \in Traders, amount \in Deposits : Donate(from, amount)
           \/ \E p \in BOOLEAN : SetPaused(p)
           \/ \E split \in FeeSplits : SetFeeSplit(split)
           \/ WithdrawInsurance(usdc[Insurance])
    PROVE  EngineInv' /\ (usdc')[Router] = usdc[Router]
<1>0. /\ now \in 0..MaxTime /\ paused \in BOOLEAN /\ feeSplit \in FeeSplits
      /\ usdc \in [Accounts -> Nat] /\ usdc[Pool] \in Nat
  BY Addresses DEF EngineInv, TypeOK
<1>1. CASE Tick
  <2>1. now' \in 0..MaxTime
    BY <1>0, <1>1, ProtocolAssumption DEF Tick
  <2> QED
    BY <1>0, <1>1, <2>1, QuietStep DEF Tick, admin
<1>2. CASE \E from \in Traders, amount \in Deposits : Donate(from, amount)
  <2>1. PICK from \in Traders, amount \in Deposits : Donate(from, amount)
    BY <1>2
  <2>2. amount \in Nat /\ from \in Accounts /\ from # Pool /\ from # Router
    BY ProtocolAssumption, Addresses DEF Users
  <2>3. amount <= usdc[from] /\ usdc' = Transferred(usdc, from, Pool, amount)
    BY <1>0, <2>1, <2>2 DEF Donate
  <2>4. /\ usdc' \in [Accounts -> Nat] /\ (usdc')[Pool] = usdc[Pool] + amount
        /\ (usdc')[Router] = usdc[Router]
    BY <1>0, <2>2, <2>3, Addresses, TransferType
  <2>5. (usdc')[Pool] >= usdc[Pool]
    BY <1>0, <2>2, <2>4
  <2> QED
    BY <1>0, <2>1, <2>4, <2>5, QuietStep DEF Donate, admin
<1>3. CASE \E p \in BOOLEAN : SetPaused(p)
  BY <1>0, <1>3, QuietStep DEF SetPaused
<1>4. CASE \E split \in FeeSplits : SetFeeSplit(split)
  BY <1>0, <1>4, QuietStep DEF SetFeeSplit
<1>5. CASE WithdrawInsurance(usdc[Insurance])
  <2>1. usdc[Insurance] \in Nat /\ usdc' = Transferred(usdc, Insurance, Treasury, usdc[Insurance])
        /\ usdc[Insurance] <= usdc[Insurance]
    BY <1>0, <1>5, Addresses DEF WithdrawInsurance
  <2>2. usdc' \in [Accounts -> Nat] /\ (usdc')[Pool] = usdc[Pool] /\ (usdc')[Router] = usdc[Router]
    BY <1>0, <2>1, Addresses, TransferType
  <2>3. (usdc')[Pool] >= usdc[Pool]
    BY <1>0, <2>2
  <2> QED
    BY <1>0, <1>5, <2>2, <2>3, QuietStep DEF WithdrawInsurance, admin
<1> QED
  BY <1>1, <1>2, <1>3, <1>4, <1>5

\* Every step keeps the invariant.
LEMMA StepKeepsEngine == EngineInv /\ [Next]_vars => EngineInv'
<1> SUFFICES ASSUME EngineInv, [Next]_vars PROVE EngineInv'
  OBVIOUS
<1>1. CASE UNCHANGED vars
  <2>1. /\ now' \in 0..MaxTime /\ paused' \in BOOLEAN /\ feeSplit' \in FeeSplits
        /\ usdc' = usdc /\ usdc \in [Accounts -> Nat] /\ usdc[Pool] \in Nat
        /\ UNCHANGED <<book, positions, pool>>
    BY <1>1, Addresses DEF vars, admin, EngineInv, TypeOK
  <2>2. (usdc')[Pool] >= usdc[Pool]
    BY <2>1
  <2> QED
    BY <2>1, <2>2, QuietStep
<1>2. CASE \E lp \in LPs, amount \in Deposits : Deposit(lp, amount)
  BY <1>2, DepositStep
<1>3. CASE \E lp \in LPs : \E shares \in ShareLots \cup {pool.sharesOf[lp]} : Withdraw(lp, shares)
  <2>1. PICK lp \in LPs : \E shares \in ShareLots \cup {pool.sharesOf[lp]} : Withdraw(lp, shares)
    BY <1>3
  <2>2. PICK shares \in ShareLots \cup {pool.sharesOf[lp]} : Withdraw(lp, shares)
    BY <2>1
  <2>3. shares \in Int
    BY ProtocolAssumption, PoolType DEF EngineInv
  <2> QED
    BY <2>2, <2>3, WithdrawStep
<1>4. CASE \E buyer \in Traders, m \in Markets, outcome \in Outcomes, risk \in Risks, boostBps \in Boosts :
             BuyTicket(buyer, m, outcome, risk, boostBps)
  BY <1>4, BuyStep
<1>5. CASE \E t \in TicketIds : SettleTicket(t)
  BY <1>5, SettleStep
<1> QED
  BY <1>1, <1>2, <1>3, <1>4, <1>5, LifecycleStep, OwnerStep DEF Next

\* The invariant holds in every reachable state.
THEOREM EngineInvariant == Spec => []EngineInv
<1>1. Init => EngineInv
  BY InitEngine
<1>2. EngineInv /\ [Next]_vars => EngineInv'
  BY StepKeepsEngine
<1> QED
  BY <1>1, <1>2, PTL DEF Spec

\* No balance, reserve, exposure or share count is ever taken below zero, and
\* minted ids are exactly 1..totalSupply.
THEOREM EngineTypeCorrect == Spec => []TypeOK
<1>1. EngineInv => TypeOK
  BY DEF EngineInv
<1> QED
  BY <1>1, EngineInvariant, PTL

\* The vault's reserved and locked balances are the sums over open tickets.
THEOREM EngineEscrowReconciles == Spec => []EscrowReconciles
<1>1. EngineInv => EscrowReconciles
  BY DEF EngineInv
<1> QED
  BY <1>1, EngineInvariant, PTL

\* The six counters of each market and the reserve of each user agree with the
\* open tickets.
THEOREM EngineExposureReconciles == Spec => []ExposureReconciles
<1>1. EngineInv => ExposureReconciles
  BY DEF EngineInv
<1> QED
  BY <1>1, EngineInvariant, PTL

\* Reserves and stakes fit in the vault's ledger, and the ledger in its tokens.
THEOREM EngineEscrowFunded == Spec => []EscrowFunded
<1>1. EngineInv => EscrowFunded
  BY DEF EngineInv
<1> QED
  BY <1>1, EngineInvariant, PTL

\* Settling an open ticket of a final market never reverts.
THEOREM SettlementAlwaysPossible == Spec => []SettlementNeverReverts
<1>1. EngineInv => SettlementNeverReverts
  <2> SUFFICES ASSUME EngineInv, NEW t \in OpenTickets
               PROVE  LET tk == ticket[t]
                          mkt == market[tk.market]
                          owed == IF Voided(mkt) THEN tk.riskAmount
                                  ELSE IF mkt.winningOutcome = tk.outcome THEN tk.payout ELSE 0
                      IN  /\ CanRemoveExposure(tk)
                          /\ CanRelease(pool, tk.riskAmount, tk.reservedAmount)
                          /\ CanPay(owed)
    BY Zenon DEF SettlementNeverReverts
  <2>1. /\ CanRemoveExposure(ticket[t])
        /\ CanRelease(pool, ticket[t].riskAmount, ticket[t].reservedAmount)
        /\ CanPay(ticket[t].payout) /\ CanPay(ticket[t].riskAmount) /\ CanPay(0)
    BY OpenTicketBacked
  <2> QED
    BY <2>1, Zenon
<1> QED
  BY <1>1, EngineInvariant, PTL

\* A settlement never lowers the liquidity that is free.
THEOREM SettlementOnlySpendsReserves == Spec => SettlementSparesFreeLiquidity
<1> DEFINE Spares == OpenTickets' # OpenTickets /\ totalSupply' = totalSupply =>
                         AvailableAssets(pool') >= AvailableAssets(pool)
<1>1. EngineInv /\ [Next]_vars => [Spares]_vars
  <2> SUFFICES ASSUME EngineInv, Next, OpenTickets' # OpenTickets, totalSupply' = totalSupply
               PROVE  AvailableAssets(pool') >= AvailableAssets(pool)
    BY Zenon
  <2>1. ticket' # ticket
    BY SumsStay
  <2>2. CASE \E t \in TicketIds : SettleTicket(t)
    BY <2>2, SettleStep
  <2>3. CASE \E buyer \in Traders, m \in Markets, outcome \in Outcomes, risk \in Risks, boostBps \in Boosts :
               BuyTicket(buyer, m, outcome, risk, boostBps)
    <3>1. totalSupply' = totalSupply + 1 /\ totalSupply \in Nat
      BY <2>3 DEF BuyTicket, EngineInv, TypeOK
    <3> QED
      BY <3>1
  <2>4. CASE UNCHANGED positions
    BY <2>1, <2>4 DEF positions
  <2>5. \/ \E t \in TicketIds : SettleTicket(t)
        \/ \E buyer \in Traders, m \in Markets, outcome \in Outcomes, risk \in Risks, boostBps \in Boosts :
               BuyTicket(buyer, m, outcome, risk, boostBps)
        \/ UNCHANGED positions
    BY Zenon DEF Next, Tick, Donate, SetPaused, SetFeeSplit, WithdrawInsurance, Deposit, Withdraw,
              CreateMarket, OpenMarket, LockMarket, ResolveMarket, CancelMarket, ArchiveMarket,
              MarketBecomes
  <2> QED
    BY <2>2, <2>3, <2>4, <2>5
<1>2. SettlementSparesFreeLiquidity <=> [][Spares]_vars
  BY PTL DEF SettlementSparesFreeLiquidity
<1> QED
  BY <1>1, <1>2, EngineInvariant, PTL DEF Spec

\* Entering and leaving the vault never lowers the value of a share.
THEOREM EntryAndExitAreFair == Spec => SharesAreNeverDiluted
<1> DEFINE Fair == pool.totalShares > 0 /\ pool'.totalShares # pool.totalShares =>
                       ManagedAssets(pool') * pool.totalShares >= ManagedAssets(pool) * pool'.totalShares
<1>1. EngineInv /\ [Next]_vars => [Fair]_vars
  <2> SUFFICES ASSUME EngineInv, Next, pool.totalShares > 0, pool'.totalShares # pool.totalShares
               PROVE  ManagedAssets(pool') * pool.totalShares >= ManagedAssets(pool) * pool'.totalShares
    BY Zenon
  <2>1. CASE \E lp \in LPs, amount \in Deposits : Deposit(lp, amount)
    BY <2>1, DepositStep
  <2>2. CASE \E lp \in LPs : \E shares \in ShareLots \cup {pool.sharesOf[lp]} : Withdraw(lp, shares)
    <3>1. PICK lp \in LPs : \E shares \in ShareLots \cup {pool.sharesOf[lp]} : Withdraw(lp, shares)
      BY <2>2
    <3>2. PICK shares \in ShareLots \cup {pool.sharesOf[lp]} : Withdraw(lp, shares)
      BY <3>1
    <3>3. shares \in Int
      BY ProtocolAssumption, PoolType DEF EngineInv
    <3> QED
      BY <3>2, <3>3, WithdrawStep
  <2>3. CASE \E buyer \in Traders, m \in Markets, outcome \in Outcomes, risk \in Risks, boostBps \in Boosts :
               BuyTicket(buyer, m, outcome, risk, boostBps)
    <3>1. PICK buyer \in Traders, m \in Markets, outcome \in Outcomes, risk \in Risks, boostBps \in Boosts :
             BuyTicket(buyer, m, outcome, risk, boostBps)
      BY <2>3
    <3>2. pool'.totalShares = pool.totalShares
      BY <3>1, BuyEffect
    <3> QED
      BY <3>2
  <2>4. CASE \E t \in TicketIds : SettleTicket(t)
    <3>1. PICK t \in TicketIds : SettleTicket(t)
      BY <2>4
    <3>2. pool'.totalShares = pool.totalShares
      BY <3>1, SettleStep
    <3> QED
      BY <3>2
  <2>5. CASE pool' = pool
    BY <2>5
  <2>6. \/ \E lp \in LPs, amount \in Deposits : Deposit(lp, amount)
        \/ \E lp \in LPs : \E shares \in ShareLots \cup {pool.sharesOf[lp]} : Withdraw(lp, shares)
        \/ \E buyer \in Traders, m \in Markets, outcome \in Outcomes, risk \in Risks, boostBps \in Boosts :
               BuyTicket(buyer, m, outcome, risk, boostBps)
        \/ \E t \in TicketIds : SettleTicket(t)
        \/ pool' = pool
    BY Zenon DEF Next, Tick, Donate, SetPaused, SetFeeSplit, WithdrawInsurance,
              CreateMarket, OpenMarket, LockMarket, ResolveMarket, CancelMarket, ArchiveMarket,
              MarketBecomes
  <2> QED
    BY <2>1, <2>2, <2>3, <2>4, <2>5, <2>6
<1>2. SharesAreNeverDiluted <=> [][Fair]_vars
  BY PTL DEF SharesAreNeverDiluted
<1> QED
  BY <1>1, <1>2, EngineInvariant, PTL DEF Spec

\* The fee router passes on all it is given.
THEOREM RouterIsEmpty == Spec => []RouterKeepsNothing
<1>1. Init => RouterKeepsNothing
  BY Addresses DEF Init, RouterKeepsNothing
<1>2. EngineInv /\ [Next]_vars => (usdc')[Router] = usdc[Router]
  <2> SUFFICES ASSUME EngineInv, [Next]_vars PROVE (usdc')[Router] = usdc[Router]
    OBVIOUS
  <2>1. CASE usdc' = usdc
    BY <2>1
  <2>2. CASE \E lp \in LPs, amount \in Deposits : Deposit(lp, amount)
    <3>1. PICK lp \in LPs, amount \in Deposits : Deposit(lp, amount)
      BY <2>2
    <3>2. /\ usdc \in [Accounts -> Nat] /\ lp \in Accounts /\ Pool \in Accounts /\ Router \in Accounts
          /\ lp \notin {Pool, Router} /\ Pool # Router /\ amount \in Nat
      BY Addresses, LpsFinite, ProtocolAssumption DEF EngineInv, TypeOK
    <3>3. usdc' = Transferred(usdc, lp, Pool, amount) /\ amount <= usdc[lp]
      BY <3>1, <3>2 DEF Deposit
    <3> QED
      BY <3>2, <3>3, TransferType
  <2>3. CASE \E lp \in LPs : \E shares \in ShareLots \cup {pool.sharesOf[lp]} : Withdraw(lp, shares)
    <3>1. PICK lp \in LPs : \E shares \in ShareLots \cup {pool.sharesOf[lp]} : Withdraw(lp, shares)
      BY <2>3
    <3>2. PICK shares \in ShareLots \cup {pool.sharesOf[lp]} : Withdraw(lp, shares)
      BY <3>1
    <3>3. /\ lp \in Accounts /\ Pool \in Accounts /\ Router \in Accounts
          /\ lp \notin {Pool, Router} /\ Pool # Router
      BY Addresses, LpsFinite
    <3>4. usdc' = Transferred(usdc, Pool, lp, AssetsFor(pool, shares))
      BY <3>2 DEF Withdraw
    <3>5. usdc \in [Accounts -> Nat]
      BY DEF EngineInv, TypeOK
    <3> QED
      BY <3>3, <3>4, <3>5 DEF Transferred
  <2>4. CASE \E buyer \in Traders, m \in Markets, outcome \in Outcomes, risk \in Risks, boostBps \in Boosts :
               BuyTicket(buyer, m, outcome, risk, boostBps)
    BY <2>4, BuyStep
  <2>5. CASE \E t \in TicketIds : SettleTicket(t)
    BY <2>5, SettleStep
  <2>6. CASE \/ \E from \in Traders, amount \in Deposits : Donate(from, amount)
             \/ WithdrawInsurance(usdc[Insurance])
    BY <2>6, OwnerStep
  <2>7. \/ usdc' = usdc
        \/ \E lp \in LPs, amount \in Deposits : Deposit(lp, amount)
        \/ \E lp \in LPs : \E shares \in ShareLots \cup {pool.sharesOf[lp]} : Withdraw(lp, shares)
        \/ \E buyer \in Traders, m \in Markets, outcome \in Outcomes, risk \in Risks, boostBps \in Boosts :
               BuyTicket(buyer, m, outcome, risk, boostBps)
        \/ \E t \in TicketIds : SettleTicket(t)
        \/ \E from \in Traders, amount \in Deposits : Donate(from, amount)
        \/ WithdrawInsurance(usdc[Insurance])
    BY Zenon DEF Next, vars, Tick, SetPaused, SetFeeSplit,
              CreateMarket, OpenMarket, LockMarket, ResolveMarket, CancelMarket, ArchiveMarket,
              MarketBecomes
  <2> QED
    BY <2>1, <2>2, <2>3, <2>4, <2>5, <2>6, <2>7
<1>3. RouterKeepsNothing /\ (usdc')[Router] = usdc[Router] => RouterKeepsNothing'
  BY DEF RouterKeepsNothing
<1> QED
  BY <1>1, <1>2, <1>3, EngineInvariant, PTL DEF Spec

---------------------------------------------------------------------------
(* Verdicts. *)

\* A winning outcome is set exactly by resolution.
VerdictSet(mkt) ==
    /\ mkt.status = "Resolved" => mkt.winningOutcome # Unset
    /\ mkt.winningOutcome # Unset => mkt.status \in {"Resolved", "Archived"}

\* Once a market is created both of its quotes are at least the rail.
PriceStands(mkt) ==
    mkt.status # "None" => mkt.yesPrice >= MIN_PRICE /\ mkt.noPrice >= MIN_PRICE

\* No step of a market takes back a verdict that tickets were closed under, or
\* quotes below the rail.
LEMMA LifecycleKeepsVerdict ==
    ASSUME TypeOK, NEW m \in Markets, VerdictSet(market[m]),
           NEW mkt,
           \/ \E seed \in Seeds, managed \in Nat :
                 market[m].status = "None" /\ mkt = Construct(seed, managed)
           \/ CanOpen(market[m], Schedule[m], now) /\ mkt = Opened(market[m])
           \/ CanLock(market[m], Schedule[m], now) /\ mkt = Locked(market[m])
           \/ \E outcome \in Outcomes : CanResolve(market[m], Schedule[m], now)
                                        /\ mkt = Resolved(market[m], outcome)
           \/ CanCancel(market[m]) /\ mkt = Cancelled(market[m])
           \/ \E any \in BOOLEAN : CanArchive(market[m], any) /\ mkt = Archived(market[m])
    PROVE  /\ VerdictSet(mkt)
           /\ Decided(market[m]) => Decided(mkt)
           /\ Voided(market[m]) => Voided(mkt)
           /\ Decided(market[m]) => mkt.winningOutcome = market[m].winningOutcome
           /\ PriceStands(market[m]) => PriceStands(mkt)
<1> DEFINE old == market[m]
<1>0. old \in MarketRecords
  BY DEF TypeOK
<1>1. CASE \E seed \in Seeds, managed \in Nat : old.status = "None" /\ mkt = Construct(seed, managed)
  <2>1. /\ mkt.status = "Created" /\ mkt.winningOutcome = Unset
        /\ mkt.yesPrice >= MIN_PRICE /\ mkt.noPrice >= MIN_PRICE
    BY <1>1, ConstructType
  <2> HIDE DEF old
  <2> QED
    BY <1>1, <2>1 DEF VerdictSet, PriceStands, Decided, Voided, old
<1> HIDE DEF old
<1>2. VerdictSet(old)
  BY DEF old
<1>3. CASE CanOpen(old, Schedule[m], now) /\ mkt = Opened(old)
  <2>1. /\ old.status = "Created" /\ mkt.status = "Open" /\ mkt.winningOutcome = old.winningOutcome
        /\ mkt.yesPrice = old.yesPrice /\ mkt.noPrice = old.noPrice
    BY <1>0, <1>3 DEF CanOpen, Opened, MarketRecords
  <2> QED
    BY <1>2, <2>1 DEF VerdictSet, PriceStands, Decided, Voided, old
<1>4. CASE CanLock(old, Schedule[m], now) /\ mkt = Locked(old)
  <2>1. /\ old.status = "Open" /\ mkt.status = "Locked" /\ mkt.winningOutcome = old.winningOutcome
        /\ mkt.yesPrice = old.yesPrice /\ mkt.noPrice = old.noPrice
    BY <1>0, <1>4 DEF CanLock, Locked, MarketRecords
  <2> QED
    BY <1>2, <2>1 DEF VerdictSet, PriceStands, Decided, Voided, old
<1>5. CASE \E outcome \in Outcomes : CanResolve(old, Schedule[m], now) /\ mkt = Resolved(old, outcome)
  <2>1. PICK outcome \in Outcomes : CanResolve(old, Schedule[m], now) /\ mkt = Resolved(old, outcome)
    BY <1>5
  <2>2. /\ old.status \in {"Open", "Locked"} /\ mkt.status = "Resolved"
        /\ mkt.winningOutcome = outcome /\ outcome # Unset
        /\ old.status # "None" /\ mkt.yesPrice = old.yesPrice /\ mkt.noPrice = old.noPrice
    BY <1>0, <2>1 DEF CanResolve, Resolved, MarketRecords, Outcomes, YES, NO, Unset
  <2> QED
    BY <1>2, <2>2 DEF VerdictSet, PriceStands, Decided, Voided, old
<1>6. CASE CanCancel(old) /\ mkt = Cancelled(old)
  <2>1. /\ old.status \notin {"Resolved", "Archived"} /\ mkt.status = "Cancelled"
        /\ mkt.winningOutcome = old.winningOutcome /\ old.status # "None"
        /\ mkt.yesPrice = old.yesPrice /\ mkt.noPrice = old.noPrice
    BY <1>0, <1>6 DEF CanCancel, Cancelled, MarketRecords
  <2> QED
    BY <1>2, <2>1 DEF VerdictSet, PriceStands, Decided, Voided, old
<1>7. CASE \E any \in BOOLEAN : CanArchive(old, any) /\ mkt = Archived(old)
  <2>1. /\ old.status \in {"Resolved", "Cancelled"} /\ mkt.status = "Archived"
        /\ mkt.winningOutcome = old.winningOutcome
        /\ mkt.yesPrice = old.yesPrice /\ mkt.noPrice = old.noPrice
    BY <1>0, <1>7 DEF CanArchive, Archived, MarketRecords
  <2> QED
    BY <1>2, <2>1 DEF VerdictSet, PriceStands, Decided, Voided, old
<1> QED
  BY <1>1, <1>3, <1>4, <1>5, <1>6, <1>7 DEF old

\* Each transaction of a market's life changes that market alone, and no
\* verdict that tickets were closed under.
LEMMA LifecycleChange ==
    ASSUME EngineInv, VerdictsStand, NEW m \in Markets,
           \/ \E seed \in Seeds : CreateMarket(m, seed)
           \/ OpenMarket(m) \/ LockMarket(m)
           \/ \E outcome \in Outcomes : ResolveMarket(m, outcome)
           \/ CancelMarket(m) \/ ArchiveMarket(m)
    PROVE  \E mkt : /\ MarketBecomes(m, mkt) /\ VerdictSet(mkt)
                    /\ Decided(market[m]) => Decided(mkt)
                    /\ Voided(market[m]) => Voided(mkt)
                    /\ Decided(market[m]) => mkt.winningOutcome = market[m].winningOutcome
                    /\ PriceStands(market[m]) => PriceStands(mkt)
<1>0. TypeOK /\ VerdictSet(market[m])
  BY DEF EngineInv, VerdictsStand, VerdictSet
<1>1. \E mkt :
        /\ \/ \E seed \in Seeds, managed \in Nat :
                 market[m].status = "None" /\ mkt = Construct(seed, managed)
           \/ CanOpen(market[m], Schedule[m], now) /\ mkt = Opened(market[m])
           \/ CanLock(market[m], Schedule[m], now) /\ mkt = Locked(market[m])
           \/ \E outcome \in Outcomes : CanResolve(market[m], Schedule[m], now)
                                        /\ mkt = Resolved(market[m], outcome)
           \/ CanCancel(market[m]) /\ mkt = Cancelled(market[m])
           \/ \E any \in BOOLEAN : CanArchive(market[m], any) /\ mkt = Archived(market[m])
        /\ MarketBecomes(m, mkt)
  <2>1. CASE \E seed \in Seeds : CreateMarket(m, seed)
    <3>1. PICK seed \in Seeds : CreateMarket(m, seed)
      BY <2>1
    <3> DEFINE managed == IF ManagedReadable(pool) THEN ManagedAssets(pool) ELSE 0
    <3>2. managed \in Nat
      BY <1>0, PoolType DEF ManagedReadable
    <3>3. market[m].status = "None" /\ MarketBecomes(m, Construct(seed, managed))
      BY <3>1, Zenon DEF CreateMarket
    <3> HIDE DEF managed
    <3> QED
      BY <3>2, <3>3, Zenon
  <2>2. CASE OpenMarket(m)
    BY <2>2, Zenon DEF OpenMarket
  <2>3. CASE LockMarket(m)
    BY <2>3, Zenon DEF LockMarket
  <2>4. CASE \E outcome \in Outcomes : ResolveMarket(m, outcome)
    BY <2>4, Zenon DEF ResolveMarket
  <2>5. CASE CancelMarket(m)
    BY <2>5, Zenon DEF CancelMarket
  <2>6. CASE ArchiveMarket(m)
    <3>1. MarketHasNoExposure(m) \in BOOLEAN
      BY Zenon DEF MarketHasNoExposure
    <3> QED
      BY <2>6, <3>1, Zenon DEF ArchiveMarket
  <2> QED
    BY <2>1, <2>2, <2>3, <2>4, <2>5, <2>6
<1>2. PICK mkt :
        /\ \/ \E seed \in Seeds, managed \in Nat :
                 market[m].status = "None" /\ mkt = Construct(seed, managed)
           \/ CanOpen(market[m], Schedule[m], now) /\ mkt = Opened(market[m])
           \/ CanLock(market[m], Schedule[m], now) /\ mkt = Locked(market[m])
           \/ \E outcome \in Outcomes : CanResolve(market[m], Schedule[m], now)
                                        /\ mkt = Resolved(market[m], outcome)
           \/ CanCancel(market[m]) /\ mkt = Cancelled(market[m])
           \/ \E any \in BOOLEAN : CanArchive(market[m], any) /\ mkt = Archived(market[m])
        /\ MarketBecomes(m, mkt)
  BY <1>1
<1>3. /\ VerdictSet(mkt)
      /\ Decided(market[m]) => Decided(mkt)
      /\ Voided(market[m]) => Voided(mkt)
      /\ Decided(market[m]) => mkt.winningOutcome = market[m].winningOutcome
      /\ PriceStands(market[m]) => PriceStands(mkt)
  BY <1>0, <1>2, LifecycleKeepsVerdict, Zenon
<1> QED
  BY <1>2, <1>3

\* Tickets stay closed under the verdict of their market through any change
\* of one market that keeps its verdict.
LEMMA MarketKeepsVerdicts ==
    ASSUME TypeOK, VerdictsStand, NEW m \in Markets, NEW mkt, VerdictSet(mkt),
           Decided(market[m]) => Decided(mkt), Voided(market[m]) => Voided(mkt),
           market' = [market EXCEPT ![m] = mkt],
           \A t \in TicketIds : /\ ticket'[t].status \in {"Settled", "Cancelled"} =>
                                      ticket'[t] = ticket[t]
    PROVE  VerdictsStand'
<1>1. /\ market \in [Markets -> MarketRecords]
      /\ \A k \in Markets : VerdictSet(market[k])
      /\ \A t \in TicketIds : /\ ticket[t].status = "Settled" => Decided(market[ticket[t].market])
                              /\ ticket[t].status = "Cancelled" => Voided(market[ticket[t].market])
  BY DEF TypeOK, VerdictsStand, VerdictSet
<1>2. market'[m] = mkt /\ \A k \in Markets \ {m} : market'[k] = market[k]
  BY <1>1
<1>3. \A k \in Markets : VerdictSet(market'[k])
  BY <1>1, <1>2
<1>4. ASSUME NEW t \in TicketIds, ticket'[t].status \in {"Settled", "Cancelled"}
      PROVE  /\ ticket'[t].status = "Settled" => Decided(market'[ticket'[t].market])
             /\ ticket'[t].status = "Cancelled" => Voided(market'[ticket'[t].market])
  <2>1. ticket'[t] = ticket[t]
    BY <1>4
  <2>2. ticket[t].market \in Markets
    BY <1>4, <2>1, MintedType DEF Tickets
  <2> QED
    BY <1>1, <1>2, <2>1, <2>2
<1> QED
  BY <1>3, <1>4 DEF VerdictsStand, VerdictSet, Decided, Voided

\* Every step keeps the verdicts standing.
LEMMA StepKeepsVerdicts == EngineInv /\ VerdictsStand /\ [Next]_vars => VerdictsStand'
<1> SUFFICES ASSUME EngineInv, VerdictsStand, [Next]_vars PROVE VerdictsStand'
  OBVIOUS
<1>0. TypeOK /\ \A m \in Markets : VerdictSet(market[m])
  BY DEF EngineInv, VerdictsStand, VerdictSet
<1>1. CASE UNCHANGED <<market, ticket>>
  BY <1>1 DEF VerdictsStand, Decided, Voided
<1>2. CASE \E m \in Markets :
             \/ \E seed \in Seeds : CreateMarket(m, seed)
             \/ OpenMarket(m) \/ LockMarket(m)
             \/ \E outcome \in Outcomes : ResolveMarket(m, outcome)
             \/ CancelMarket(m) \/ ArchiveMarket(m)
  <2>1. PICK m \in Markets :
             \/ \E seed \in Seeds : CreateMarket(m, seed)
             \/ OpenMarket(m) \/ LockMarket(m)
             \/ \E outcome \in Outcomes : ResolveMarket(m, outcome)
             \/ CancelMarket(m) \/ ArchiveMarket(m)
    BY <1>2
  <2>2. PICK mkt :
          /\ MarketBecomes(m, mkt) /\ VerdictSet(mkt)
          /\ Decided(market[m]) => Decided(mkt)
          /\ Voided(market[m]) => Voided(mkt)
    BY <2>1, LifecycleChange, Zenon
  <2>3. market' = [market EXCEPT ![m] = mkt] /\ ticket' = ticket
    BY <2>2 DEF MarketBecomes, positions
  <2> QED
    BY <1>0, <2>2, <2>3, MarketKeepsVerdicts
<1>3. CASE \E buyer \in Traders, m \in Markets, outcome \in Outcomes, risk \in Risks, boostBps \in Boosts :
             BuyTicket(buyer, m, outcome, risk, boostBps)
  <2>1. PICK buyer \in Traders, m \in Markets, outcome \in Outcomes, risk \in Risks, boostBps \in Boosts :
           BuyTicket(buyer, m, outcome, risk, boostBps)
    BY <1>3
  <2> DEFINE mkt == ApplyTradeImpact(market[m], outcome, risk)
             payout == QuotedPayout(m, outcome, risk, boostBps)
             tk == [status |-> "Open", market |-> m, owner |-> buyer,
                    outcome |-> outcome, riskAmount |-> risk,
                    payout |-> payout, reservedAmount |-> payout - risk]
  <2>2. tk \in Tickets /\ Mint(tk) /\ risk \in Nat
    BY <2>1, BuyEffect
  <2>3. tk.status = "Open"
    OBVIOUS
  <2>4. market[m] \in MarketRecords /\ market[m].impactLiquidity > 0 /\ market[m].status = "Open"
    BY <2>1 DEF EngineInv, TypeOK, BooksHaveDepth, BuyTicket, CanBuy
  <2>5. mkt.status = market[m].status /\ mkt.winningOutcome = market[m].winningOutcome
    BY <2>2, <2>4, TradeType
  <2>6. market' = [market EXCEPT ![m] = mkt]
    BY <2>1 DEF BuyTicket
  <2> HIDE DEF mkt, tk
  <2>7. \A t \in TicketIds : ticket'[t].status \in {"Settled", "Cancelled"} => ticket'[t] = ticket[t]
    <3>1. /\ ticket'[NextTicketId] = tk
          /\ \A t \in TicketIds \ {NextTicketId} : ticket'[t] = ticket[t]
      BY <1>0, <2>2, <2>3, MintOpens
    <3> QED
      BY <2>3, <3>1
  <2>8. VerdictSet(mkt) /\ (Decided(market[m]) => Decided(mkt)) /\ (Voided(market[m]) => Voided(mkt))
    BY <1>0, <2>4, <2>5 DEF VerdictSet, Decided, Voided
  <2> QED
    BY <1>0, <2>6, <2>7, <2>8, MarketKeepsVerdicts
<1>4. CASE \E t \in TicketIds : SettleTicket(t)
  <2>1. PICK t \in TicketIds : SettleTicket(t)
    BY <1>4
  <2>2. PICK status \in {"Settled", "Cancelled"} :
           /\ CloseTicket(t, status)
           /\ status = "Settled" => Decided(market[ticket[t].market])
           /\ status = "Cancelled" => Voided(market[ticket[t].market])
    BY <2>1 DEF SettleTicket, RefundTicket, PayTicket, ForfeitTicket
  <2>3. Close(t, status) /\ market' = market
    BY <2>2 DEF CloseTicket, Close
  <2>4. /\ ticket[t] \in Tickets /\ ticket'[t] = [ticket[t] EXCEPT !.status = status]
        /\ \A s \in TicketIds \ {t} : ticket'[s] = ticket[s]
    BY <1>0, <2>3, CloseCloses
  <2>5. ticket'[t].status = status /\ ticket'[t].market = ticket[t].market
    BY <2>4 DEF Tickets
  <2>6. ASSUME NEW s \in TicketIds
        PROVE  /\ ticket'[s].status = "Settled" => Decided(market[ticket'[s].market])
               /\ ticket'[s].status = "Cancelled" => Voided(market[ticket'[s].market])
    <3>1. CASE s = t
      BY <2>2, <2>5, <3>1
    <3>2. CASE s # t
      BY <2>4, <3>2 DEF VerdictsStand
    <3> QED
      BY <3>1, <3>2
  <2> QED
    BY <1>0, <2>3, <2>6 DEF VerdictsStand, VerdictSet, Decided, Voided
<1>5. \/ UNCHANGED <<market, ticket>>
      \/ \E m \in Markets :
             \/ \E seed \in Seeds : CreateMarket(m, seed)
             \/ OpenMarket(m) \/ LockMarket(m)
             \/ \E outcome \in Outcomes : ResolveMarket(m, outcome)
             \/ CancelMarket(m) \/ ArchiveMarket(m)
      \/ \E buyer \in Traders, m \in Markets, outcome \in Outcomes, risk \in Risks, boostBps \in Boosts :
             BuyTicket(buyer, m, outcome, risk, boostBps)
      \/ \E t \in TicketIds : SettleTicket(t)
  BY Zenon DEF Next, vars, book, positions, Tick, Donate, SetPaused, SetFeeSplit, WithdrawInsurance,
            Deposit, Withdraw
<1> QED
  BY <1>1, <1>2, <1>3, <1>4, <1>5

\* The verdict of a market and the closing of its tickets agree for ever.
THEOREM VerdictsInvariant == Spec => []VerdictsStand
<1>1. Init => VerdictsStand
  BY DEF Init, VerdictsStand, NoMarket, NoTicket
<1>2. EngineInv /\ VerdictsStand /\ [Next]_vars => VerdictsStand'
  BY StepKeepsVerdicts
<1> QED
  BY <1>1, <1>2, EngineInvariant, PTL DEF Spec

\* No ticket of a market is refunded while another of it is settled.
THEOREM VerdictIsOne == Spec => []OneVerdictPerMarket
<1>1. TypeOK /\ VerdictsStand => OneVerdictPerMarket
  BY DEF VerdictsStand, OneVerdictPerMarket, Decided, Voided
<1> QED
  BY <1>1, VerdictsInvariant, EngineTypeCorrect, PTL

---------------------------------------------------------------------------
(* Archived markets. *)

\* A market whose exposure record shows no stake has no open ticket: stakes
\* are positive and the record is their sum.
LEMMA NoExposureNoTicket ==
    ASSUME TypeOK, ExposureReconciles, NEW m \in Markets, MarketHasNoExposure(m)
    PROVE  OpenOn(m) = {}
<1> SUFFICES ASSUME NEW t \in OpenOn(m) PROVE FALSE
  OBVIOUS
<1>1. OpenOn(m) \subseteq TicketIds /\ t \in TicketIds /\ ticket[t].status # "None"
  BY DEF OpenOn, OpenTickets
<1>2. RiskOf[t] <= Total(RiskOf, OpenOn(m))
  BY <1>1, OpenSums
<1>3. RiskOf[t] = ticket[t].riskAmount /\ ticket[t].riskAmount \in Nat \ {0}
  BY <1>1, AmountsType, MintedType DEF Tickets
<1>4. Total(RiskOf, OpenOn(m)) = 0
  BY DEF ExposureReconciles, MarketHasNoExposure
<1> QED
  BY <1>2, <1>3, <1>4

\* A change of one market leaves archived markets settled, when the new
\* record is archived only if the old one was, or if nothing is exposed.
LEMMA MarketKeepsArchive ==
    ASSUME TypeOK, ArchivedMarketsAreSettled, NEW m \in Markets, NEW mkt,
           MarketBecomes(m, mkt), mkt.status = "Archived" => OpenOn(m) = {}
    PROVE  ArchivedMarketsAreSettled'
<1>1. market' = [market EXCEPT ![m] = mkt] /\ ticket' = ticket
  BY DEF MarketBecomes, positions
<1>2. \A k \in Markets : market'[k] = IF k = m THEN mkt ELSE market[k]
  BY <1>1 DEF TypeOK
<1>3. \A k \in Markets : OpenOn(k)' = OpenOn(k)
  BY <1>1 DEF OpenOn, OpenTickets
<1> QED
  BY <1>2, <1>3 DEF ArchivedMarketsAreSettled

\* Every step keeps archived markets settled.
LEMMA StepKeepsArchive ==
    EngineInv /\ ArchivedMarketsAreSettled /\ [Next]_vars => ArchivedMarketsAreSettled'
<1> SUFFICES ASSUME EngineInv, ArchivedMarketsAreSettled, [Next]_vars
             PROVE  ArchivedMarketsAreSettled'
  OBVIOUS
<1>0. TypeOK /\ ExposureReconciles
  BY DEF EngineInv
<1>1. CASE UNCHANGED <<market, ticket>>
  BY <1>1 DEF ArchivedMarketsAreSettled, OpenOn, OpenTickets
<1>2. CASE \E m \in Markets :
             \/ \E seed \in Seeds : CreateMarket(m, seed)
             \/ OpenMarket(m) \/ LockMarket(m)
             \/ \E outcome \in Outcomes : ResolveMarket(m, outcome)
             \/ CancelMarket(m) \/ ArchiveMarket(m)
  <2>1. PICK m \in Markets :
             \/ \E seed \in Seeds : CreateMarket(m, seed)
             \/ OpenMarket(m) \/ LockMarket(m)
             \/ \E outcome \in Outcomes : ResolveMarket(m, outcome)
             \/ CancelMarket(m) \/ ArchiveMarket(m)
    BY <1>2
  <2>2. market[m] \in MarketRecords
    BY <1>0 DEF TypeOK
  <2>3. CASE \E seed \in Seeds : CreateMarket(m, seed)
    <3>1. PICK seed \in Seeds : CreateMarket(m, seed)
      BY <2>3
    <3> DEFINE managed == IF ManagedReadable(pool) THEN ManagedAssets(pool) ELSE 0
    <3>2. managed \in Nat
      BY <1>0, PoolType DEF ManagedReadable
    <3>3. MarketBecomes(m, Construct(seed, managed))
      BY <3>1, Zenon DEF CreateMarket
    <3> HIDE DEF managed
    <3>4. Construct(seed, managed).status # "Archived"
      BY <3>2, ConstructType
    <3> QED
      BY <1>0, <3>3, <3>4, MarketKeepsArchive
  <2>4. CASE OpenMarket(m)
    <3>1. MarketBecomes(m, Opened(market[m])) /\ Opened(market[m]).status = "Open"
      BY <2>2, <2>4 DEF OpenMarket, Opened, MarketRecords
    <3> QED
      BY <1>0, <3>1, MarketKeepsArchive
  <2>5. CASE LockMarket(m)
    <3>1. MarketBecomes(m, Locked(market[m])) /\ Locked(market[m]).status = "Locked"
      BY <2>2, <2>5 DEF LockMarket, Locked, MarketRecords
    <3> QED
      BY <1>0, <3>1, MarketKeepsArchive
  <2>6. CASE \E outcome \in Outcomes : ResolveMarket(m, outcome)
    <3>1. PICK outcome \in Outcomes : MarketBecomes(m, Resolved(market[m], outcome))
      BY <2>6 DEF ResolveMarket
    <3>2. Resolved(market[m], outcome).status = "Resolved"
      BY <2>2 DEF Resolved, MarketRecords
    <3> QED
      BY <1>0, <3>1, <3>2, MarketKeepsArchive
  <2>7. CASE CancelMarket(m)
    <3>1. MarketBecomes(m, Cancelled(market[m])) /\ Cancelled(market[m]).status = "Cancelled"
      BY <2>2, <2>7 DEF CancelMarket, Cancelled, MarketRecords
    <3> QED
      BY <1>0, <3>1, MarketKeepsArchive
  <2>8. CASE ArchiveMarket(m)
    <3>1. MarketBecomes(m, Archived(market[m])) /\ MarketHasNoExposure(m)
      BY <2>8 DEF ArchiveMarket, CanArchive
    <3> QED
      BY <1>0, <3>1, NoExposureNoTicket, MarketKeepsArchive
  <2> QED
    BY <2>1, <2>3, <2>4, <2>5, <2>6, <2>7, <2>8
<1>3. CASE \E buyer \in Traders, m \in Markets, outcome \in Outcomes, risk \in Risks, boostBps \in Boosts :
             BuyTicket(buyer, m, outcome, risk, boostBps)
  <2>1. PICK buyer \in Traders, m \in Markets, outcome \in Outcomes, risk \in Risks, boostBps \in Boosts :
           BuyTicket(buyer, m, outcome, risk, boostBps)
    BY <1>3
  <2> DEFINE mkt == ApplyTradeImpact(market[m], outcome, risk)
             payout == QuotedPayout(m, outcome, risk, boostBps)
             tk == [status |-> "Open", market |-> m, owner |-> buyer,
                    outcome |-> outcome, riskAmount |-> risk,
                    payout |-> payout, reservedAmount |-> payout - risk]
  <2>2. tk \in Tickets /\ Mint(tk) /\ risk \in Nat
    BY <2>1, BuyEffect
  <2>3. tk.status = "Open" /\ tk.market = m /\ tk.owner = buyer /\ buyer \in Users
    BY DEF Users
  <2>4. market[m] \in MarketRecords /\ market[m].impactLiquidity > 0 /\ market[m].status = "Open"
    BY <2>1 DEF EngineInv, TypeOK, BooksHaveDepth, BuyTicket, CanBuy
  <2>5. mkt.status = "Open"
    BY <2>2, <2>4, TradeType
  <2>6. market' = [market EXCEPT ![m] = mkt]
    BY <2>1 DEF BuyTicket
  <2> HIDE DEF mkt, tk
  <2>7. ASSUME NEW k \in Markets, market'[k].status = "Archived"
        PROVE  OpenOn(k)' = {}
    <3>1. k # m /\ market'[k] = market[k]
      BY <1>0, <2>5, <2>6, <2>7 DEF TypeOK
    <3>2. OpenOn(k)' = OpenOn(k)
      BY <1>0, <2>2, <2>3, <3>1, MintSets
    <3> QED
      BY <2>7, <3>1, <3>2 DEF ArchivedMarketsAreSettled
  <2> QED
    BY <2>7 DEF ArchivedMarketsAreSettled
<1>4. CASE \E t \in TicketIds : SettleTicket(t)
  <2>1. PICK t \in TicketIds : SettleTicket(t)
    BY <1>4
  <2>2. PICK status \in {"Settled", "Cancelled"} : CloseTicket(t, status)
    BY <2>1 DEF SettleTicket, RefundTicket, PayTicket, ForfeitTicket
  <2>3. Close(t, status) /\ market' = market
    BY <2>2 DEF CloseTicket, Close
  <2>4. /\ ticket[t] \in Tickets /\ ticket'[t] = [ticket[t] EXCEPT !.status = status]
        /\ \A s \in TicketIds \ {t} : ticket'[s] = ticket[s]
    BY <1>0, <2>3, CloseCloses
  <2>5. ticket'[t].status # "Open"
    BY <2>2, <2>4 DEF Tickets
  <2>6. \A m \in Markets : OpenOn(m)' \subseteq OpenOn(m)
    BY <2>4, <2>5 DEF OpenOn, OpenTickets
  <2> QED
    BY <2>3, <2>6 DEF ArchivedMarketsAreSettled
<1>5. \/ UNCHANGED <<market, ticket>>
      \/ \E m \in Markets :
             \/ \E seed \in Seeds : CreateMarket(m, seed)
             \/ OpenMarket(m) \/ LockMarket(m)
             \/ \E outcome \in Outcomes : ResolveMarket(m, outcome)
             \/ CancelMarket(m) \/ ArchiveMarket(m)
      \/ \E buyer \in Traders, m \in Markets, outcome \in Outcomes, risk \in Risks, boostBps \in Boosts :
             BuyTicket(buyer, m, outcome, risk, boostBps)
      \/ \E t \in TicketIds : SettleTicket(t)
  BY Zenon DEF Next, vars, book, positions, Tick, Donate, SetPaused, SetFeeSplit, WithdrawInsurance,
            Deposit, Withdraw
<1> QED
  BY <1>1, <1>2, <1>3, <1>4, <1>5

\* An archived market never has an open ticket, although archive() looks at
\* the exposure record and never at a ticket.
THEOREM ArchiveStrandsNobody == Spec => []ArchivedMarketsAreSettled
<1>1. Init => ArchivedMarketsAreSettled
  BY DEF Init, ArchivedMarketsAreSettled, NoMarket
<1>2. EngineInv /\ ArchivedMarketsAreSettled /\ [Next]_vars => ArchivedMarketsAreSettled'
  BY StepKeepsArchive
<1> QED
  BY <1>1, <1>2, EngineInvariant, PTL DEF Spec

---------------------------------------------------------------------------
(* The equity of liquidity providers. *)

\* What the vault and its LPs hold together, less what the vault has earned,
\* plus what it has paid to winners.
LpWorth ==
    ManagedAssets(pool) + Total(usdc, LPs) + Total(ReserveOf, WonTickets)
        - pool.totalFeesEarned - pool.totalUserLossesReceived

\* The terms of it are integers.
LEMMA WorthTerms ==
    ASSUME TypeOK
    PROVE  /\ ManagedAssets(pool) \in Int /\ pool.totalFeesEarned \in Nat
           /\ pool.totalUserLossesReceived \in Nat
           /\ Total(usdc, LPs) \in Nat /\ Total(ReserveOf, WonTickets) \in Nat
           /\ \A lp \in LPs : lp \in Accounts /\ usdc[lp] \in Nat
<1>1. \A lp \in LPs : lp \in Accounts /\ usdc[lp] \in Nat
  BY LpsFinite, Addresses DEF TypeOK
<1>2. Total(usdc, LPs) \in Nat
  BY <1>1, LpsFinite, TotalType
<1>3. Total(ReserveOf, WonTickets) \in Nat
  BY OpenSums DEF WonTickets
<1> QED
  BY <1>1, <1>2, <1>3, PoolType

\* The reconciliation is that this sum never moves.
WorthKept == LPs \cap Traders = {} => LpWorth = Total(Wallets, LPs)

LEMMA WorthReconciles == TypeOK => (LpEquityReconciles <=> WorthKept)
<1> SUFFICES ASSUME TypeOK PROVE LpEquityReconciles <=> WorthKept
  OBVIOUS
<1>1. Total(Wallets, LPs) \in Nat
  BY LpsFinite, TotalType, ProtocolAssumption
<1> QED
  BY <1>1, WorthTerms DEF LpEquityReconciles, WorthKept, LpWorth

\* A winner stays one as long as the verdicts its ticket was closed under stay.
LEMMA WinnersStay ==
    ASSUME TypeOK,
           \A t \in TicketIds : /\ ticket'[t].status = "Settled" <=> ticket[t].status = "Settled"
                                /\ ticket[t].status = "Settled" =>
                                      /\ ticket'[t] = ticket[t]
                                      /\ market'[ticket[t].market].winningOutcome =
                                            market[ticket[t].market].winningOutcome
    PROVE  Total(ReserveOf, WonTickets)' = Total(ReserveOf, WonTickets)
<1>1. WonTickets' = WonTickets
  BY DEF WonTickets
<1> DEFINE a == ReserveOf  b == ReserveOf'  W == WonTickets
<1>2. \A t \in W : a[t] = b[t]
  BY DEF ReserveOf, WonTickets
<1>3. Total(ReserveOf, WonTickets)' = Total(b, W)
  BY <1>1
<1> HIDE DEF a, b, W
<1>4. Total(a, W) = Total(b, W)
  BY <1>2, TotalSame
<1> QED
  BY <1>3, <1>4 DEF a, W

\* Nothing an LP holds has changed.
LEMMA PursesStay ==
    ASSUME \A lp \in LPs : usdc'[lp] = usdc[lp]
    PROVE  Total(usdc, LPs)' = Total(usdc, LPs)
BY TotalSame

\* An LP exchanges tokens for equity one for one, in either direction.
LEMMA EquityMoves ==
    ASSUME TypeOK, TypeOK', NEW lp \in LPs, NEW d \in Int,
           UNCHANGED <<market, ticket>>,
           usdc'[lp] = usdc[lp] - d, \A x \in LPs \ {lp} : usdc'[x] = usdc[x],
           pool'.internalAssets = pool.internalAssets + d,
           pool'.lockedUserRisk = pool.lockedUserRisk,
           pool'.totalFeesEarned = pool.totalFeesEarned,
           pool'.totalUserLossesReceived = pool.totalUserLossesReceived
    PROVE  LpWorth' = LpWorth
<1>1. /\ \A x \in LPs : usdc[x] \in Nat /\ usdc'[x] \in Nat
      /\ usdc[lp] \in Nat
  BY LpsFinite, Addresses DEF TypeOK
<1>2. Total(usdc', LPs) = Total(usdc, LPs) + (usdc'[lp] - usdc[lp])
  BY <1>1, LpsFinite, TotalMoves
<1>3. Total(ReserveOf, WonTickets)' = Total(ReserveOf, WonTickets)
  BY WinnersStay
<1>4. /\ ManagedAssets(pool') = ManagedAssets(pool) + d
      /\ ManagedAssets(pool) \in Int
  BY PoolType DEF ManagedAssets
<1>5. Total(usdc, LPs)' = Total(usdc, LPs) - d
  BY <1>1, <1>2, WorthTerms
<1> QED
  BY <1>3, <1>4, <1>5, WorthTerms DEF LpWorth

\* A step that touches neither the purses of LPs nor the winners.
LEMMA EquityStays ==
    ASSUME TypeOK, UNCHANGED <<ticket, pool>>, \A lp \in LPs : usdc'[lp] = usdc[lp],
           \A t \in TicketIds : ticket[t].status = "Settled" =>
               market'[ticket[t].market].winningOutcome = market[ticket[t].market].winningOutcome
    PROVE  LpWorth' = LpWorth
<1>1. Total(ReserveOf, WonTickets)' = Total(ReserveOf, WonTickets)
  BY WinnersStay
<1>2. Total(usdc, LPs)' = Total(usdc, LPs)
  BY PursesStay
<1> QED
  BY <1>1, <1>2 DEF LpWorth

\* Deposits and withdrawals.
LEMMA LpsKeepWorth ==
    ASSUME EngineInv, EngineInv', NEW lp \in LPs,
           \/ \E amount \in Deposits : Deposit(lp, amount)
           \/ \E shares \in ShareLots \cup {pool.sharesOf[lp]} : Withdraw(lp, shares)
    PROVE  LpWorth' = LpWorth
<1>0. /\ TypeOK /\ TypeOK' /\ pool \in Pools /\ usdc \in [Accounts -> Nat]
      /\ lp \in Accounts /\ Pool \in Accounts /\ lp # Pool
      /\ \A x \in LPs : x \in Accounts /\ x # Pool
      /\ pool.internalAssets \in Nat /\ usdc[lp] \in Nat
  BY Addresses, LpsFinite DEF EngineInv, TypeOK, Pools
<1>1. CASE \E amount \in Deposits : Deposit(lp, amount)
  <2>1. PICK amount \in Deposits : Deposit(lp, amount)
    BY <1>1
  <2>2. amount \in Int
    BY ProtocolAssumption
  <2>3. /\ usdc'[lp] = usdc[lp] - amount /\ \A x \in LPs \ {lp} : usdc'[x] = usdc[x]
    BY <1>0, <2>1 DEF Deposit, Transferred
  <2>4. /\ pool'.internalAssets = pool.internalAssets + amount
        /\ pool'.lockedUserRisk = pool.lockedUserRisk
        /\ pool'.totalFeesEarned = pool.totalFeesEarned
        /\ pool'.totalUserLossesReceived = pool.totalUserLossesReceived
    BY <1>0, <2>1 DEF Deposit, Deposited, Pools
  <2>5. UNCHANGED <<market, ticket>>
    BY <2>1 DEF Deposit, book, positions
  <2> QED
    BY <1>0, <2>2, <2>3, <2>4, <2>5, EquityMoves
<1>2. CASE \E shares \in ShareLots \cup {pool.sharesOf[lp]} : Withdraw(lp, shares)
  <2>1. PICK shares \in ShareLots \cup {pool.sharesOf[lp]} : Withdraw(lp, shares)
    BY <1>2
  <2> DEFINE assets == AssetsFor(pool, shares)
  <2>2. assets \in Int
    <3>1. shares \in Int /\ pool.totalShares \in Nat \ {0} /\ ManagedAssets(pool) \in Int
      BY <1>0, <2>1, ProtocolAssumption, PoolType DEF Withdraw, CanWithdraw
    <3> QED
      BY <3>1 DEF AssetsFor
  <2>3. /\ pool' = Withdrawn(pool, lp, shares)
        /\ usdc' = Transferred(usdc, Pool, lp, assets)
        /\ UNCHANGED <<market, ticket>>
    BY <2>1 DEF Withdraw, book, positions
  <2>4. /\ pool'.internalAssets = pool.internalAssets - assets
        /\ pool'.lockedUserRisk = pool.lockedUserRisk
        /\ pool'.totalFeesEarned = pool.totalFeesEarned
        /\ pool'.totalUserLossesReceived = pool.totalUserLossesReceived
    BY <1>0, <2>3 DEF Withdrawn, Pools
  <2> HIDE DEF assets
  <2>5. usdc'[lp] = usdc[lp] + assets /\ \A x \in LPs \ {lp} : usdc'[x] = usdc[x]
    BY <1>0, <2>3 DEF Transferred
  <2>6. /\ 0 - assets \in Int /\ usdc'[lp] = usdc[lp] - (0 - assets)
        /\ pool'.internalAssets = pool.internalAssets + (0 - assets)
    BY <1>0, <2>2, <2>4, <2>5
  <2> QED
    BY <1>0, <2>3, <2>4, <2>5, <2>6, EquityMoves
<1> QED
  BY <1>1, <1>2

\* A purchase brings the vault nothing but its share of the fee.
LEMMA BuyKeepsWorth ==
    ASSUME EngineInv, EngineInv', LPs \cap Traders = {},
           NEW buyer \in Traders, NEW m \in Markets, NEW outcome \in Outcomes,
           NEW risk \in Risks, NEW boostBps \in Boosts,
           BuyTicket(buyer, m, outcome, risk, boostBps)
    PROVE  LpWorth' = LpWorth
<1> DEFINE payout == QuotedPayout(m, outcome, risk, boostBps)
           reserve == payout - risk
           fee == Fee(risk, boostBps)
           lpFee == ShareOf(fee, feeSplit.lp)
           mkt == ApplyTradeImpact(market[m], outcome, risk)
           tk == [status |-> "Open", market |-> m, owner |-> buyer,
                  outcome |-> outcome, riskAmount |-> risk,
                  payout |-> payout, reservedAmount |-> reserve]
<1>0. TypeOK /\ pool \in Pools /\ usdc \in [Accounts -> Nat] /\ market \in [Markets -> MarketRecords]
      /\ pool.internalAssets \in Nat /\ pool.lockedUserRisk \in Nat
      /\ pool.totalFeesEarned \in Nat
  BY DEF EngineInv, TypeOK, Pools
<1>1. /\ risk \in Nat /\ lpFee \in Nat /\ tk \in Tickets /\ Mint(tk)
      /\ pool'.lockedUserRisk = pool.lockedUserRisk + risk
      /\ pool'.internalAssets = pool.internalAssets + risk + lpFee
  BY BuyEffect
<1>2. /\ pool' = FeeCredited(RiskLocked(ReservedForTicket(pool, reserve), risk), lpFee)
      /\ usdc' = FeeRouted(Transferred(Transferred(usdc, buyer, Pool, risk), buyer, Router, fee), fee)
      /\ market' = [market EXCEPT ![m] = mkt]
  BY DEF BuyTicket
<1>3. market[m].impactLiquidity > 0
  BY DEF EngineInv, BooksHaveDepth, BuyTicket, CanBuy
<1>4. mkt.winningOutcome = market[m].winningOutcome
  BY <1>0, <1>1, <1>3, TradeType
<1> HIDE DEF payout, fee, lpFee, mkt, tk, reserve
<1>5. /\ pool'.totalFeesEarned = pool.totalFeesEarned + lpFee
      /\ pool'.totalUserLossesReceived = pool.totalUserLossesReceived
  BY <1>0, <1>2 DEF FeeCredited, RiskLocked, ReservedForTicket, Pools
<1>6. Total(usdc, LPs)' = Total(usdc, LPs)
  <2>1. ASSUME NEW lp \in LPs PROVE usdc'[lp] = usdc[lp]
    <3>1. lp \in Accounts /\ lp \notin {buyer, Pool, Router, Insurance, Treasury}
      BY LpsFinite, Addresses
    <3> DEFINE b == Transferred(usdc, buyer, Pool, risk)
               c == Transferred(b, buyer, Router, fee)
    <3>2. b[lp] = usdc[lp] /\ c[lp] = b[lp]
      BY <1>0, <3>1 DEF Transferred
    <3>3. FeeRouted(c, fee)[lp] = c[lp]
      BY <1>0, <3>1 DEF FeeRouted, Transferred
    <3> QED
      BY <1>2, <3>2, <3>3
  <2> QED
    BY <2>1, PursesStay
<1>7. Total(ReserveOf, WonTickets)' = Total(ReserveOf, WonTickets)
  <2>1. \A k \in Markets : market'[k].winningOutcome = market[k].winningOutcome
    BY <1>0, <1>2, <1>4
  <2>2. tk.status = "Open"
    BY DEF tk
  <2>3. /\ ticket[NextTicketId].status = "None" /\ ticket'[NextTicketId] = tk
        /\ \A t \in TicketIds \ {NextTicketId} : ticket'[t] = ticket[t]
    BY <1>0, <1>1, <2>2, MintOpens
  <2>4. \A t \in TicketIds : ticket[t].status = "Settled" => ticket[t].market \in Markets
    BY <1>0, MintedType DEF Tickets
  <2> QED
    BY <1>0, <2>1, <2>2, <2>3, <2>4, WinnersStay
<1>8. ManagedAssets(pool') = ManagedAssets(pool) + lpFee /\ ManagedAssets(pool) \in Int
  BY <1>0, <1>1 DEF ManagedAssets
<1> QED
  BY <1>0, <1>1, <1>5, <1>6, <1>7, <1>8, WorthTerms DEF LpWorth

\* A settlement gives equity up only against the reserve of a winner, and
\* gains the stake of a loser.
LEMMA SettleKeepsWorth ==
    ASSUME EngineInv, EngineInv', LPs \cap Traders = {}, NEW t \in TicketIds, SettleTicket(t)
    PROVE  LpWorth' = LpWorth
<1> DEFINE tk == ticket[t]
<1>0. /\ TypeOK /\ pool \in Pools /\ usdc \in [Accounts -> Nat] /\ t \in OpenTickets
      /\ pool.internalAssets \in Nat /\ pool.lockedUserRisk \in Nat
      /\ pool.totalUserLossesReceived \in Nat
  BY DEF EngineInv, TypeOK, Pools, OpenTickets, SettleTicket, RefundTicket, PayTicket,
         ForfeitTicket, CloseTicket
<1>1. /\ tk \in Tickets /\ tk.payout = tk.riskAmount + tk.reservedAmount
      /\ tk.riskAmount \in Nat /\ tk.reservedAmount \in Nat /\ tk.payout \in Nat
      /\ tk.owner \in Traders /\ tk.status = "Open"
  BY <1>0, OpenTicketBacked DEF Tickets, OpenTickets
<1>2. PICK status \in {"Settled", "Cancelled"} : Close(t, status) /\ market' = market
  BY DEF SettleTicket, RefundTicket, PayTicket, ForfeitTicket, CloseTicket, Close
<1> HIDE DEF tk
<1>3. ASSUME NEW amount \in Nat, usdc' = Transferred(usdc, Pool, tk.owner, amount)
      PROVE  Total(usdc, LPs)' = Total(usdc, LPs)
  <2>1. \A lp \in LPs : lp \in Accounts /\ lp # Pool /\ lp # tk.owner
    BY <1>1, LpsFinite, Addresses
  <2>2. \A lp \in LPs : usdc'[lp] = usdc[lp]
    BY <1>0, <1>3, <2>1 DEF Transferred
  <2> QED
    BY <2>2, PursesStay
<1>4. CASE RefundTicket(t)
  <2>1. /\ pool' = RiskRefunded(pool, tk.riskAmount, tk.reservedAmount)
        /\ usdc' = Transferred(usdc, Pool, tk.owner, tk.riskAmount)
        /\ Close(t, "Cancelled")
    BY <1>4 DEF RefundTicket, CloseTicket, Close, tk
  <2>2. Total(usdc, LPs)' = Total(usdc, LPs)
    BY <1>1, <1>3, <2>1
  <2>3. Total(ReserveOf, WonTickets)' = Total(ReserveOf, WonTickets)
    <3>1. /\ ticket'[t] = [ticket[t] EXCEPT !.status = "Cancelled"] /\ ticket[t] \in Tickets
          /\ \A s \in TicketIds \ {t} : ticket'[s] = ticket[s]
      BY <1>0, <2>1, CloseCloses
    <3>2. ticket'[t].status = "Cancelled" /\ ticket[t].status = "Open"
      BY <1>1, <3>1 DEF Tickets, tk
    <3> QED
      BY <1>0, <1>2, <3>1, <3>2, WinnersStay
  <2>4. /\ pool'.internalAssets = pool.internalAssets - tk.riskAmount
        /\ pool'.lockedUserRisk = pool.lockedUserRisk - tk.riskAmount
        /\ pool'.totalFeesEarned = pool.totalFeesEarned
        /\ pool'.totalUserLossesReceived = pool.totalUserLossesReceived
    BY <1>0, <2>1 DEF RiskRefunded, Released, Pools
  <2>5. ManagedAssets(pool') = ManagedAssets(pool)
    BY <1>0, <1>1, <2>4 DEF ManagedAssets
  <2> QED
    BY <2>2, <2>3, <2>4, <2>5 DEF LpWorth
<1>5. CASE PayTicket(t)
  <2>1. /\ pool' = PayoutPaid(pool, tk.payout, tk.reservedAmount, tk.riskAmount)
        /\ usdc' = Transferred(usdc, Pool, tk.owner, tk.payout)
        /\ Close(t, "Settled") /\ market[tk.market].winningOutcome = tk.outcome
    BY <1>5 DEF PayTicket, CloseTicket, Close, tk
  <2>2. Total(usdc, LPs)' = Total(usdc, LPs)
    BY <1>1, <1>3, <2>1
  <2>3. Total(ReserveOf, WonTickets)' = Total(ReserveOf, WonTickets) + tk.reservedAmount
    <3>1. /\ ticket'[t] = [ticket[t] EXCEPT !.status = "Settled"] /\ ticket[t] \in Tickets
          /\ \A s \in TicketIds \ {t} : ticket'[s] = ticket[s]
          /\ ReserveOf' = ReserveOf
      BY <1>0, <2>1, CloseCloses
    <3>2. /\ ticket'[t].status = "Settled" /\ ticket[t].status = "Open" /\ t \in TicketIds
          /\ ticket'[t].market = tk.market /\ ticket'[t].outcome = tk.outcome
      BY <1>1, <3>1 DEF Tickets, tk
    <3>3. WonTickets' = WonTickets \cup {t} /\ t \notin WonTickets /\ WonTickets \subseteq TicketIds
      <4>1. t \in WonTickets' /\ t \notin WonTickets
        BY <1>2, <2>1, <3>2 DEF WonTickets
      <4>2. \A s \in TicketIds \ {t} : s \in WonTickets' <=> s \in WonTickets
        BY <1>2, <3>1 DEF WonTickets
      <4>3. WonTickets \subseteq TicketIds /\ WonTickets' \subseteq TicketIds
        BY DEF WonTickets
      <4> QED
        BY <4>1, <4>2, <4>3
    <3>4. \A s \in TicketIds : ReserveOf[s] \in Nat
      BY <1>0, AmountsType
    <3>5. ReserveOf[t] = tk.reservedAmount
      BY <1>0, AmountsType DEF tk
    <3>6. IsFiniteSet(WonTickets)
      BY <3>3, OpenFinite
    <3> DEFINE V == ReserveOf  W == WonTickets
    <3>7. Total(ReserveOf, WonTickets)' = Total(V, W \cup {t})
      BY <3>1, <3>3
    <3>8. t \notin W /\ IsFiniteSet(W) /\ \A s \in W : V[s] \in Nat
      BY <3>3, <3>4, <3>6
    <3>9. V[t] \in Nat
      BY <3>4
    <3> HIDE DEF V, W
    <3>10. Total(V, W \cup {t}) = Total(V, W) + V[t]
      BY <3>8, <3>9, TotalAdd
    <3> QED
      BY <3>5, <3>7, <3>10 DEF V, W
  <2>4. /\ pool'.internalAssets = pool.internalAssets - tk.payout
        /\ pool'.lockedUserRisk = pool.lockedUserRisk - tk.riskAmount
        /\ pool'.totalFeesEarned = pool.totalFeesEarned
        /\ pool'.totalUserLossesReceived = pool.totalUserLossesReceived
    BY <1>0, <2>1 DEF PayoutPaid, Released, Pools
  <2>5. ManagedAssets(pool') = ManagedAssets(pool) - tk.reservedAmount
    BY <1>0, <1>1, <2>4 DEF ManagedAssets
  <2> QED
    BY <1>0, <1>1, <2>2, <2>3, <2>4, <2>5, WorthTerms DEF LpWorth
<1>6. CASE ForfeitTicket(t)
  <2>1. /\ pool' = LossSettled(pool, tk.riskAmount, tk.reservedAmount)
        /\ usdc' = usdc /\ Close(t, "Settled") /\ market[tk.market].winningOutcome # tk.outcome
    BY <1>6 DEF ForfeitTicket, CloseTicket, Close, tk
  <2>2. Total(usdc, LPs)' = Total(usdc, LPs)
    BY <2>1, PursesStay
  <2>3. Total(ReserveOf, WonTickets)' = Total(ReserveOf, WonTickets)
    <3>1. /\ ticket'[t] = [ticket[t] EXCEPT !.status = "Settled"] /\ ticket[t] \in Tickets
          /\ \A s \in TicketIds \ {t} : ticket'[s] = ticket[s]
          /\ ReserveOf' = ReserveOf
      BY <1>0, <2>1, CloseCloses
    <3>2. /\ ticket'[t].status = "Settled" /\ ticket[t].status = "Open"
          /\ ticket'[t].market = tk.market /\ ticket'[t].outcome = tk.outcome
      BY <1>1, <3>1 DEF Tickets, tk
    <3>3. WonTickets' = WonTickets
      <4>1. t \notin WonTickets' /\ t \notin WonTickets
        BY <1>2, <2>1, <3>2 DEF WonTickets
      <4>2. \A s \in TicketIds \ {t} : s \in WonTickets' <=> s \in WonTickets
        BY <1>2, <3>1 DEF WonTickets
      <4>3. WonTickets \subseteq TicketIds /\ WonTickets' \subseteq TicketIds
        BY DEF WonTickets
      <4> QED
        BY <4>1, <4>2, <4>3
    <3> QED
      BY <3>1, <3>3
  <2>4. /\ pool'.internalAssets = pool.internalAssets
        /\ pool'.lockedUserRisk = pool.lockedUserRisk - tk.riskAmount
        /\ pool'.totalFeesEarned = pool.totalFeesEarned
        /\ pool'.totalUserLossesReceived = pool.totalUserLossesReceived + tk.riskAmount
    BY <1>0, <2>1 DEF LossSettled, Released, Pools
  <2>5. ManagedAssets(pool') = ManagedAssets(pool) + tk.riskAmount
    BY <1>0, <1>1, <2>4 DEF ManagedAssets
  <2> QED
    BY <1>0, <1>1, <2>2, <2>3, <2>4, <2>5, WorthTerms DEF LpWorth
<1> QED
  BY <1>4, <1>5, <1>6 DEF SettleTicket

\* Markets change state, time passes and the owner acts without any LP gaining
\* or losing by it.
LEMMA OthersKeepWorth ==
    ASSUME EngineInv, VerdictsStand, LPs \cap Traders = {},
           \/ Tick
           \/ \E from \in Traders, amount \in Deposits : Donate(from, amount)
           \/ \E p \in BOOLEAN : SetPaused(p)
           \/ \E split \in FeeSplits : SetFeeSplit(split)
           \/ WithdrawInsurance(usdc[Insurance])
           \/ \E m \in Markets :
                 \/ \E seed \in Seeds : CreateMarket(m, seed)
                 \/ OpenMarket(m) \/ LockMarket(m)
                 \/ \E outcome \in Outcomes : ResolveMarket(m, outcome)
                 \/ CancelMarket(m) \/ ArchiveMarket(m)
    PROVE  LpWorth' = LpWorth
<1>0. /\ TypeOK /\ usdc \in [Accounts -> Nat] /\ market \in [Markets -> MarketRecords]
      /\ \A lp \in LPs : lp \in Accounts /\ lp \notin {Pool, Insurance, Treasury}
      /\ \A lp \in LPs : lp \notin Traders
  BY Addresses, LpsFinite DEF EngineInv, TypeOK
<1>1. CASE \/ Tick \/ \E p \in BOOLEAN : SetPaused(p) \/ \E split \in FeeSplits : SetFeeSplit(split)
  <2>1. UNCHANGED <<ticket, pool, usdc, market>>
    BY <1>1 DEF Tick, SetPaused, SetFeeSplit, book, positions
  <2> QED
    BY <1>0, <2>1, EquityStays
<1>2. CASE \/ \E from \in Traders, amount \in Deposits : Donate(from, amount)
           \/ WithdrawInsurance(usdc[Insurance])
  <2>1. \A lp \in LPs : usdc'[lp] = usdc[lp]
    BY <1>0, <1>2 DEF Donate, WithdrawInsurance, Transferred
  <2>2. UNCHANGED <<ticket, pool, market>>
    BY <1>2 DEF Donate, WithdrawInsurance, book, positions
  <2> QED
    BY <1>0, <2>1, <2>2, EquityStays
<1>3. CASE \E m \in Markets :
             \/ \E seed \in Seeds : CreateMarket(m, seed)
             \/ OpenMarket(m) \/ LockMarket(m)
             \/ \E outcome \in Outcomes : ResolveMarket(m, outcome)
             \/ CancelMarket(m) \/ ArchiveMarket(m)
  <2>1. PICK m \in Markets :
             \/ \E seed \in Seeds : CreateMarket(m, seed)
             \/ OpenMarket(m) \/ LockMarket(m)
             \/ \E outcome \in Outcomes : ResolveMarket(m, outcome)
             \/ CancelMarket(m) \/ ArchiveMarket(m)
    BY <1>3
  <2>2. PICK mkt : /\ MarketBecomes(m, mkt)
                   /\ Decided(market[m]) => mkt.winningOutcome = market[m].winningOutcome
    BY <2>1, LifecycleChange, Zenon
  <2>3. /\ market' = [market EXCEPT ![m] = mkt]
        /\ UNCHANGED <<ticket, pool, usdc>>
    BY <2>2 DEF MarketBecomes, positions
  <2>4. \A t \in TicketIds : ticket[t].status = "Settled" =>
            ticket[t].market \in Markets /\ Decided(market[ticket[t].market])
    BY <1>0, MintedType DEF VerdictsStand, Tickets
  <2>5. \A t \in TicketIds : ticket[t].status = "Settled" =>
            market'[ticket[t].market].winningOutcome = market[ticket[t].market].winningOutcome
    BY <1>0, <2>2, <2>3, <2>4
  <2> QED
    BY <1>0, <2>3, <2>5, EquityStays
<1> QED
  BY <1>1, <1>2, <1>3

\* LP equity is what LPs put in net of what they took out, plus fees and lost
\* stakes, less the reserves of winning tickets: for as long as LPs do not bet
\* themselves, no step counts any of it twice or lets a donation in.
THEOREM LpEquityAlwaysReconciles == Spec => []LpEquityReconciles
<1>1. Init => LpEquityReconciles
  <2> SUFFICES ASSUME Init PROVE LpEquityReconciles
    OBVIOUS
  <2>1. \A lp \in LPs : usdc[lp] = Wallets[lp]
    BY LpsFinite DEF Init, Accounts
  <2>2. Total(usdc, LPs) = Total(Wallets, LPs)
    BY <2>1, TotalSame
  <2>3. Total(usdc, LPs) \in Nat
    BY InitEngine, WorthTerms DEF EngineInv
  <2>4. WonTickets = {}
    BY DEF Init, NoTicket, WonTickets
  <2>5. Total(ReserveOf, WonTickets) = 0
    BY <2>4, TotalEmpty
  <2>6. ManagedAssets(pool) = 0 /\ pool.totalFeesEarned = 0 /\ pool.totalUserLossesReceived = 0
    BY DEF Init, EmptyPool, ManagedAssets
  <2> QED
    BY <2>2, <2>3, <2>5, <2>6 DEF LpEquityReconciles
<1>2. EngineInv /\ EngineInv' /\ VerdictsStand /\ [Next]_vars /\ LPs \cap Traders = {}
          => LpWorth' = LpWorth
  <2> SUFFICES ASSUME EngineInv, EngineInv', VerdictsStand, [Next]_vars, LPs \cap Traders = {}
               PROVE  LpWorth' = LpWorth
    OBVIOUS
  <2>1. CASE UNCHANGED vars
    BY <2>1 DEF vars, book, positions, LpWorth, WonTickets, ReserveOf
  <2>2. CASE \/ \E lp \in LPs, amount \in Deposits : Deposit(lp, amount)
             \/ \E lp \in LPs : \E shares \in ShareLots \cup {pool.sharesOf[lp]} : Withdraw(lp, shares)
    BY <2>2, LpsKeepWorth
  <2>3. CASE \E buyer \in Traders, m \in Markets, outcome \in Outcomes, risk \in Risks, boostBps \in Boosts :
               BuyTicket(buyer, m, outcome, risk, boostBps)
    BY <2>3, BuyKeepsWorth
  <2>4. CASE \E t \in TicketIds : SettleTicket(t)
    BY <2>4, SettleKeepsWorth
  <2> QED
    BY <2>1, <2>2, <2>3, <2>4, OthersKeepWorth DEF Next
<1>3. EngineInv => TypeOK
  BY DEF EngineInv
<1>4. WorthKept /\ (LPs \cap Traders = {} => LpWorth' = LpWorth) => WorthKept'
  BY DEF WorthKept
<1>5. WorthKept /\ EngineInv /\ EngineInv' /\ VerdictsStand /\ [Next]_vars => WorthKept'
  BY <1>2, <1>4
<1>6. Init => WorthKept
  BY <1>1, InitEngine, WorthReconciles DEF EngineInv
<1> QED
  BY <1>3, <1>5, <1>6, WorthReconciles, EngineInvariant, VerdictsInvariant, PTL DEF Spec

---------------------------------------------------------------------------
(* Together. *)

\* All bookkeeping of the engine, the vault and the router agrees at any time.
THEOREM BooksAlwaysReconcile == Spec => []BooksReconcile
<1>1. EscrowReconciles /\ ExposureReconciles /\ LpEquityReconciles /\ RouterKeepsNothing
        => BooksReconcile
  BY DEF BooksReconcile
<1> QED
  BY <1>1, EngineEscrowReconciles, EngineExposureReconciles, LpEquityAlwaysReconciles,
     RouterIsEmpty, PTL

\* The vault can pay what it owes, and nothing stops the settlement of a ticket
\* whose market is final.
THEOREM TicketsArePayable == Spec => []EveryTicketIsPayable
<1>1. EscrowFunded /\ SettlementNeverReverts => EveryTicketIsPayable
  BY DEF EveryTicketIsPayable
<1> QED
  BY <1>1, EngineEscrowFunded, SettlementAlwaysPossible, PTL

\* One verdict for all tickets of a market, and no ticket is left behind in an
\* archived one.
THEOREM VerdictsStayFinal == Spec => []VerdictsAreFinal
<1>1. OneVerdictPerMarket /\ ArchivedMarketsAreSettled => VerdictsAreFinal
  BY DEF VerdictsAreFinal
<1> QED
  BY <1>1, VerdictIsOne, ArchiveStrandsNobody, PTL

---------------------------------------------------------------------------
(* The protocol implements TicketPromise. *)

\* What TicketPromise reads off the state, one name per variable of it.
VerdictMap == [m \in Markets |-> VerdictOf(m)]
PromiseMap == [t \in TicketIds |-> PromiseOf(t)]
RedeemedSet == {t \in TicketIds : ticket[t].status \in {"Settled", "Cancelled"}}
WalletMap == [u \in Users |-> usdc[u]]
FreeAssets == AvailableAssets(pool)

\* The verdict of a market is one TicketPromise knows; of a market with an open
\* verdict it is Undecided.
LEMMA VerdictType ==
    ASSUME TypeOK, VerdictsStand, NEW m \in Markets
    PROVE  /\ VerdictOf(m) \in Abstract!Verdicts
           /\ Voided(market[m]) => VerdictOf(m) = 3
           /\ Decided(market[m]) => VerdictOf(m) = market[m].winningOutcome /\ VerdictOf(m) \in {1, 2}
           /\ ~Voided(market[m]) /\ ~Decided(market[m]) => VerdictOf(m) = 0
<1>1. /\ market[m].winningOutcome \in {0, 1, 2}
      /\ market[m].status = "Resolved" => market[m].winningOutcome # 0
  BY DEF TypeOK, MarketRecords, VerdictsStand, Outcomes, YES, NO, Unset
<1>2. Decided(market[m]) => market[m].winningOutcome # 0
  BY <1>1 DEF Decided, Voided, Unset
<1>3. Decided(market[m]) => ~Voided(market[m])
  BY DEF Decided
<1> QED
  BY <1>1, <1>2, <1>3 DEF VerdictOf, Abstract!Verdicts, Abstract!Undecided, Abstract!Void, Unset

\* The initial state of the protocol is one of TicketPromise.
LEMMA InitPromises == Init => Abstract!Init
<1> SUFFICES ASSUME Init PROVE Abstract!Init
  OBVIOUS
<1>1. [m \in Markets |-> VerdictOf(m)] = [m \in Markets |-> Abstract!Undecided]
  BY DEF Init, VerdictOf, Voided, Decided, NoMarket, Unset, Abstract!Undecided
<1>2. [t \in TicketIds |-> PromiseOf(t)] = [t \in TicketIds |-> NoPromise]
  BY DEF Init, PromiseOf, NoTicket, NoPromise
<1>3. {t \in TicketIds : ticket[t].status \in {"Settled", "Cancelled"}} = {}
  BY DEF Init, NoTicket
<1>4. [u \in Users |-> usdc[u]] \in [Users -> Nat]
  <2>1. ASSUME NEW u \in Users PROVE usdc[u] \in Nat
    BY ProtocolAssumption DEF Init, Accounts
  <2> QED
    BY <2>1
<1>5. AvailableAssets(pool) = 0
  BY DEF Init, EmptyPool, AvailableAssets
<1> QED
  BY <1>1, <1>2, <1>3, <1>4, <1>5 DEF Abstract!Init

\* A transaction that touches neither tickets nor verdicts, and moves the
\* money of at most one user, is a Move or a stutter.
LEMMA TransferPromises ==
    ASSUME EngineInv, EngineInv', market' = market, ticket' = ticket,
           NEW h \in Users,
           \A u \in Users \ {h} : (usdc')[u] = usdc[u],
           \/ AvailableAssets(pool') = AvailableAssets(pool) + (usdc[h] - (usdc')[h])
           \/ usdc[h] >= (usdc')[h] /\ pool' = pool
    PROVE  Abstract!Next
<1>1. /\ VerdictMap' = VerdictMap /\ PromiseMap' = PromiseMap /\ RedeemedSet' = RedeemedSet
  BY DEF VerdictMap, PromiseMap, RedeemedSet, VerdictOf, Voided, Decided, PromiseOf
<1>2. /\ usdc[h] \in Nat /\ (usdc')[h] \in Nat
  BY Addresses DEF EngineInv, TypeOK
<1>3. FreeAssets' >= 0
  <2>1. /\ pool'.internalAssets \in Nat /\ pool'.reservedAssets \in Nat /\ pool'.lockedUserRisk \in Nat
        /\ pool'.reservedAssets + pool'.lockedUserRisk <= pool'.internalAssets
    BY DEF EngineInv, TypeOK, EscrowFunded, Pools
  <2> QED
    BY <2>1 DEF FreeAssets, AvailableAssets
<1> DEFINE in == usdc[h] - (usdc')[h]
<1>4. WalletMap' = [WalletMap EXCEPT ![h] = @ - in]
  <2>1. usdc[h] - in = (usdc')[h]
    BY <1>2
  <2>2. WalletMap' = [u \in Users |-> (usdc')[u]] /\ WalletMap = [u \in Users |-> usdc[u]]
    BY DEF WalletMap
  <2> HIDE DEF in
  <2> QED
    BY <2>1, <2>2
<1>5. WalletMap'[h] >= 0 /\ in = WalletMap[h] - WalletMap'[h]
  BY <1>2 DEF WalletMap
<1>6. FreeAssets' = FreeAssets + in \/ (in >= 0 /\ FreeAssets' = FreeAssets)
  BY <1>2 DEF FreeAssets
<1>7. Abstract!Move(h)
  BY <1>1, <1>3, <1>4, <1>5, <1>6
  DEF Abstract!Move, VerdictMap, PromiseMap, RedeemedSet, WalletMap, FreeAssets
<1> QED
  BY <1>7 DEF Abstract!Next

\* A transaction of a market's life decides it, once, or leaves its verdict.
LEMMA LifecyclePromises ==
    ASSUME EngineInv, VerdictsStand, EngineInv', VerdictsStand', NEW m \in Markets,
           \/ \E seed \in Seeds : CreateMarket(m, seed)
           \/ OpenMarket(m) \/ LockMarket(m)
           \/ \E outcome \in Outcomes : ResolveMarket(m, outcome)
           \/ CancelMarket(m) \/ ArchiveMarket(m)
    PROVE  [Abstract!Next]_Abstract!vars
<1>1. PICK mkt :
        /\ MarketBecomes(m, mkt)
        /\ Decided(market[m]) => Decided(mkt)
        /\ Voided(market[m]) => Voided(mkt)
        /\ Decided(market[m]) => mkt.winningOutcome = market[m].winningOutcome
  BY LifecycleChange, Zenon
<1>2. /\ market' = [market EXCEPT ![m] = mkt] /\ ticket' = ticket /\ usdc' = usdc /\ pool' = pool
  BY <1>1 DEF MarketBecomes, positions
<1>3. /\ PromiseMap' = PromiseMap /\ RedeemedSet' = RedeemedSet
      /\ WalletMap' = WalletMap /\ FreeAssets' = FreeAssets
  BY <1>2 DEF PromiseMap, RedeemedSet, PromiseOf, WalletMap, FreeAssets
<1>4. market'[m] = mkt /\ \A k \in Markets \ {m} : market'[k] = market[k]
  BY <1>2 DEF EngineInv, TypeOK
<1>5. \A k \in Markets \ {m} : VerdictOf(k)' = VerdictOf(k)
  BY <1>4 DEF VerdictOf, Voided, Decided
<1>6. VerdictMap' = [VerdictMap EXCEPT ![m] = VerdictMap'[m]]
  BY <1>5 DEF VerdictMap
<1>7. VerdictOf(m)' \in Abstract!Verdicts
  <2>1. TypeOK' /\ VerdictsStand' => VerdictOf(m)' \in Abstract!Verdicts
    BY <1>4 DEF TypeOK, VerdictsStand, MarketRecords, Outcomes, YES, NO, Unset, VerdictOf,
                Voided, Decided, Abstract!Verdicts, Abstract!Undecided, Abstract!Void
  <2> QED
    BY <2>1 DEF EngineInv
<1>8. VerdictOf(m) # 0 => VerdictOf(m)' = VerdictOf(m)
  BY <1>1, <1>4 DEF VerdictOf, Voided, Decided, Unset
<1>9. CASE VerdictOf(m) = 0
  <2>1. VerdictMap[m] = Abstract!Undecided /\ VerdictMap'[m] \in Abstract!Verdicts
    BY <1>7, <1>9 DEF VerdictMap, Abstract!Undecided
  <2>2. Abstract!Decide(m)
    BY <1>3, <1>6, <2>1
    DEF Abstract!Decide, VerdictMap, PromiseMap, RedeemedSet, WalletMap, FreeAssets
  <2> QED
    BY <2>2 DEF Abstract!Next
<1>10. CASE VerdictOf(m) # 0
  <2>1. VerdictMap' = VerdictMap
    BY <1>5, <1>8, <1>10 DEF VerdictMap
  <2> QED
    BY <1>3, <2>1 DEF Abstract!vars, VerdictMap, PromiseMap, RedeemedSet, WalletMap, FreeAssets
<1> QED
  BY <1>9, <1>10

\* A settlement redeems its ticket for what it is worth.
LEMMA SettlePromises ==
    ASSUME EngineInv, VerdictsStand, NEW t \in TicketIds, SettleTicket(t)
    PROVE  Abstract!Redeem(t)
<1> DEFINE tk == ticket[t]
           p == PromiseOf(t)
           worth == IF VerdictOf(tk.market) = 3 THEN tk.riskAmount
                    ELSE IF VerdictOf(tk.market) = tk.outcome THEN tk.payout ELSE 0
<1>0. /\ TypeOK /\ TicketsAddUp
  BY DEF EngineInv
<1>1. PICK status \in {"Settled", "Cancelled"} : CloseTicket(t, status)
  BY DEF SettleTicket, RefundTicket, PayTicket, ForfeitTicket
<1>2. Close(t, status) /\ market' = market /\ tk.status = "Open"
  BY <1>1 DEF CloseTicket, Close
<1>3. /\ tk \in Tickets /\ ticket'[t] = [tk EXCEPT !.status = status]
      /\ \A s \in TicketIds \ {t} : ticket'[s] = ticket[s]
  BY <1>0, <1>2, CloseCloses
<1>4. /\ tk.market \in Markets /\ tk.owner \in Traders /\ tk.owner \in Users /\ tk.outcome \in {1, 2}
      /\ tk.riskAmount \in Nat /\ tk.payout \in Nat /\ tk.reservedAmount \in Nat
      /\ tk.payout = tk.riskAmount + tk.reservedAmount
  BY <1>0, <1>3 DEF Tickets, Users, Outcomes, YES, NO, TicketsAddUp
<1>5. /\ VerdictOf(tk.market) # 0
      /\ Voided(market[tk.market]) \/ Decided(market[tk.market])
  <2>1. Voided(market[tk.market]) \/ Decided(market[tk.market])
    BY DEF SettleTicket, RefundTicket, PayTicket, ForfeitTicket
  <2> QED
    BY <1>0, <1>4, <2>1, VerdictType
<1>6. PromiseMap' = PromiseMap
  <2>1. PromiseOf(t)' = PromiseOf(t)
    BY <1>3 DEF PromiseOf, Tickets
  <2>2. \A s \in TicketIds \ {t} : PromiseOf(s)' = PromiseOf(s)
    BY <1>3 DEF PromiseOf
  <2> QED
    BY <2>1, <2>2 DEF PromiseMap
<1>7. RedeemedSet' = RedeemedSet \cup {t} /\ t \notin RedeemedSet
  <2>1. ticket'[t].status = status
    BY <1>3 DEF Tickets
  <2> QED
    BY <1>2, <1>3, <2>1 DEF RedeemedSet
<1>8. VerdictMap' = VerdictMap /\ VerdictMap[tk.market] = VerdictOf(tk.market)
  BY <1>2, <1>4 DEF VerdictMap, VerdictOf, Voided, Decided
<1>9. /\ worth \in Nat
      /\ usdc' = Transferred(usdc, Pool, tk.owner, worth) \/ (worth = 0 /\ usdc' = usdc)
      /\ worth <= usdc[Pool]
      /\ AvailableAssets(pool') = AvailableAssets(pool) + tk.payout - worth
  <2>0. pool \in Pools /\ usdc[Pool] \in Nat /\ pool.internalAssets \in Nat
    BY <1>0, Addresses DEF TypeOK, Pools
  <2>1. CASE RefundTicket(t)
    <3>1. worth = tk.riskAmount
      BY <1>0, <1>4, <2>1, VerdictType DEF RefundTicket
    <3>2. /\ pool' = RiskRefunded(pool, tk.riskAmount, tk.reservedAmount)
          /\ usdc' = Transferred(usdc, Pool, tk.owner, tk.riskAmount)
          /\ CanPay(tk.riskAmount) /\ CanRelease(pool, tk.riskAmount, tk.reservedAmount)
      BY <2>1 DEF RefundTicket, CloseTicket
    <3>3. /\ pool'.reservedAssets = pool.reservedAssets - tk.reservedAmount
          /\ pool'.lockedUserRisk = pool.lockedUserRisk - tk.riskAmount
          /\ pool'.internalAssets = pool.internalAssets - tk.riskAmount
      BY <1>4, <2>0, <3>2, ReleaseFields DEF CanPay
    <3> QED
      BY <1>4, <2>0, <3>1, <3>2, <3>3 DEF CanPay, AvailableAssets, Pools
  <2>2. CASE PayTicket(t)
    <3>1. worth = tk.payout
      BY <1>0, <1>4, <2>2, VerdictType DEF PayTicket
    <3>2. /\ pool' = PayoutPaid(pool, tk.payout, tk.reservedAmount, tk.riskAmount)
          /\ usdc' = Transferred(usdc, Pool, tk.owner, tk.payout)
          /\ CanPay(tk.payout) /\ CanRelease(pool, tk.riskAmount, tk.reservedAmount)
      BY <2>2 DEF PayTicket, CloseTicket
    <3>3. /\ pool'.reservedAssets = pool.reservedAssets - tk.reservedAmount
          /\ pool'.lockedUserRisk = pool.lockedUserRisk - tk.riskAmount
          /\ pool'.internalAssets = pool.internalAssets - tk.payout
      BY <1>4, <2>0, <3>2, ReleaseFields DEF CanPay
    <3> QED
      BY <1>4, <2>0, <3>1, <3>2, <3>3, SMTT(40) DEF CanPay, AvailableAssets, Pools
  <2>3. CASE ForfeitTicket(t)
    <3>1. worth = 0
      BY <1>0, <1>4, <2>3, VerdictType DEF ForfeitTicket
    <3>2. /\ pool' = LossSettled(pool, tk.riskAmount, tk.reservedAmount) /\ usdc' = usdc
          /\ CanRelease(pool, tk.riskAmount, tk.reservedAmount)
      BY <2>3 DEF ForfeitTicket, CloseTicket
    <3>3. /\ pool'.reservedAssets = pool.reservedAssets - tk.reservedAmount
          /\ pool'.lockedUserRisk = pool.lockedUserRisk - tk.riskAmount
          /\ pool'.internalAssets = pool.internalAssets - 0
      BY <1>4, <2>0, <3>2, ReleaseFields
    <3> QED
      BY <1>4, <2>0, <3>1, <3>2, <3>3 DEF AvailableAssets, Pools
  <2> QED
    BY <2>1, <2>2, <2>3 DEF SettleTicket
<1> HIDE DEF worth
<1>10. WalletMap' = [WalletMap EXCEPT ![tk.owner] = @ + worth]
  <2>0. usdc \in [Accounts -> Nat] /\ Pool \in Accounts /\ tk.owner \in Accounts /\ tk.owner # Pool
    BY <1>0, <1>4, Addresses DEF TypeOK
  <2>1. /\ (usdc')[tk.owner] = usdc[tk.owner] + worth
        /\ \A u \in Users \ {tk.owner} : (usdc')[u] = usdc[u]
    <3>1. CASE usdc' = Transferred(usdc, Pool, tk.owner, worth)
      <4>1. /\ (usdc')[tk.owner] = usdc[tk.owner] + worth
            /\ \A a \in Accounts \ {Pool, tk.owner} : (usdc')[a] = usdc[a]
        BY <1>9, <2>0, <3>1, TransferType
      <4> QED
        BY <4>1, Addresses
    <3>2. CASE worth = 0 /\ usdc' = usdc
      BY <2>0, <3>2
    <3> QED
      BY <1>9, <3>1, <3>2
  <2>2. WalletMap' = [u \in Users |-> (usdc')[u]] /\ WalletMap = [u \in Users |-> usdc[u]]
    BY DEF WalletMap
  <2> QED
    BY <2>1, <2>2
<1>11. /\ PromiseMap[t] = p /\ p # NoPromise /\ p.holder = tk.owner /\ p.payout = tk.payout
       /\ p.market = tk.market /\ p.stake = tk.riskAmount /\ p.outcome = tk.outcome
  <2>1. /\ p.holder = tk.owner /\ p.payout = tk.payout
        /\ p.market = tk.market /\ p.stake = tk.riskAmount /\ p.outcome = tk.outcome
    BY DEF PromiseOf
  <2>2. NoPromise.outcome = 0
    BY DEF NoPromise, Unset
  <2> QED
    BY <1>4, <2>1, <2>2 DEF PromiseMap
<1> HIDE DEF p
<1>12. Abstract!Worth(p) = worth
  BY <1>8, <1>11 DEF Abstract!Worth, Abstract!Void, worth, VerdictMap
<1>13. FreeAssets' = FreeAssets + p.payout - worth
  BY <1>9, <1>11 DEF FreeAssets
<1> QED
  BY <1>5, <1>6, <1>7, <1>8, <1>10, <1>11, <1>12, <1>13
  DEF Abstract!Redeem, Abstract!Undecided, VerdictMap, PromiseMap, RedeemedSet, WalletMap, FreeAssets

\* A purchase issues its ticket: the holder pays the stake and the fee, the
\* vault sets the reserve aside and takes its share of the fee.
LEMMA BuyPromises ==
    ASSUME EngineInv, VerdictsStand, NEW buyer \in Traders, NEW m \in Markets,
           NEW outcome \in Outcomes, NEW risk \in Risks, NEW boostBps \in Boosts,
           BuyTicket(buyer, m, outcome, risk, boostBps)
    PROVE  \E id \in TicketIds : Abstract!Issue(id)
<1> DEFINE payout == QuotedPayout(m, outcome, risk, boostBps)
           reserve == payout - risk
           fee == Fee(risk, boostBps)
           lpFee == ShareOf(fee, feeSplit.lp)
           tk == [status |-> "Open", market |-> m, owner |-> buyer,
                  outcome |-> outcome, riskAmount |-> risk,
                  payout |-> payout, reservedAmount |-> reserve]
           p == [holder |-> buyer, market |-> m, outcome |-> outcome,
                 stake |-> risk, payout |-> payout]
<1>0. TypeOK /\ buyer \in Users /\ outcome \in {1, 2}
  BY DEF EngineInv, Users, Outcomes, YES, NO
<1>fresh. NextTicketId \in TicketIds /\ ~(NextTicketId <= totalSupply)
  BY <1>0, ProtocolAssumption DEF BuyTicket, TypeOK, NextTicketId, TicketIds
<1>id. PICK id \in TicketIds : id = NextTicketId
  BY <1>fresh
<1>1. /\ risk \in Nat /\ payout \in Nat /\ reserve \in Nat /\ lpFee \in Nat
      /\ tk \in Tickets /\ Mint(tk)
      /\ AvailableAssets(pool) >= reserve
      /\ pool' \in Pools
      /\ pool'.reservedAssets = pool.reservedAssets + reserve
      /\ pool'.lockedUserRisk = pool.lockedUserRisk + risk
      /\ pool'.internalAssets = pool.internalAssets + risk + lpFee
  BY BuyEffect
<1>2. /\ id \in TicketIds /\ ticket'[id] = tk /\ ticket[id] = NoTicket
      /\ \A t \in TicketIds \ {id} : ticket'[t] = ticket[t]
  <2>1. tk.status = "Open"
    OBVIOUS
  <2> HIDE DEF tk
  <2>2. /\ ticket'[id] = tk
        /\ \A t \in TicketIds \ {id} : ticket'[t] = ticket[t]
    BY <1>0, <1>1, <1>id, <2>1, MintOpens
  <2>3. id \in TicketIds /\ ticket[id].status = "None"
    BY <1>0, <1>fresh, <1>id DEF TypeOK
  <2>4. ticket[id] = NoTicket
    BY <1>0, <2>3 DEF TypeOK, Tickets
  <2> QED
    BY <2>2, <2>3, <2>4
<1>3. /\ PromiseMap[id] = NoPromise /\ PromiseMap'[id] = p
      /\ PromiseMap' = [PromiseMap EXCEPT ![id] = p]
  <2>1. PromiseOf(id) = NoPromise
    BY <1>2 DEF PromiseOf, NoPromise, NoTicket
  <2>2. PromiseOf(id)' = p
    BY <1>2 DEF PromiseOf
  <2>3. \A t \in TicketIds \ {id} : PromiseOf(t)' = PromiseOf(t)
    BY <1>2 DEF PromiseOf
  <2>4. PromiseMap = [t \in TicketIds |-> PromiseOf(t)] /\ PromiseMap' = [t \in TicketIds |-> PromiseOf(t)']
    BY DEF PromiseMap
  <2> HIDE DEF p
  <2> QED
    BY <1>2, <2>1, <2>2, <2>3, <2>4
<1>4. p \in Abstract!Promises
  BY <1>0, <1>1 DEF Abstract!Promises
<1>5. VerdictMap' = VerdictMap /\ VerdictMap[m] = Abstract!Undecided
  <2> DEFINE mkt == ApplyTradeImpact(market[m], outcome, risk)
  <2>1. market[m] \in MarketRecords /\ market[m].impactLiquidity > 0 /\ market[m].status = "Open"
    BY DEF EngineInv, TypeOK, BooksHaveDepth, BuyTicket, CanBuy
  <2>2. mkt.status = market[m].status /\ mkt.winningOutcome = market[m].winningOutcome
    BY <1>1, <2>1, TradeType
  <2>3. market' = [market EXCEPT ![m] = mkt]
    BY DEF BuyTicket
  <2> HIDE DEF mkt
  <2>4. market'[m] = mkt /\ \A k \in Markets \ {m} : market'[k] = market[k]
    BY <1>0, <2>3 DEF TypeOK
  <2>5. \A k \in Markets : VerdictOf(k)' = VerdictOf(k)
    BY <2>2, <2>4 DEF VerdictOf, Voided, Decided
  <2>6. VerdictOf(m) = 0
    BY <2>1 DEF VerdictOf, Voided, Decided, Unset
  <2> QED
    BY <2>5, <2>6 DEF VerdictMap, Abstract!Undecided
<1>6. RedeemedSet' = RedeemedSet
  BY <1>2 DEF RedeemedSet, NoTicket
<1>7. /\ pool \in Pools /\ FreeAssets \in Int /\ reserve <= FreeAssets
      /\ FreeAssets' = FreeAssets - reserve + lpFee
  BY <1>0, <1>1 DEF TypeOK, Pools, FreeAssets, AvailableAssets
<1>8. fee \in Nat /\ lpFee <= fee
  <2>1. boostBps \in Nat /\ boostBps >= BPS
    BY ProtocolAssumption DEF BuyTicket, QuoteAccepted
  <2>2. fee \in Nat
    BY <1>1, <2>1, FeeType
  <2>3. feeSplit \in Splits
    BY <1>0, ProtocolAssumption DEF TypeOK
  <2> HIDE DEF fee
  <2>4. /\ ShareOf(fee, feeSplit.insurance) \in Nat
        /\ fee - lpFee - ShareOf(fee, feeSplit.insurance) \in Nat
    BY <2>2, <2>3, SplitFits
  <2> QED
    BY <1>1, <2>2, <2>4
<1>9. /\ WalletMap' = [WalletMap EXCEPT ![buyer] = @ - risk - fee]
      /\ WalletMap[buyer] \in Nat /\ WalletMap'[buyer] = WalletMap[buyer] - risk - fee
  <2> DEFINE b == Transferred(usdc, buyer, Pool, risk)
             c == Transferred(b, buyer, Router, fee)
  <2>1. usdc' = FeeRouted(c, fee) /\ usdc[buyer] >= risk + fee
    BY DEF BuyTicket
  <2> HIDE DEF fee
  <2>2. /\ usdc \in [Accounts -> Nat] /\ buyer \in Accounts /\ Pool \in Accounts /\ Router \in Accounts
        /\ buyer # Pool /\ buyer # Router /\ Pool # Router
    BY <1>0, Addresses DEF TypeOK
  <2>3. risk <= usdc[buyer] /\ fee <= usdc[buyer] - risk
    BY <1>1, <1>8, <2>1, <2>2
  <2>4. /\ b \in [Accounts -> Nat] /\ b[buyer] = usdc[buyer] - risk
        /\ \A a \in Accounts \ {buyer, Pool} : b[a] = usdc[a]
    BY <1>1, <2>2, <2>3, TransferType
  <2>5. /\ c \in [Accounts -> Nat] /\ c[buyer] = b[buyer] - fee /\ c[Router] = b[Router] + fee
        /\ \A a \in Accounts \ {buyer, Router} : c[a] = b[a]
    <3>1. fee <= b[buyer]
      BY <2>3, <2>4
    <3> HIDE DEF b
    <3> QED
      BY <1>8, <2>2, <2>4, <3>1, TransferType
  <2> HIDE DEF b, c
  <2>6. \A a \in Accounts \ Contracts : (usdc')[a] = c[a]
    <3>1. fee <= c[Router]
      BY <1>8, <2>2, <2>4, <2>5
    <3>2. feeSplit \in Splits
      BY <1>0, ProtocolAssumption DEF TypeOK
    <3> QED
      BY <1>8, <2>1, <2>5, <3>1, <3>2, FeeRoutedType
  <2>7. /\ (usdc')[buyer] = usdc[buyer] - risk - fee
        /\ \A u \in Users \ {buyer} : (usdc')[u] = usdc[u]
    BY <1>0, <2>4, <2>5, <2>6, Addresses DEF Contracts
  <2>8. WalletMap' = [u \in Users |-> (usdc')[u]] /\ WalletMap = [u \in Users |-> usdc[u]]
    BY DEF WalletMap
  <2>9. usdc[buyer] \in Nat
    BY <2>2
  <2> QED
    BY <1>0, <2>7, <2>8, <2>9
<1> HIDE DEF reserve, fee, lpFee, payout
<1>10. /\ p.payout - p.stake = reserve /\ p.holder = buyer /\ p.market = m /\ p.stake = risk
       /\ WalletMap[p.holder] - p.stake - WalletMap'[p.holder] = fee
       /\ FreeAssets' - (FreeAssets - reserve) = lpFee
  BY <1>1, <1>7, <1>8, <1>9 DEF reserve
<1> HIDE DEF p
<1>11. Abstract!Issue(id)
  <2>1. /\ PromiseMap'[id] = p /\ PromiseMap[id] = NoPromise
        /\ PromiseMap' = [PromiseMap EXCEPT ![id] = PromiseMap'[id]]
    BY <1>3
  <2>2. WalletMap' = [WalletMap EXCEPT ![p.holder] =
                         @ - p.stake - (WalletMap[p.holder] - p.stake - WalletMap'[p.holder])]
    BY <1>9, <1>10
  <2>3. /\ 0 <= p.payout - p.stake /\ p.payout - p.stake <= FreeAssets
        /\ 0 <= FreeAssets' - (FreeAssets - (p.payout - p.stake))
        /\ FreeAssets' - (FreeAssets - (p.payout - p.stake)) <=
               WalletMap[p.holder] - p.stake - WalletMap'[p.holder]
    BY <1>1, <1>7, <1>8, <1>10
  <2>4. VerdictMap[p.market] = Abstract!Undecided
    BY <1>5, <1>10
  <2> QED
    BY <1>4, <1>5, <1>6, <2>1, <2>2, <2>3, <2>4
    DEF Abstract!Issue, VerdictMap, PromiseMap, RedeemedSet, WalletMap, FreeAssets
<1> QED
  BY <1>2, <1>11

\* Every transaction of the protocol is a step of TicketPromise or leaves its
\* state alone.
LEMMA StepKeepsPromises ==
    ASSUME EngineInv, VerdictsStand, EngineInv', VerdictsStand', [Next]_vars
    PROVE  [Abstract!Next]_Abstract!vars
<1>0. TypeOK
  BY DEF EngineInv
<1>1. CASE UNCHANGED <<market, ticket, usdc, pool>>
  BY <1>1 DEF Abstract!vars, VerdictOf, Voided, Decided, PromiseOf
<1>2. CASE \E from \in Traders, amount \in Deposits : Donate(from, amount)
  <2>1. PICK from \in Traders, amount \in Deposits : Donate(from, amount)
    BY <1>2
  <2>2. /\ usdc' = Transferred(usdc, from, Pool, amount) /\ pool' = pool /\ market' = market
        /\ ticket' = ticket /\ amount <= usdc[from] /\ from \in Users /\ amount \in Nat
    BY <1>0, <2>1, ProtocolAssumption, Addresses DEF Donate, book, positions, Users, TypeOK
  <2>3. /\ (usdc')[from] = usdc[from] - amount
        /\ \A u \in Users \ {from} : (usdc')[u] = usdc[u]
    <3>1. /\ usdc \in [Accounts -> Nat] /\ from \in Accounts /\ Pool \in Accounts /\ from # Pool
      BY <1>0, <2>2, Addresses DEF TypeOK
    <3> QED
      BY <2>2, <3>1, TransferType, Addresses
  <2>4. usdc[from] \in Nat
    BY <1>0, <2>2, Addresses DEF TypeOK
  <2>5. usdc[from] >= (usdc')[from]
    BY <2>2, <2>3, <2>4
  <2> QED
    BY <2>2, <2>3, <2>5, TransferPromises
<1>3. CASE WithdrawInsurance(usdc[Insurance])
  <2>1. /\ usdc' = Transferred(usdc, Insurance, Treasury, usdc[Insurance]) /\ pool' = pool
        /\ market' = market /\ ticket' = ticket
    BY <1>3 DEF WithdrawInsurance, book, positions
  <2>2. \A u \in Users : (usdc')[u] = usdc[u]
    BY <1>0, <2>1, Addresses, TransferType DEF TypeOK
  <2> QED
    BY <2>1, <2>2 DEF Abstract!vars, VerdictOf, Voided, Decided, PromiseOf
<1>4. CASE \E lp \in LPs, amount \in Deposits : Deposit(lp, amount)
  <2>1. PICK lp \in LPs, amount \in Deposits : Deposit(lp, amount)
    BY <1>4
  <2>2. /\ usdc' = Transferred(usdc, lp, Pool, amount) /\ pool' = Deposited(pool, lp, amount)
        /\ market' = market
        /\ ticket' = ticket /\ usdc[lp] >= amount /\ lp \in Users /\ amount \in Nat
    BY <2>1, ProtocolAssumption DEF Deposit, book, positions, Users
  <2>3. /\ (usdc')[lp] = usdc[lp] - amount /\ usdc[lp] \in Nat
        /\ \A u \in Users \ {lp} : (usdc')[u] = usdc[u]
    <3>1. /\ usdc \in [Accounts -> Nat] /\ lp \in Accounts /\ Pool \in Accounts /\ lp # Pool
      BY <1>0, <2>2, Addresses DEF TypeOK
    <3>2. amount <= usdc[lp] /\ usdc[lp] \in Nat
      BY <2>2, <3>1
    <3> QED
      BY <2>2, <3>1, <3>2, TransferType, Addresses
  <2>4. AvailableAssets(pool') = AvailableAssets(pool) + (usdc[lp] - (usdc')[lp])
    <3>1. /\ pool \in Pools /\ pool'.internalAssets = pool.internalAssets + amount
          /\ pool'.lockedUserRisk = pool.lockedUserRisk /\ pool'.reservedAssets = pool.reservedAssets
      BY <1>0, <2>2 DEF TypeOK, Deposited, Pools
    <3> QED
      BY <2>2, <2>3, <3>1 DEF AvailableAssets, Pools
  <2> QED
    BY <2>2, <2>3, <2>4, TransferPromises
<1>5. CASE \E lp \in LPs : \E shares \in ShareLots \cup {pool.sharesOf[lp]} : Withdraw(lp, shares)
  <2>1. PICK lp \in LPs : \E shares \in ShareLots \cup {pool.sharesOf[lp]} : Withdraw(lp, shares)
    BY <1>5
  <2>2. PICK shares \in ShareLots \cup {pool.sharesOf[lp]} : Withdraw(lp, shares)
    BY <2>1
  <2> DEFINE assets == AssetsFor(pool, shares)
  <2>3. /\ usdc' = Transferred(usdc, Pool, lp, assets) /\ pool' = Withdrawn(pool, lp, shares)
        /\ market' = market /\ ticket' = ticket /\ usdc[Pool] >= assets /\ lp \in Users
    BY <2>2 DEF Withdraw, book, positions, Users
  <2>4. assets \in Nat
    <3>1. shares \in Int
      BY <1>0, ProtocolAssumption, PoolType
    <3>2. shares > 0 /\ ManagedAssets(pool) > 0 /\ pool.totalShares > 0
      BY <2>2 DEF Withdraw, CanWithdraw
    <3>3. ManagedAssets(pool) \in Int /\ pool.totalShares \in Nat
      BY <1>0 DEF TypeOK, Pools, ManagedAssets
    <3>4. shares * ManagedAssets(pool) \in Nat
      BY <3>1, <3>2, <3>3, SMT
    <3> QED
      BY <3>2, <3>3, <3>4, DivBounds DEF AssetsFor
  <2>5. /\ (usdc')[lp] = usdc[lp] + assets /\ usdc[lp] \in Nat
        /\ \A u \in Users \ {lp} : (usdc')[u] = usdc[u]
    <3>1. /\ usdc \in [Accounts -> Nat] /\ lp \in Accounts /\ Pool \in Accounts /\ lp # Pool
      BY <1>0, <2>3, Addresses DEF TypeOK
    <3>2. assets <= usdc[Pool] /\ usdc[lp] \in Nat
      BY <2>3, <2>4, <3>1
    <3> HIDE DEF assets
    <3> QED
      BY <2>3, <2>4, <3>1, <3>2, TransferType, Addresses
  <2>6. AvailableAssets(pool') = AvailableAssets(pool) + (usdc[lp] - (usdc')[lp])
    <3>1. /\ pool \in Pools /\ pool'.internalAssets = pool.internalAssets - assets
          /\ pool'.lockedUserRisk = pool.lockedUserRisk /\ pool'.reservedAssets = pool.reservedAssets
      BY <1>0, <2>3 DEF TypeOK, Withdrawn, Pools
    <3> QED
      BY <2>4, <2>5, <3>1 DEF AvailableAssets, Pools
  <2> QED
    BY <2>3, <2>5, <2>6, TransferPromises
<1>6. CASE \E m \in Markets :
             \/ \E seed \in Seeds : CreateMarket(m, seed)
             \/ OpenMarket(m) \/ LockMarket(m)
             \/ \E outcome \in Outcomes : ResolveMarket(m, outcome)
             \/ CancelMarket(m) \/ ArchiveMarket(m)
  BY <1>6, LifecyclePromises
<1>7. CASE \E buyer \in Traders, m \in Markets, outcome \in Outcomes, risk \in Risks, boostBps \in Boosts :
             BuyTicket(buyer, m, outcome, risk, boostBps)
  BY <1>7, BuyPromises DEF Abstract!Next
<1>8. CASE \E t \in TicketIds : SettleTicket(t)
  BY <1>8, SettlePromises DEF Abstract!Next
<1>9. UNCHANGED vars \/ Tick \/ (\E p \in BOOLEAN : SetPaused(p))
      \/ (\E split \in FeeSplits : SetFeeSplit(split)) => UNCHANGED <<market, ticket, usdc, pool>>
  BY Zenon DEF vars, book, positions, Tick, SetPaused, SetFeeSplit
<1> QED
  BY <1>1, <1>2, <1>3, <1>4, <1>5, <1>6, <1>7, <1>8, <1>9 DEF Next

\* The protocol implements TicketPromise: a holder pays the stake and a fee
\* while the market is undecided, the vault sets the rest of the payout aside
\* out of free liquidity, and the ticket is redeemed once, for what the one
\* verdict of its market makes it worth.
THEOREM ProtocolKeepsPromises == Spec => KeepsPromises
<1>1. Init => Abstract!Init
  BY InitPromises
<1>2. EngineInv /\ VerdictsStand /\ EngineInv' /\ VerdictsStand' /\ [Next]_vars
         => [Abstract!Next]_Abstract!vars
  BY StepKeepsPromises
<1> QED
  BY <1>1, <1>2, EngineInvariant, VerdictsInvariant, PTL DEF Spec, KeepsPromises, Abstract!Spec

---------------------------------------------------------------------------
(* The advertised boost. *)

\* The quotes of every market stand off zero.
PricesStand == \A m \in Markets : PriceStands(market[m])

LEMMA StepKeepsPrices ==
    EngineInv /\ VerdictsStand /\ PricesStand /\ [Next]_vars => PricesStand'
<1> SUFFICES ASSUME EngineInv, VerdictsStand, PricesStand, [Next]_vars PROVE PricesStand'
  OBVIOUS
<1>0. market \in [Markets -> MarketRecords]
  BY DEF EngineInv, TypeOK
<1>1. CASE UNCHANGED market
  BY <1>1 DEF PricesStand, PriceStands
<1>2. ASSUME NEW m \in Markets, NEW mkt, PriceStands(mkt), market' = [market EXCEPT ![m] = mkt]
      PROVE  PricesStand'
  BY <1>0, <1>2 DEF PricesStand, PriceStands
<1>3. CASE \E m \in Markets :
             \/ \E seed \in Seeds : CreateMarket(m, seed)
             \/ OpenMarket(m) \/ LockMarket(m)
             \/ \E outcome \in Outcomes : ResolveMarket(m, outcome)
             \/ CancelMarket(m) \/ ArchiveMarket(m)
  <2>1. PICK m \in Markets :
             \/ \E seed \in Seeds : CreateMarket(m, seed)
             \/ OpenMarket(m) \/ LockMarket(m)
             \/ \E outcome \in Outcomes : ResolveMarket(m, outcome)
             \/ CancelMarket(m) \/ ArchiveMarket(m)
    BY <1>3
  <2>2. PICK mkt : MarketBecomes(m, mkt) /\ (PriceStands(market[m]) => PriceStands(mkt))
    BY <2>1, LifecycleChange, Zenon
  <2> QED
    BY <1>2, <2>2 DEF MarketBecomes, PricesStand
<1>4. CASE \E buyer \in Traders, m \in Markets, outcome \in Outcomes, risk \in Risks, boostBps \in Boosts :
             BuyTicket(buyer, m, outcome, risk, boostBps)
  <2>1. PICK buyer \in Traders, m \in Markets, outcome \in Outcomes, risk \in Risks, boostBps \in Boosts :
           BuyTicket(buyer, m, outcome, risk, boostBps)
    BY <1>4
  <2> DEFINE mkt == ApplyTradeImpact(market[m], outcome, risk)
  <2>2. /\ market[m] \in MarketRecords /\ market[m].impactLiquidity > 0 /\ risk \in Nat
        /\ market' = [market EXCEPT ![m] = mkt]
    BY <1>0, <2>1, ProtocolAssumption DEF EngineInv, BooksHaveDepth, BuyTicket, CanBuy
  <2>3. mkt.yesPrice >= MIN_PRICE /\ mkt.noPrice >= MIN_PRICE
    BY <2>2, TradeType
  <2> HIDE DEF mkt
  <2> QED
    BY <1>2, <2>2, <2>3 DEF PriceStands
<1>5. \/ UNCHANGED market
      \/ \E m \in Markets :
             \/ \E seed \in Seeds : CreateMarket(m, seed)
             \/ OpenMarket(m) \/ LockMarket(m)
             \/ \E outcome \in Outcomes : ResolveMarket(m, outcome)
             \/ CancelMarket(m) \/ ArchiveMarket(m)
      \/ \E buyer \in Traders, m \in Markets, outcome \in Outcomes, risk \in Risks, boostBps \in Boosts :
             BuyTicket(buyer, m, outcome, risk, boostBps)
  BY Zenon DEF Next, vars, book, Tick, Donate, SetPaused, SetFeeSplit, WithdrawInsurance,
            Deposit, Withdraw, SettleTicket, RefundTicket, PayTicket, ForfeitTicket, CloseTicket
<1> QED
  BY <1>1, <1>3, <1>4, <1>5

\* A boost no larger than the raw one keeps the payout within the stake and
\* what is available: both divisions truncate the same way.
LEMMA BoostFits ==
    ASSUME NEW risk \in Nat \ {0}, NEW price \in Nat \ {0}, NEW available \in Nat,
           NEW boost \in Nat, boost <= RawMaxBoost(risk, price, available)
    PROVE  Payout(risk, price, boost) <= risk + available
<1> DEFINE whole == (risk + available) * price * BPS
           unit == risk * PRICE_SCALE
           raw == whole \div unit
           due == unit * boost
           lot == price * BPS
<1>1. whole \in Nat /\ unit \in Nat \ {0} /\ due \in Nat /\ lot \in Nat \ {0}
  BY ScaleAssumption, SMT
<1>2. raw \in Nat /\ raw * unit <= whole
  BY <1>1, DivBounds
<1>3. boost <= raw
  BY DEF RawMaxBoost
<1>4. whole = (risk + available) * lot
  BY ScaleAssumption, SMT
<1>5. due <= raw * unit
  <2> HIDE DEF raw, unit
  <2>1. unit * boost <= unit * raw
    BY <1>1, <1>2, <1>3, SMT
  <2> QED
    BY <1>1, <1>2, <2>1, SMT
<1> HIDE DEF whole, unit, raw, due, lot
<1>6. due <= (risk + available) * lot
  BY <1>1, <1>2, <1>4, <1>5, SMT
<1>7. (due \div lot) * lot <= due /\ due \div lot \in Nat
  BY <1>1, DivBounds
<1>8. due \div lot <= risk + available
  <2> DEFINE q == due \div lot
             n == risk + available
  <2>1. q * lot <= n * lot /\ q \in Nat /\ n \in Nat
    BY <1>1, <1>6, <1>7
  <2> HIDE DEF q, n
  <2>2. q <= n
    BY <1>1, <2>1, SMT
  <2> QED
    BY <2>2 DEF q, n
<1> QED
  BY <1>8 DEF due, lot, unit, Payout

\* The boost a quote advertises fits the vault's free liquidity whenever the
\* plain bet does, in every reachable state.
THEOREM AdvertisedBoostFits == Spec => []AdvertisedBoostIsAffordable
<1>1. Init => PricesStand
  BY DEF Init, PricesStand, PriceStands, NoMarket
<1>2. EngineInv /\ VerdictsStand /\ PricesStand /\ [Next]_vars => PricesStand'
  BY StepKeepsPrices
<1>3. EngineInv /\ PricesStand => AdvertisedBoostIsAffordable
  <2> SUFFICES ASSUME EngineInv, PricesStand,
                      NEW m \in Markets, NEW outcome \in Outcomes, NEW risk \in Risks,
                      market[m].status # "None", risk > 0,
                      QuotedPayout(m, outcome, risk, BPS) <= risk + AvailableAssets(pool)
               PROVE  QuotedPayout(m, outcome, risk, MaxAvailableBoost(m, outcome, risk))
                          <= risk + AvailableAssets(pool)
    BY Zenon DEF AdvertisedBoostIsAffordable
  <2> DEFINE price == PriceForOutcome(market[m], outcome)
             available == AvailableAssets(pool)
             raw == RawMaxBoost(risk, price, available)
             boost == MaxAvailableBoost(m, outcome, risk)
  <2>1. available \in Nat
    BY DEF EngineInv, TypeOK, Pools, EscrowFunded, AvailableAssets
  <2>2. price \in Nat \ {0}
    <3>1. /\ market[m].yesPrice \in Nat /\ market[m].noPrice \in Nat
      BY DEF EngineInv, TypeOK, MarketRecords
    <3> QED
      BY <3>1, BookAssumption DEF PricesStand, PriceStands, PriceForOutcome
  <2>3. risk \in Nat \ {0} /\ MAX_BOOST_BPS \in Nat /\ BPS \in Nat \ {0}
    BY ProtocolAssumption, ScaleAssumption
  <2>4. boost = IF raw > MAX_BOOST_BPS THEN MAX_BOOST_BPS ELSE IF raw < BPS THEN BPS ELSE raw
    BY DEF MaxAvailableBoost
  <2>5. raw \in Nat
    <3>1. (risk + available) * price * BPS \in Nat /\ risk * PRICE_SCALE \in Nat \ {0}
      <4> HIDE DEF price, available
      <4> QED
        BY <2>1, <2>2, <2>3, ScaleAssumption, SMT
    <3> QED
      BY <3>1, DivBounds DEF RawMaxBoost
  <2>6. QuotedPayout(m, outcome, risk, boost) = Payout(risk, price, boost)
    BY DEF QuotedPayout
  <2> HIDE DEF price, available, raw, boost
  <2>7. CASE boost \in Nat /\ boost <= raw
    BY <2>1, <2>2, <2>3, <2>6, <2>7, BoostFits DEF raw, available, boost
  <2>8. CASE boost = BPS
    BY <2>8 DEF boost
  <2>9. (boost \in Nat /\ boost <= raw) \/ boost = BPS
    BY <2>3, <2>4, <2>5
  <2> QED
    BY <2>7, <2>8, <2>9 DEF boost
<1> QED
  BY <1>1, <1>2, <1>3, EngineInvariant, VerdictsInvariant, PTL DEF Spec

=============================================================================
