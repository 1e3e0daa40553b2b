----------------------- MODULE MicroMarketBookProofs -----------------------
(***************************************************************************)
(* Proofs about the price book, for every choice of scale, rails, depth,   *)
(* overround and drift limit that satisfies the assumptions of             *)
(* MicroMarket and MicroMarketBook, every seed and every stake.            *)
(***************************************************************************)
EXTENDS MicroMarketBook, TotalsProofs, TLAPS

---------------------------------------------------------------------------
(* The drift limit against the overround. *)

\* A value lowered by at most the drift limit is restored by the overround.
LEMMA OverroundCoversDrift ==
    ASSUME NEW s \in Nat, NEW c \in Nat, c <= s
    PROVE  /\ (c * MAX_MID_DRIFT_BPS) \div BPS \in 0..s
           /\ ((s - (c * MAX_MID_DRIFT_BPS) \div BPS) * OVERROUND_BPS) \div BPS >= s
<1> DEFINE B == BPS
           D == MAX_MID_DRIFT_BPS
           O == OVERROUND_BPS
           d == (c * D) \div B
<1>0. B \in Nat \ {0} /\ D \in 0..B /\ O \in Nat /\ (B - D) * O >= B * B
  BY ScaleAssumption, BookAssumption, BandWithinMargin
<1> HIDE DEF B, D, O
<1>1. d \in Nat /\ d * B <= c * D
  BY <1>0, SMT
<1>2. c * D <= s * D /\ s * D <= s * B
  BY <1>0, SMT
<1>3. d <= s
  BY <1>0, <1>1, <1>2, SMT
<1> HIDE DEF d
<1>4. (s - d) * B >= s * (B - D)
  BY <1>0, <1>1, <1>2, <1>3, SMT
<1>5. (s - d) * B * O >= s * (B - D) * O
  BY <1>0, <1>1, <1>3, <1>4, SMT
<1>6. s * ((B - D) * O) >= s * (B * B)
  BY <1>0, SMT
<1>7. ((s - d) * O) * B >= (s * B) * B
  BY <1>0, <1>1, <1>3, <1>5, <1>6, SMT
<1>8. (s - d) * O >= s * B
  BY <1>0, <1>1, <1>3, <1>7, SMT
<1>9. ((s - d) * O) \div B >= s
  BY <1>0, <1>1, <1>3, <1>8, SMT
<1> QED
  BY <1>1, <1>3, <1>9 DEF d, B, D, O

---------------------------------------------------------------------------
(* The quoting function and the band. *)

\* A quote is a price QuoteMath accepts, and at least the fair value it is
\* quoted for, which lies below the scale.
LEMMA QuotedBounds ==
    ASSUME NEW fair \in 1..PRICE_SCALE - 1
    PROVE  Quoted(fair) \in fair..PRICE_SCALE - 1
<1> DEFINE raw == (fair * OVERROUND_BPS) \div BPS
<1>1. fair \in Nat /\ fair * OVERROUND_BPS \in Nat
  BY ScaleAssumption, BookAssumption, SMT
<1>2. OVERROUND_BPS >= BPS
  <2>1. (BPS - MAX_MID_DRIFT_BPS) * OVERROUND_BPS <= BPS * OVERROUND_BPS
    BY ScaleAssumption, BookAssumption, SMT
  <2>2. BPS * OVERROUND_BPS >= BPS * BPS
    BY <2>1, BandWithinMargin, ScaleAssumption, BookAssumption, SMT
  <2> QED
    BY <2>2, ScaleAssumption, BookAssumption, SMT
<1>3. fair * BPS <= fair * OVERROUND_BPS
  BY <1>1, <1>2, ScaleAssumption, BookAssumption, SMT
<1>4. raw \in Nat /\ raw >= fair
  BY <1>1, <1>3, DivAtLeast, DivBounds, ScaleAssumption
<1> HIDE DEF raw
<1> QED
  BY <1>1, <1>4, ScaleAssumption, BookAssumption, SMT DEF Quoted, raw

\* A larger fair value never quotes lower.
LEMMA QuotedMonotone ==
    ASSUME NEW f \in Nat, NEW g \in Nat, f <= g
    PROVE  Quoted(f) <= Quoted(g)
<1> DEFINE rf == (f * OVERROUND_BPS) \div BPS
           rg == (g * OVERROUND_BPS) \div BPS
<1>1. /\ f * OVERROUND_BPS \in Nat /\ g * OVERROUND_BPS \in Nat
      /\ f * OVERROUND_BPS <= g * OVERROUND_BPS
  BY BookAssumption, SMT
<1>2. rf \in Nat /\ rg \in Nat /\ rf <= rg
  BY <1>1, DivMonotone, DivBounds, ScaleAssumption
<1> HIDE DEF rf, rg
<1> QED
  BY <1>2, ScaleAssumption, BookAssumption, SMT DEF Quoted, rf, rg

\* The quote of a value at least v, pushed down by the whole drift, is at
\* least v when v is below the scale.
LEMMA QuotedAtLeast ==
    ASSUME NEW v \in 1..PRICE_SCALE - 1, NEW f \in Nat,
           (f * OVERROUND_BPS) \div BPS >= v
    PROVE  Quoted(f) >= v
<1> DEFINE raw == (f * OVERROUND_BPS) \div BPS
<1>1. raw \in Nat /\ raw >= v
  BY DivBounds, ScaleAssumption, BookAssumption, SMT
<1> HIDE DEF raw
<1> QED
  BY <1>1, ScaleAssumption, BookAssumption, SMT DEF Quoted, raw

\* The band contains the seed and lies within the rails; the quotes at its
\* two ends are no lower than the seed's fair values.
LEMMA BandAroundSeed ==
    ASSUME NEW seed \in MIN_PRICE..MAX_PRICE
    PROVE  /\ MinMid(seed) \in MIN_PRICE..seed
           /\ MaxMid(seed) \in seed..MAX_PRICE
           /\ Quoted(MinMid(seed)) >= seed
           /\ Quoted(PRICE_SCALE - MaxMid(seed)) >= PRICE_SCALE - seed
<1> DEFINE cheaper == IF seed < PRICE_SCALE - seed THEN seed ELSE PRICE_SCALE - seed
           d == (cheaper * MAX_MID_DRIFT_BPS) \div BPS
           other == PRICE_SCALE - seed
<1>1. /\ seed \in 1..PRICE_SCALE - 1 /\ other \in 1..PRICE_SCALE - 1
      /\ cheaper \in Nat /\ cheaper <= seed /\ cheaper <= other
  BY ScaleAssumption, BookAssumption, SMT
<1>2. d = Drift(seed)
  BY DEF Drift
<1> HIDE DEF cheaper
<1>3. d \in 0..seed /\ ((seed - d) * OVERROUND_BPS) \div BPS >= seed
  BY <1>1, OverroundCoversDrift
<1>4. d \in 0..other /\ ((other - d) * OVERROUND_BPS) \div BPS >= other
  BY <1>1, OverroundCoversDrift
<1> HIDE DEF d
<1>5. Quoted(seed - d) >= seed /\ Quoted(other - d) >= other
  <2>1. seed - d \in Nat /\ other - d \in Nat
    BY <1>1, <1>3, <1>4, SMT
  <2> QED
    BY <2>1, <1>1, <1>3, <1>4, QuotedAtLeast
<1>6. MinMid(seed) \in MIN_PRICE..seed /\ MaxMid(seed) \in seed..MAX_PRICE
  BY <1>1, <1>2, <1>3, ScaleAssumption, BookAssumption, SMT DEF MinMid, MaxMid
<1>7. /\ MinMid(seed) \in Nat /\ seed - d <= MinMid(seed)
      /\ PRICE_SCALE - MaxMid(seed) \in Nat /\ other - d <= PRICE_SCALE - MaxMid(seed)
  BY <1>1, <1>2, <1>3, <1>4, ScaleAssumption, BookAssumption, SMT DEF MinMid, MaxMid
<1>8. /\ seed - d \in Nat /\ other - d \in Nat
      /\ MinMid(seed) \in 1..PRICE_SCALE - 1
      /\ PRICE_SCALE - MaxMid(seed) \in 1..PRICE_SCALE - 1
  BY <1>1, <1>3, <1>4, <1>6, ScaleAssumption, BookAssumption, SMT
<1>9. /\ Quoted(seed - d) <= Quoted(MinMid(seed))
      /\ Quoted(other - d) <= Quoted(PRICE_SCALE - MaxMid(seed))
  BY <1>7, <1>8, QuotedMonotone
<1>10. /\ Quoted(seed - d) \in Int /\ Quoted(other - d) \in Int
       /\ Quoted(MinMid(seed)) \in Int /\ Quoted(PRICE_SCALE - MaxMid(seed)) \in Int
  <2>1. \A f \in Nat : Quoted(f) \in Int
    <3> SUFFICES ASSUME NEW f \in Nat PROVE Quoted(f) \in Int
      OBVIOUS
    <3>1. (f * OVERROUND_BPS) \div BPS \in Nat
      BY DivBounds, ScaleAssumption, BookAssumption, SMT
    <3> QED
      BY <3>1, ScaleAssumption, BookAssumption DEF Quoted
  <2> QED
    BY <2>1, <1>7, <1>8
<1> QED
  BY <1>1, <1>5, <1>6, <1>9, <1>10, SMT

---------------------------------------------------------------------------
(* The invariant. *)

\* Clamping returns a mid in the band.
LEMMA ClampInBand ==
    ASSUME TypeOK, NEW mid \in Int
    PROVE  ClampMid(market, mid) \in market.minMidYes..market.maxMidYes
<1>1. /\ market.minMidYes \in Int /\ market.maxMidYes \in Int
      /\ market.minMidYes <= market.maxMidYes
  BY BookAssumption, ScaleAssumption DEF TypeOK, Books
<1> QED
  BY <1>1 DEF ClampMid

\* A mid in the band makes both sides quotable.
LEMMA BandQuotable ==
    ASSUME TypeOK, NEW mid \in market.minMidYes..market.maxMidYes
    PROVE  /\ mid \in 1..PRICE_SCALE - 1 /\ PRICE_SCALE - mid \in 1..PRICE_SCALE - 1
           /\ Quoted(mid) \in 1..PRICE_SCALE - 1
           /\ Quoted(PRICE_SCALE - mid) \in 1..PRICE_SCALE - 1
<1>1. /\ MIN_PRICE <= market.minMidYes /\ market.maxMidYes <= MAX_PRICE
      /\ market.minMidYes \in Int /\ market.maxMidYes \in Int
  BY BookAssumption, ScaleAssumption DEF TypeOK, Books
<1>2. mid \in 1..PRICE_SCALE - 1 /\ PRICE_SCALE - mid \in 1..PRICE_SCALE - 1
  BY <1>1, BookAssumption, ScaleAssumption
<1>3. /\ Quoted(mid) \in mid..PRICE_SCALE - 1
      /\ Quoted(PRICE_SCALE - mid) \in PRICE_SCALE - mid..PRICE_SCALE - 1
  BY <1>2, QuotedBounds
<1> QED
  BY <1>2, <1>3, ScaleAssumption

\* The mid a trade leaves behind lies in the band.
LEMMA MovedMidInBand ==
    ASSUME TypeOK, NEW outcome \in Outcomes, NEW risk \in Nat
    PROVE  /\ Impact(market, risk) \in Nat
           /\ ClampMid(market, MovedMid(market, outcome, risk))
                \in market.minMidYes..market.maxMidYes
<1> DEFINE depth == market.impactLiquidity + market.totalYesRisk + market.totalNoRisk
           linear == (risk * PRICE_SCALE) \div (depth * 2)
<1>1. depth \in Nat \ {0}
  <2>1. /\ market.impactLiquidity \in Nat \ {0}
        /\ market.totalYesRisk \in Nat /\ market.totalNoRisk \in Nat
    BY DEF TypeOK, Books
  <2> QED
    BY <2>1
<1>2. linear \in Nat
  <2> HIDE DEF depth
  <2>1. depth * 2 \in Nat \ {0}
    BY <1>1
  <2>2. risk * PRICE_SCALE \in Nat
    BY ScaleAssumption
  <2> QED
    BY <2>1, <2>2, DivBounds
<1>3. Impact(market, risk) \in Nat
  BY <1>2, BookAssumption DEF Impact
<1>4. MovedMid(market, outcome, risk) \in Int
  <2>1. market.fairMidYes \in Nat
    BY DEF TypeOK, Books
  <2> QED
    BY <1>3, <2>1 DEF MovedMid
<1> QED
  BY <1>3, <1>4, ClampInBand

\* What a trade changes: the risk of its side, the mid, and the two quotes.
LEMMA TradeEffect ==
    ASSUME BookInv, NEW outcome \in Outcomes, NEW risk \in Risks, Trade(outcome, risk),
           NEW mid, mid = ClampMid(market, MovedMid(market, outcome, risk))
    PROVE  market' = [status |-> market.status, winningOutcome |-> market.winningOutcome,
                      impactLiquidity |-> market.impactLiquidity,
                      seedMidYes |-> market.seedMidYes, minMidYes |-> market.minMidYes,
                      maxMidYes |-> market.maxMidYes, fairMidYes |-> mid,
                      yesPrice |-> Quoted(mid), noPrice |-> Quoted(PRICE_SCALE - mid),
                      totalYesRisk |-> market.totalYesRisk + (IF outcome = YES THEN risk ELSE 0),
                      totalNoRisk |-> market.totalNoRisk + (IF outcome = YES THEN 0 ELSE risk)]
<1>1. risk \in Nat /\ TypeOK
  BY TradeAssumption DEF BookInv
<1>2. mid \in market.minMidYes..market.maxMidYes
  BY <1>1, MovedMidInBand
<1> DEFINE traded == IF outcome = YES THEN [market EXCEPT !.totalYesRisk = @ + risk]
                     ELSE [market EXCEPT !.totalNoRisk = @ + risk]
<1>3. market' = SetQuotedFromMid(traded, mid)
  BY DEF Trade, ApplyTradeImpact
<1>4. traded = [status |-> market.status, winningOutcome |-> market.winningOutcome,
                impactLiquidity |-> market.impactLiquidity,
                seedMidYes |-> market.seedMidYes, minMidYes |-> market.minMidYes,
                maxMidYes |-> market.maxMidYes, fairMidYes |-> market.fairMidYes,
                yesPrice |-> market.yesPrice, noPrice |-> market.noPrice,
                totalYesRisk |-> market.totalYesRisk + (IF outcome = YES THEN risk ELSE 0),
                totalNoRisk |-> market.totalNoRisk + (IF outcome = YES THEN 0 ELSE risk)]
  <2>1. CASE outcome = YES
    BY <1>1, <2>1 DEF TypeOK, Books
  <2>2. CASE outcome # YES
    BY <1>1, <2>2 DEF TypeOK, Books
  <2> QED
    BY <2>1, <2>2
<1> HIDE DEF traded
<1>5. ClampMid(traded, mid) = mid
  <2>1. /\ market.minMidYes \in Int /\ market.maxMidYes \in Int
        /\ traded.minMidYes = market.minMidYes /\ traded.maxMidYes = market.maxMidYes
    BY <1>1, <1>4 DEF TypeOK, Books
  <2> QED
    BY <1>2, <2>1 DEF ClampMid
<1> QED
  BY <1>3, <1>4, <1>5, ZenonT(60) DEF SetQuotedFromMid

\* A market as its constructor and open() leave it.
LEMMA InitBook == Init => BookInv
<1> SUFFICES ASSUME NEW seed \in Seeds, NEW managed \in PoolSizes,
                    market = Opened(Construct(seed, managed))
             PROVE  BookInv
  BY DEF Init
<1>1. seed \in MIN_PRICE..MAX_PRICE /\ managed \in Nat
  BY TradeAssumption
<1>2. /\ MinMid(seed) \in MIN_PRICE..seed /\ MaxMid(seed) \in seed..MAX_PRICE
      /\ seed \in 1..PRICE_SCALE - 1 /\ PRICE_SCALE - seed \in 1..PRICE_SCALE - 1
  BY <1>1, BandAroundSeed, ScaleAssumption, BookAssumption
<1>3. SizeBook(managed) \in Nat \ {0}
  <2>1. managed \div IMPACT_DEPTH_DIVISOR \in Nat
    BY <1>1, BookAssumption, DivBounds
  <2> QED
    BY <2>1, BookAssumption DEF SizeBook
<1>4. /\ Quoted(seed) \in seed..PRICE_SCALE - 1
      /\ Quoted(PRICE_SCALE - seed) \in PRICE_SCALE - seed..PRICE_SCALE - 1
  BY <1>2, QuotedBounds
<1> DEFINE fresh == [NoMarket EXCEPT !.status = "Created", !.impactLiquidity = SizeBook(managed),
                                     !.seedMidYes = seed, !.minMidYes = MinMid(seed),
                                     !.maxMidYes = MaxMid(seed)]
<1>5. ClampMid(fresh, seed) = seed
  <2>1. fresh.minMidYes = MinMid(seed) /\ fresh.maxMidYes = MaxMid(seed)
    BY DEF NoMarket
  <2> HIDE DEF fresh
  <2> QED
    BY <2>1, <1>1, <1>2, BookAssumption, ScaleAssumption DEF ClampMid
<1>6. market = [status |-> "Open", winningOutcome |-> Unset,
                impactLiquidity |-> SizeBook(managed), seedMidYes |-> seed,
                minMidYes |-> MinMid(seed), maxMidYes |-> MaxMid(seed), fairMidYes |-> seed,
                yesPrice |-> Quoted(seed), noPrice |-> Quoted(PRICE_SCALE - seed),
                totalYesRisk |-> 0, totalNoRisk |-> 0]
  <2>1. Construct(seed, managed) =
          [fresh EXCEPT !.fairMidYes = seed, !.yesPrice = Quoted(seed),
                        !.noPrice = Quoted(PRICE_SCALE - seed)]
    BY <1>5 DEF Construct, SetQuotedFromMid
  <2> QED
    BY <2>1, ZenonT(60) DEF Opened, NoMarket
<1>7. market \in Books
  BY <1>1, <1>2, <1>3, <1>4, <1>6, ScaleAssumption, BookAssumption DEF Books
<1> QED
  BY <1>2, <1>6, <1>7, ScaleAssumption, BookAssumption DEF BookInv, TypeOK

\* Every trade keeps the mid in its band and the quotes in step with it.
LEMMA TradeKeepsBook == BookInv /\ [Next]_market => BookInv'
<1> SUFFICES ASSUME BookInv, Next PROVE BookInv'
  BY DEF BookInv, TypeOK
<1>1. PICK outcome \in Outcomes, risk \in Risks : Trade(outcome, risk)
  BY DEF Next
<1> DEFINE mid == ClampMid(market, MovedMid(market, outcome, risk))
<1>2. TypeOK /\ risk \in Nat
  BY TradeAssumption DEF BookInv
<1>3. mid \in market.minMidYes..market.maxMidYes
  BY <1>2, MovedMidInBand
<1>4. market' = [status |-> market.status, winningOutcome |-> market.winningOutcome,
                 impactLiquidity |-> market.impactLiquidity,
                 seedMidYes |-> market.seedMidYes, minMidYes |-> market.minMidYes,
                 maxMidYes |-> market.maxMidYes, fairMidYes |-> mid,
                 yesPrice |-> Quoted(mid), noPrice |-> Quoted(PRICE_SCALE - mid),
                 totalYesRisk |-> market.totalYesRisk + (IF outcome = YES THEN risk ELSE 0),
                 totalNoRisk |-> market.totalNoRisk + (IF outcome = YES THEN 0 ELSE risk)]
  BY <1>1, TradeEffect
<1> HIDE DEF mid
<1>5. /\ mid \in 1..PRICE_SCALE - 1
      /\ Quoted(mid) \in 1..PRICE_SCALE - 1 /\ Quoted(PRICE_SCALE - mid) \in 1..PRICE_SCALE - 1
  BY <1>2, <1>3, BandQuotable
<1>6. market' \in Books
  BY <1>2, <1>4, <1>5, ScaleAssumption DEF TypeOK, Books
<1>7. /\ market'.seedMidYes = market.seedMidYes
      /\ market'.minMidYes = market.minMidYes /\ market'.maxMidYes = market.maxMidYes
      /\ market'.fairMidYes = mid
      /\ market'.yesPrice = Quoted(mid) /\ market'.noPrice = Quoted(PRICE_SCALE - mid)
  BY <1>4
<1> QED
  BY <1>2, <1>3, <1>6, <1>7 DEF BookInv, TypeOK

\* The book stays within its band and quotes from its mid.
THEOREM BookInvariant == Spec => []BookInv
<1> QED
  BY InitBook, TradeKeepsBook, PTL DEF Spec

\* The type invariant of the book.
THEOREM BookTypeCorrect == Spec => []TypeOK
<1>1. BookInv => TypeOK
  BY DEF BookInv
<1> QED
  BY <1>1, BookInvariant, PTL

---------------------------------------------------------------------------
(* The properties of the book. *)

\* README "Book economics": no reachable book state quotes a side below its
\* seed fair value, under any sequence of legal trades.
THEOREM BookNeverBelowSeedFair == Spec => []NeverBelowSeedFair
<1>1. BookInv => NeverBelowSeedFair
  <2> SUFFICES ASSUME BookInv PROVE NeverBelowSeedFair
    OBVIOUS
  <2> DEFINE seed == market.seedMidYes
             mid == market.fairMidYes
  <2>1. seed \in MIN_PRICE..MAX_PRICE /\ mid \in MinMid(seed)..MaxMid(seed)
    BY DEF BookInv, TypeOK, Books
  <2>2. /\ market.yesPrice = Quoted(mid) /\ market.noPrice = Quoted(PRICE_SCALE - mid)
        /\ market.yesPrice \in Int /\ market.noPrice \in Int
    BY ScaleAssumption DEF BookInv, TypeOK, Books
  <2> HIDE DEF seed, mid
  <2>3. /\ MinMid(seed) \in MIN_PRICE..seed /\ MaxMid(seed) \in seed..MAX_PRICE
        /\ Quoted(MinMid(seed)) >= seed
        /\ Quoted(PRICE_SCALE - MaxMid(seed)) >= PRICE_SCALE - seed
    BY <2>1, BandAroundSeed
  <2>4. /\ MinMid(seed) \in 1..PRICE_SCALE - 1 /\ mid \in Nat
        /\ PRICE_SCALE - MaxMid(seed) \in 1..PRICE_SCALE - 1 /\ PRICE_SCALE - mid \in Nat
        /\ MinMid(seed) <= mid /\ PRICE_SCALE - MaxMid(seed) <= PRICE_SCALE - mid
    BY <2>1, <2>3, ScaleAssumption, BookAssumption
  <2>5. /\ Quoted(MinMid(seed)) <= Quoted(mid)
        /\ Quoted(PRICE_SCALE - MaxMid(seed)) <= Quoted(PRICE_SCALE - mid)
    BY <2>4, QuotedMonotone
  <2>6. Quoted(MinMid(seed)) \in Int /\ Quoted(PRICE_SCALE - MaxMid(seed)) \in Int
    BY <2>4, QuotedBounds
  <2>7. seed \in Int /\ PRICE_SCALE \in Int
    BY <2>1, ScaleAssumption, BookAssumption
  <2> QED
    BY <2>2, <2>3, <2>5, <2>6, <2>7 DEF NeverBelowSeedFair, seed
<1> QED
  BY <1>1, BookInvariant, PTL

\* The two sides together never cost less than they can pay at boost 1x.
THEOREM BookMarginNeverNegative == Spec => []MarginIsNeverNegative
<1>1. BookInv => MarginIsNeverNegative
  <2> SUFFICES ASSUME BookInv PROVE MarginIsNeverNegative
    OBVIOUS
  <2> DEFINE mid == market.fairMidYes
  <2>1. /\ market.yesPrice = Quoted(mid) /\ market.noPrice = Quoted(PRICE_SCALE - mid)
        /\ mid \in 1..PRICE_SCALE - 1 /\ PRICE_SCALE - mid \in 1..PRICE_SCALE - 1
    BY BandQuotable DEF BookInv, TypeOK
  <2> HIDE DEF mid
  <2>2. /\ Quoted(mid) \in mid..PRICE_SCALE - 1
        /\ Quoted(PRICE_SCALE - mid) \in PRICE_SCALE - mid..PRICE_SCALE - 1
    BY <2>1, QuotedBounds
  <2> QED
    BY <2>1, <2>2, ScaleAssumption DEF MarginIsNeverNegative
<1> QED
  BY <1>1, BookInvariant, PTL

\* A purchase moves both quotes against the next buyer of the same side,
\* never in its favour.
THEOREM BuyingMovesAgainstBuyer == Spec => BuyingNeverLowersItsPrice
<1>1. BookInv /\ BookInv' /\ [Next]_market =>
        [/\ market'.totalYesRisk > market.totalYesRisk =>
              market'.yesPrice >= market.yesPrice /\ market'.noPrice <= market.noPrice
         /\ market'.totalNoRisk > market.totalNoRisk =>
              market'.noPrice >= market.noPrice /\ market'.yesPrice <= market.yesPrice]_market
  <2> SUFFICES ASSUME BookInv, BookInv', Next
               PROVE  /\ market'.totalYesRisk > market.totalYesRisk =>
                           market'.yesPrice >= market.yesPrice /\ market'.noPrice <= market.noPrice
                      /\ market'.totalNoRisk > market.totalNoRisk =>
                           market'.noPrice >= market.noPrice /\ market'.yesPrice <= market.yesPrice
    OBVIOUS
  <2>1. PICK outcome \in Outcomes, risk \in Risks : Trade(outcome, risk)
    BY DEF Next
  <2> DEFINE before == market.fairMidYes
             after == ClampMid(market, MovedMid(market, outcome, risk))
  <2>2. /\ market'.fairMidYes = after
        /\ outcome # YES => market'.totalYesRisk = market.totalYesRisk
        /\ outcome = YES => market'.totalNoRisk = market.totalNoRisk
    <3>1. PICK mid : mid = after
      OBVIOUS
    <3>2. market' = [status |-> market.status, winningOutcome |-> market.winningOutcome,
                     impactLiquidity |-> market.impactLiquidity,
                     seedMidYes |-> market.seedMidYes, minMidYes |-> market.minMidYes,
                     maxMidYes |-> market.maxMidYes, fairMidYes |-> mid,
                     yesPrice |-> Quoted(mid), noPrice |-> Quoted(PRICE_SCALE - mid),
                     totalYesRisk |-> market.totalYesRisk + (IF outcome = YES THEN risk ELSE 0),
                     totalNoRisk |-> market.totalNoRisk + (IF outcome = YES THEN 0 ELSE risk)]
      BY <2>1, <3>1, TradeEffect
    <3> HIDE DEF after
    <3> QED
      BY <3>1, <3>2 DEF BookInv, TypeOK, Books
  <2>3. /\ before \in Nat /\ before \in market.minMidYes..market.maxMidYes
        /\ market.minMidYes \in Nat /\ market.maxMidYes \in Nat
        /\ PRICE_SCALE - before \in Nat
    BY BookAssumption, ScaleAssumption, SMT DEF BookInv, TypeOK, Books
  <2>4. Impact(market, risk) \in Nat /\ after \in market.minMidYes..market.maxMidYes
    BY MovedMidInBand, TradeAssumption DEF BookInv
  <2>5. outcome = YES => before <= after
    BY <2>3, <2>4, SMT DEF ClampMid, MovedMid
  <2>6. outcome # YES => after <= before
    BY <2>3, <2>4, SMT DEF ClampMid, MovedMid
  <2>7. /\ market.yesPrice = Quoted(before) /\ market.noPrice = Quoted(PRICE_SCALE - before)
        /\ market'.yesPrice = Quoted(after) /\ market'.noPrice = Quoted(PRICE_SCALE - after)
        /\ market.totalYesRisk \in Int /\ market.totalNoRisk \in Int
    BY <2>2, SMT DEF BookInv, TypeOK, Books
  <2> HIDE DEF before, after
  <2>8. after \in Nat /\ PRICE_SCALE - after \in Nat
    <3>1. market.maxMidYes <= MAX_PRICE
      BY BookAssumption, ScaleAssumption, SMT DEF BookInv, TypeOK, Books
    <3> QED
      BY <2>3, <2>4, <3>1, BookAssumption, ScaleAssumption, SMT
  <2>9. CASE outcome = YES
    <3>1. Quoted(before) <= Quoted(after)
      BY <2>3, <2>8, <2>5, <2>9, QuotedMonotone
    <3>2. Quoted(PRICE_SCALE - after) <= Quoted(PRICE_SCALE - before)
      BY <2>3, <2>8, <2>5, <2>9, QuotedMonotone, ScaleAssumption
    <3> QED
      BY <2>2, <2>7, <2>9, <3>1, <3>2
  <2>10. CASE outcome # YES
    <3>1. Quoted(after) <= Quoted(before)
      BY <2>3, <2>8, <2>6, <2>10, QuotedMonotone
    <3>2. Quoted(PRICE_SCALE - before) <= Quoted(PRICE_SCALE - after)
      BY <2>3, <2>8, <2>6, <2>10, QuotedMonotone, ScaleAssumption
    <3> QED
      BY <2>2, <2>7, <2>10, <3>1, <3>2
  <2> QED
    BY <2>9, <2>10
<1> QED
  BY <1>1, BookInvariant, PTL DEF Spec, BuyingNeverLowersItsPrice

=============================================================================
