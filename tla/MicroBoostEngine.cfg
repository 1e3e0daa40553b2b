SPECIFICATION Spec
CONSTANTS
    l1 = l1
    l2 = l2
    u1 = u1
    u2 = u2
    m1 = m1
    m2 = m2
    LPs = {l1, l2}
    Traders = {u1, u2}
    Markets = {m1, m2}
    Pool = "pool"
    Router = "router"
    Insurance = "insurance"
    Treasury = "treasury"
    MaxTickets = 2
    MaxTime = 2
    Schedule <- MCSchedule
    Seeds = {40}
    Risks = {5}
    Boosts = {150}
    Deposits = {11}
    ShareLots = {}
    Wallets <- MCWallets
    FirstSplit <- Deployed
    FeeSplits <- MCFeeSplits
    MIN_USER_RISK_PER_TICKET = 2
    MAX_USER_RISK_PER_TICKET = 6
    MAX_PAYOUT_PER_TICKET = 20
    MAX_BOOST_BPS = 200
    CAP_BPS = 80
    PRICE_SCALE = 100
    BPS = 100
    BASE_FEE_BPS = 25
    BOOST_FEE_BPS = 50
    MIN_PRICE = 5
    MAX_PRICE = 95
    OVERROUND_BPS = 108
    MAX_IMPACT = 12
    MAX_MID_DRIFT_BPS = 7
    IMPACT_DEPTH_DIVISOR = 20
    MIN_IMPACT_LIQUIDITY = 20
INVARIANTS
    TypeOK
    BooksReconcile
    EveryTicketIsPayable
    VerdictsAreFinal
    AdvertisedBoostIsAffordable
PROPERTIES
    SettlementSparesFreeLiquidity
    SharesAreNeverDiluted
    KeepsPromises
SYMMETRY MCSymmetry
