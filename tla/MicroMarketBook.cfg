SPECIFICATION Spec
CONSTANTS
    PRICE_SCALE = 1000000
    BPS = 100
    MIN_PRICE = 50000
    MAX_PRICE = 950000
    OVERROUND_BPS = 108
    MAX_IMPACT = 120000
    MAX_MID_DRIFT_BPS = 7
    IMPACT_DEPTH_DIVISOR = 20
    MIN_IMPACT_LIQUIDITY = 20000
    MaxTraded = 1600
    Seeds <- MCSeeds
    PoolSizes <- MCPoolSizes
    Risks <- MCRisks
INVARIANTS
    TypeOK
    NeverBelowSeedFair
PROPERTIES
    BuyingNeverLowersItsPrice
CHECK_DEADLOCK FALSE
