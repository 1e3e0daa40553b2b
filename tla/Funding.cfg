SPECIFICATION FundingSpec
CONSTANTS
    k1 = k1
    k2 = k2
    k3 = k3
    owner = owner
    Keys <- MCKeys
    SignedKeys <- MCSignedKeys
    Nonces = {1, 2}
    Last = 3
    Busy = 2
    Cap = 2
    MaxFaults = 1
    StrictAppKit = FALSE
    Amounts = {1, 2}
    MaxMoves = 2
    Cash = 1
    MaxIncome = 1
    Boosts = {1, 2}
    Prices = {1, 2}
    MaxBuys = 1
    Owners <- MCOwners
    Reserves = {1, 2}
    MarketCap = 2
    OutcomeCap = 1
    OwnerCap = 2
    MaxMarkets = 2
    MaxTickets = 2
CHECK_DEADLOCK FALSE
INVARIANTS
    FundingTypeOK
    BurnsAreSafe
    SecondMovesNeedALoss
    PagesTellTheTruth
PROPERTIES
    EveryLeaseComesFree
    DemoIsConsistent
