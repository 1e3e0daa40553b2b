SPECIFICATION Spec
CONSTANTS
    Codes = 2
    Logins = 2
    Busy = 2
    MaxAttempts = 1
    MaxRequests = 2
    Strategies = 2
    MaxWindows = 1
    LoginFaults = 2
    Blocks = 2
    Recent = 1
    Readers = {r1, r2}
    Winners = {"YES"}
    ReadFaults = 0
    Full = {v1, v2}
    Lite = {v3}
    FeedWorkers = {w1}
    Lag = 1
    Life = 1
    StaleMax = 3
    TickMax = 2
    Fresh = 1
    MaxTime = 2
    MaxRestarts = 1
    Lists = {l1}
    Routes = {o1, o2}
    MaxAge = 3
    Retained = 2
    Reach = 1
    ReadingAge = 1
    Interval = 15
    Slack = 5
    Stale = 20
    Lead = 2
    Procs = {process}
    Tours = {process}
    MaxRounds = 2
    Nobody = Nobody
    Crashed = Crashed
    StoreMayFail = TRUE
    MaxIncidents = 0
    Emails = {ann, bob}
    Old = {ann}
    Orders = 1
    MaxKeys = 2
    MaxLogouts = 1
    KeyFaults = 1
CONSTRAINT Explored
CHECK_DEADLOCK FALSE
INVARIANTS
    TypeOK
    CodesAreSafe
    WalletsAreSafe
    PortfolioIsComplete
    FeedIsSound
    OneRoundAtATime
PROPERTIES
    PricesAreKept
