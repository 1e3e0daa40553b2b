SPECIFICATION FairSpec
CONSTANTS
    MaxRounds = 2
    Limit = 1
    LoadFaults = 1
    Server = Server
    Client = Client
    Pollers = {p1, p2}
    MaxReads = 1
    MaxClock = 2
    Blocks = 1
    Recent = 1
    Readers = {r1, r2}
    Winners = {"YES"}
    ReadFaults = 1
    Sessions = {s1, s2}
    Account = browser
    Nobody = Nobody
    MaxActs = 3
    PageFaults = 1
CHECK_DEADLOCK FALSE
INVARIANTS
    TypeOK
    DisconnectedStaysOut
PROPERTIES
    StatusesAreTrue
    ListedRoundsAreSettled
    EveryTxEnds
    DecisionsAreShown
    BalanceIsOfTheAddress
