SPECIFICATION FairSpec
CONSTANTS
    c1 = c1
    c2 = c2
    admin = admin
    Cycles <- MCCycles
    Callers <- MCCallers
    Nobody = Nobody
    Count = 2
    Limit = 1
    MaxChunks = 2
    MaxFaults = 2
INVARIANTS
    TypeOK
    NoTicketIsForgotten
PROPERTIES
    SettlementCompletes
