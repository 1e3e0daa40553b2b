SPECIFICATION FairSpec
CONSTANTS
    p1 = p1
    Procs <- MCProcs
    Tours = {}
    MaxRounds = 2
    Nobody = Nobody
    Crashed = Crashed
    StoreMayFail = TRUE
    MaxIncidents = 0
PROPERTIES
    RoundsKeepComing
