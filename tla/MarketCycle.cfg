SPECIFICATION CycleSpec
CONSTANTS
    p1 = p1
    Procs <- MCProcs
    Tours = {}
    MaxRounds = 2
    Nobody = Nobody
    Crashed = Crashed
    StoreMayFail = FALSE
    MaxIncidents = 1
PROPERTIES
    EveryRoundSettles
    RoundsKeepComing
