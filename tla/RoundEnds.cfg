SPECIFICATION FairSpec
CONSTANTS
    w1 = w1
    w2 = w2
    Workers = {w1, w2}
    Nobody = Nobody
    Feed <- TwoPrints
    ObsStart = 0
    ObsEnd = 1
    MaxDist = 0
    Grace = 1
    StartLead = 0
    EndLead = 0
    Lag = 1
    Retention = 10
    DirectSamples = FALSE
    LeasesMayLapse = FALSE
    MaxTime = 2
    MaxFaults = 1
PROPERTIES
    EveryRoundEnds
