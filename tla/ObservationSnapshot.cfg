SPECIFICATION Spec
CONSTANTS
    w1 = w1
    w2 = w2
    Workers = {w1, w2}
    Nobody = Nobody
    Feed <- FourPrints
    ObsStart = 0
    ObsEnd = 2
    MaxDist = 1
    Grace = 1
    StartLead = 0
    EndLead = 0
    Lag = 1
    Retention = 10
    DirectSamples = TRUE
    LeasesMayLapse = FALSE
    MaxTime = 3
    MaxFaults = 1
INVARIANTS
 TypeOK
 EvidenceIsSound
PROPERTIES
 SamplingOnlyImproves
SYMMETRY MCSymmetry
