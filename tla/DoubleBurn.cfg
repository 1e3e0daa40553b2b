SPECIFICATION Spec
CONSTANTS
    k1 = k1
    k2 = k2
    k3 = k3
    Keys = {k1}
    SignedKeys = {k1}
    Nonces = {1, 2, 3}
    Last = 3
    Busy = 2
    Cap = 2
    MaxFaults = 0
CHECK_DEADLOCK FALSE
INVARIANTS
    RetryBurnsOnce
