SPECIFICATION Spec
CONSTANTS
    StrictAppKit = FALSE
CHECK_DEADLOCK FALSE
INVARIANTS
    OneBurnPerClick
