CONSTANTS
    Threshold = 3
    Cooldown = 3
    Caller = {c1, c2, c3, c4}
SPECIFICATION LiveSpec
INVARIANTS
    TypeOK
    ClosedIffBelowThreshold
    GaugeTellsState
PROPERTIES
    OpenHolds
    OpenIsEventuallyProbed
