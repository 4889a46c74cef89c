SPECIFICATION Spec
CONSTANTS
    MaxSteers = 1
    MaxTurns = 1
    MaxRuns = 3
    MayTear = TRUE
    MayFault = FALSE
INVARIANTS
    ThreadStaysReadable
CHECK_DEADLOCK FALSE
