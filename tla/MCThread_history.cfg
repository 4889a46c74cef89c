SPECIFICATION Spec
CONSTANTS
    MaxSteers = 2
    MaxTurns = 1
    MaxRuns = 3
    MayTear = FALSE
    MayFault = TRUE
INVARIANTS
    TypeOK
    SteersAsSent
    RequestIsWellFormed
PROPERTIES
    HistoryOnlyGrows
    ImplementsMailbox
CHECK_DEADLOCK FALSE
