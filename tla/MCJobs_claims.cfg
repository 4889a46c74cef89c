SPECIFICATION FairSpec
CONSTANTS
    Jobs = {j1}
    Workers = {w1, w2, w3}
    Clients = {c1, c2}
    None = None
    Keep = 1
    AllowRelaunch = TRUE
    AllowClientCrash = TRUE
INVARIANTS
    TypeOK
    SingleExecutor
    InterruptedIsDead
PROPERTIES
    ImplementsContract
    NoStrandedJob
CHECK_DEADLOCK FALSE
