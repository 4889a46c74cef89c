SPECIFICATION Spec
CONSTANTS
    MaxServers = 2
    MaxCalls = 2
    MaxDescendants <- MCDescendants
    Limit = 5
    ConnectTimeout = 2
    CallTimeout = 1
    CloseTimeout = 1
    ChildTimeout = 1
    Grace = 1
INVARIANTS
    TypeOK
    OverrunHasACause
    TimedOutIsGone
    ServersAreKnown
CHECK_DEADLOCK FALSE
