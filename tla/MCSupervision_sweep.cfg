SPECIFICATION FairSpec
CONSTANTS
    Bridge = bridge
    Pollers = {bridge, op}
    Sweepers = {s1}
    BridgeBound = 2
    OperatorBound = 1
    Bound <- MCBound
    DefaultBound = 3
    Slack = 2
    Grace = 2
    Delay = 1
    FirstDelay = 3
    Lost = 1
PROPERTIES
    SupervisedIsNotKilled
    CrashIsSeen
    OrphanedJobEnds
CHECK_DEADLOCK FALSE
