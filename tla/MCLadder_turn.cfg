SPECIFICATION LadderFairSpec
CONSTANTS
    Attempts = 3
    Timeout = 2
    Margin = 1
    Base = 1
    Cap = 3
    MaxRetryAfter = 5
INVARIANTS
    WatchdogIsHarmless
    RetryAfterIsClampedFloor
PROPERTY
    SilenceEndsTheTurn
CHECK_DEADLOCK FALSE
