SPECIFICATION FairSpec
CONSTANTS
    None = None
    First = c1
    Second = c2
    s1 = s1
    s2 = s2
    Claudes = {c1, c2, c3}
    Sessions = {s1, s2}
    Hosts <- MCHosts
    Jobs = {j1}
    Budget = 1
PROPERTIES
    LiveSessionStaysRegistered
    LiveSessionKeepsJobs
    EndedSessionLeavesNoJob
CHECK_DEADLOCK FALSE
