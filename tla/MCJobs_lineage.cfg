SPECIFICATION Spec
CONSTANTS
    Jobs = {j1, j2, j3}
    Workers = {w1, w2}
    Clients = {c1, c2}
    None = None
    Keep = 1
    AllowRelaunch = FALSE
    AllowClientCrash = FALSE
SYMMETRY Symmetry
INVARIANT LineageExclusive
PROPERTIES
    VerdictIsFinal
CHECK_DEADLOCK FALSE
