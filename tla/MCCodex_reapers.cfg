SPECIFICATION Spec
CONSTANTS
    None = None
    Other = other
    Lives = {l1, l2, other}
    Sessions <- MCSessions
    SessionOf <- MCSessionOf
    Jobs = {j1}
    MaxStarts <- MCMaxStarts
SYMMETRY Symmetry
INVARIANTS
    LeftoversHaveACause
PROPERTIES
    RunningLifeIsSpared
CHECK_DEADLOCK FALSE
