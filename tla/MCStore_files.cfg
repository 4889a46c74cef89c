SPECIFICATION Spec
CONSTANTS
    Jobs = {j1, j2}
    Processes = {p1, p2}
    NoJob = NoJob
    NoProcess = NoProcess
    Keep = 0
    MaxLog = 1
    MaxCrashes = 1
SYMMETRY Symmetric
INVARIANTS TypeOK IndexCatchesUp OrphansHaveACause ReadersSeeWhole
PROPERTY OnlyFinishedAreDropped
CHECK_DEADLOCK FALSE
