SPECIFICATION Spec
CONSTANTS
    f = f
    g = g
    outside = outside
    dirA = dirA
    dirAB = dirAB
    dirC = dirC
    root = root
    Null = Null
    Paths = {f, g, outside}
    Confined = {f, g}
    Diffs <- MCDiffs
    Disks <- MCDisks
    Dirs <- MCDirs
    Depth <- MCDepth
    DirOf <- MCDirOf
    Touches <- MCTouches
    Root = root
    PreHooks = 2
    PostHooks = 1
    StopHooks = 2
    MaxTurns = 2
    MaxUses = 2
    PatchTurns = 1
    MaxCrashes = 1
INVARIANTS TypeOK AnsweredInOrder ObjectionsHold MemoryShownOnce WholeOrNothing OkIsTheDiff
CHECK_DEADLOCK FALSE
