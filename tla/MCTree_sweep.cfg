SPECIFICATION TreeSpec
CONSTANTS
    w = w
    b = b
    g = g
    Worker = w
    Adopter = Adopter
    Pids = {w, b, g, p1}
    Tree <- MCTree
    Leads <- MCLeads
    Forks = TRUE
    LateReuse = FALSE
    Intact = FALSE
SYMMETRY Symmetry
INVARIANTS
    TargetsAreGone
    NoStrangerHit
CHECK_DEADLOCK FALSE
