SPECIFICATION Spec
CONSTANTS
    Regions = {r1, r2, r3}
    Tasks = {t1, t2}
    Obligations = {}
    NumFinalizers = 0
    CancelKinds = {0}
    MaxChildren = 2
    MaxTasks = 2
    MaxObligations = 0
    LeakResponse = "Log"
    EscalateAfter = 0
    EscalateTo = "Log"
    None = None
SYMMETRY Symmetry
INVARIANTS TreeConsistent CancelReachesSubtree
    CloseOutcomeDominates
PROPERTIES CancelMonotone
CHECK_DEADLOCK FALSE
