SPECIFICATION Spec
CONSTANTS
    Regions = {r1, r2}
    Tasks = {t1, t2}
    Obligations = {o1, o2}
    NumFinalizers = 0
    CancelKinds = {5}
    MaxChildren = 2
    MaxTasks = 2
    MaxObligations = 2
    LeakResponse = "Recover"
    EscalateAfter = 2
    EscalateTo = "Panic"
    None = None
SYMMETRY Symmetry
INVARIANTS ObligationAccounting QuiescentClose
CHECK_DEADLOCK FALSE
