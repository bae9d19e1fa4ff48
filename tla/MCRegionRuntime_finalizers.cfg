SPECIFICATION FairSpec
CONSTANTS
    Regions = {r1, r2}
    Tasks = {t1}
    Obligations = {o1}
    NumFinalizers = 2
    CancelKinds = {0}
    MaxChildren = 2
    MaxTasks = 1
    MaxObligations = 1
    LeakResponse = "Panic"
    EscalateAfter = 0
    EscalateTo = "Panic"
    None = None
INVARIANTS FinalizersTracked NoStrandedRegion
PROPERTIES FinalizersLIFO CancelledRegionCloses ImplementsPromise
CHECK_DEADLOCK FALSE
