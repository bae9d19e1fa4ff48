SPECIFICATION Spec
CONSTANTS
    Regions = {r1}
    Tasks = {t1}
    Obligations = {}
    NumFinalizers = 0
    CancelKinds = {0}
    MaxChildren = 2
    MaxTasks = 1
    MaxObligations = 0
    LeakResponse = "Log"
    EscalateAfter = 0
    EscalateTo = "Log"
    None = None
INVARIANTS CloseOutcomeAgreesWithCancel
CHECK_DEADLOCK FALSE
