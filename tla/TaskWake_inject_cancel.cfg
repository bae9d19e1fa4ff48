SPECIFICATION Spec
CONSTANTS
    Callers = {c1, c2}
    Workers = {w1}
    CancelPaths = {"inject_cancel"}
    MaxEntries = 3
INVARIANTS InjectCancelPromoted
CHECK_DEADLOCK FALSE
