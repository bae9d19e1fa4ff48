SPECIFICATION FairSpec
CONSTANTS
    Callers = {c1, c2, c3}
    Workers = {w1, w2}
    CancelPaths = {"waker", "inject_cancel"}
    MaxEntries = 4
INVARIANTS FutureInOnePlace NoLostWake CancelPromoted SingleEntry
PROPERTIES EventuallyPolled
CHECK_DEADLOCK FALSE
