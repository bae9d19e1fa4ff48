SPECIFICATION Spec
CONSTANTS
    NumWorkers = 2
    Threads = {x}
    Tasks = {t1, t2}
    Pinned = {}
    ReactorFails = FALSE
INVARIANTS IoWatched
CHECK_DEADLOCK FALSE
