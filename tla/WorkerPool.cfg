SPECIFICATION Spec
CONSTANTS
    NumWorkers = 2
    Threads = {x}
    Tasks = {t1, t2}
    Pinned = {t2}
    ReactorFails = TRUE
INVARIANTS TypeOK NoSleepOnWork DeadlineWatched PinnedNoticed ShutdownWakes
CHECK_DEADLOCK FALSE
