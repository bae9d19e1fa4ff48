SPECIFICATION FairSpec
CONSTANTS
    Senders = {s1, s2}
    Recv = r
    Capacity = 2
INVARIANTS NoLostSenderWake ClosedReleases NoLostRecvWake
PROPERTIES ImplementsChannel ReserveResolves
CHECK_DEADLOCK FALSE
