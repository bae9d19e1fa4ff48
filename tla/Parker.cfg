SPECIFICATION FairSpec
CONSTANTS
    Threads = {u1, u2, u3}
    Owner = w
INVARIANT PermitNotLost
PROPERTY ImplementsPermit
