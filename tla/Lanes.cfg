SPECIFICATION Spec
CONSTANTS
    BaseLimits = {0, 2}
    TimedLimit = 2
    FastLimit = 2
    HandoffLimits = {0, 2}
INVARIANTS CancelBound CancelResumes TimedBound StolenBound CertificateHolds
