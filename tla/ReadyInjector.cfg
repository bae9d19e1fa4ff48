SPECIFICATION FairSpec
CONSTANTS
    Entries = {e1, e2, e3}
    Workers = {w1, w2}
    InFlightThreshold = 2
    BacklogThreshold = 1
    MaxBatch = 2
    MaxPop = 2
INVARIANTS OnePlace DeferralSafe NoRaceDetected CountCovers ReservationBacked
    CountersSettle
PROPERTIES EventuallyPopped
CHECK_DEADLOCK FALSE
