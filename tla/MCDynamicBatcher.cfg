\* A queue of 3 for 5 calls (some are refused), batches of 1 or 2 growing to 3.
SPECIFICATION Spec
CONSTANTS
    Items = {i1, i2, i3, i4, i5}
    QueueMax = 3
    InitBatch = 1
    CtlMaxBatch = 3
    BatchStep = 2
SYMMETRY CallSymmetry
INVARIANTS TypeOK WaiterReachable ServedOnce WithinLimits HistogramAccounts
PROPERTIES BacklogDrained NoBatchAfterStop ServiceSpec
