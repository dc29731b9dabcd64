\* README.md section 4.3 against the code: a timed-out item is still run.
SPECIFICATION FairSpec
CONSTANTS
    Items = {i1, i2}
    QueueMax = 2
    InitBatch = 1
    CtlMaxBatch = 1
    BatchStep = 0
PROPERTY DroppedOnTimeout
