\* Fair event loop, unbounded queue; a controller that lowers the limit.
SPECIFICATION FairSpec
CONSTANTS
    Items = {i1, i2, i3}
    QueueMax = 0
    InitBatch = 2
    CtlMaxBatch = 1
    BatchStep = 1
PROPERTIES NoStarvation StopCompletes
