\* The shipped defaults scaled down to a few steps each: limits 3 to 6, the wait
\* from 8 down into 1 to 7; depths empty, half full, deep and saturated.
SPECIFICATION FairSpec
CONSTANTS
    InitBatch = 3
    InitWait = 8
    CtlMaxBatch = 6
    MinWait = 1
    MaxWait = 7
    BatchStep = 2
    WaitStep = 2
    SatFactor = 2
    Slo = 10
    GrowPercent = 70
    MinSamples = 2
    WindowSize = 3
    Latencies = {4, 8, 11}
    QueueDepths = {0, 2, 4, 13}
    MaxHistory = 2
INVARIANTS TypeOK WithinClamps LastDecisionInForce P95Agrees
PROPERTIES BatchNeverShrinks SaturationReachesMax ShallowReachesMinWait
