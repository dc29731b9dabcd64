\* Two threads and up to two requests in each of two sub-runs, after a
\* warm-up of at most one request; the server has one request at a time that
\* nobody awaits.
SPECIFICATION FairSpec
CONSTANTS
    Scenarios = {"A", "B", "C", "D", "E"}
    Workers = {w1, w2}
    SubRuns = 2
    MaxWarm = 1
    MaxSent = 2
    MaxLate = 1
    NoOne = NoOne
INVARIANTS TypeOK EachOutcomeOnce DeltaAccounts
PROPERTY Finishes
CHECK_DEADLOCK FALSE
