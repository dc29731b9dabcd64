\* Two requests of a warm-up are enough; no request is late, so that the hits
\* are those of the warm-up.
SPECIFICATION Spec
CONSTANTS
    Scenarios = {"E"}
    Workers = {w1, w2}
    SubRuns = 2
    MaxWarm = 2
    MaxSent = 2
    MaxLate = 0
    NoOne = NoOne
INVARIANT HitsReflectTraffic
CHECK_DEADLOCK FALSE
