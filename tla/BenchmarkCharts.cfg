\* generate_report.py:85 against the charts that are drawn next: one sub-run
\* that fails is enough.
SPECIFICATION Spec
CONSTANTS
    Scenarios = {"A", "B", "C", "D", "E"}
    Workers = {w1, w2}
    SubRuns = 2
    MaxWarm = 1
    MaxSent = 2
    MaxLate = 1
    NoOne = NoOne
INVARIANT SweepSurvives
CHECK_DEADLOCK FALSE
