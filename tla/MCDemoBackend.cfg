SPECIFICATION DemoSpec
CONSTANTS
    Configs <- ServerYamls
    Builds <- OrtBuilds
    Calls = {c1}
INVARIANT BackendIsTruth
CHECK_DEADLOCK FALSE
