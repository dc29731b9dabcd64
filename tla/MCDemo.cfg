\* Two calls, so that one may find the jobs another has left in the pool.
SPECIFICATION FairSpec
CONSTANTS
    Configs <- ServerYamls
    Builds <- OrtBuilds
    Calls = {c1, c2}
INVARIANTS TypeOK ServesTheConfig OrderlyShutdown PanelsMatch
PROPERTIES CompareAnswered ShutdownCompletes
CHECK_DEADLOCK FALSE
