\* Two requests and two entries of the registry, of the same metadata or not,
\* with every configuration; the cache holds fewer than the distinct keys.
SPECIFICATION FairSpec
CONSTANTS
    Requests = {r1, r2}
    Models = {bert, distil}
    t1 = t1
    t2 = t2
    Texts = {t1, t2}
    fp32 = fp32
    int8 = int8
    Metadata = {fp32, int8}
    Bodies <- OneOrMore
    QueueMax = 1
    MaxBatch = 2
    Capacity = 2
    Configs <- AllConfigs
INVARIANTS TypeOK RepliesAligned CacheSound HitMeansNoWork
PROPERTIES EveryRequestAnswered LinesDrain
CHECK_DEADLOCK FALSE
