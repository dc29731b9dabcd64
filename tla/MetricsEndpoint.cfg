SPECIFICATION Spec
CONSTANTS
    MaxBatch = 2
    Capacity = 1
    MaxBatches = 3
    MaxTicks = 2
    MaxLookups = 2
INVARIANTS AverageInRange CacheSnapshot KnobsExplained
