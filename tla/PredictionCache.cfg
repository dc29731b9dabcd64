\* Four keys for three places; two values, so that an overwrite shows.
SPECIFICATION Spec
CONSTANTS
    Keys = {k1, k2, k3, k4}
    Values = {v1, v2}
    Capacity = 3
    MaxLookups = 2
INVARIANTS TypeOK MostRecentlyUsed HoldsLastWritten
