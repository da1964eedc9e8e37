\* Two keys, the default timeout and a longer one, a clock that moves both ways.
SPECIFICATION CacheSpec
CONSTANTS
    Keys = {k1, k2}
    Timeouts = {1, 2}
    Default = 1
    MaxNow = 2
    MaxIds = 3
    None = None
INVARIANTS
    Sorted
PROPERTY DueSpec
