SPECIFICATION Spec
CONSTANTS
    MAX_LEVEL = 9
    LEGACY_MAX_LEVEL = 8
    Disks = {d1, d2}
    Movers = {m1}
    Queries = {q1}
    MaxBlock = 2
    MaxLevel = 1
    MaxBatch = 1
    MaxCrashes = 1
    QueryCrashes = 0
SYMMETRY Symmetric
INVARIANTS ReadableOnDisk RestartShowsActive DirectoriesKnown
CHECK_DEADLOCK FALSE
