SPECIFICATION FairSpec
CONSTANTS
    r1 = r1
    r2 = r2
    r3 = r3
    Replicas = {r1, r2, r3}
    Marks <- MCMarks
    SegmentSize = 2
    MinMarks <- MCMinMarks
    Snapshots = {r1}
    Hashes <- MCHashes
    Common = {1}
    MaxFailures = 1
INVARIANTS ReadOnce NoLogicalError
PROPERTIES ReadInOrder AllRead
CHECK_DEADLOCK FALSE
