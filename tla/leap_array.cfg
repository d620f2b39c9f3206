\* Two goroutines over two turns of the ring; delays up to the other bucket's span.
CONSTANTS
    Gor = {g1, g2}
    NoGor = NoGor
    BucketCount = 2
    BucketLen = 2
    StartTime = 5
    MaxTime = 10
    MaxOps = 4
    MaxLag = 2
SPECIFICATION FairSpec
INVARIANTS FirstCycleExact
PROPERTIES NeverRewound Returns
CHECK_DEADLOCK FALSE
