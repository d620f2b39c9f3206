CONSTANTS
    BucketCount = 4
    BucketLen = 1
    ViewCount = 1
    ViewInterval = 2
    StartTime = 9
    MaxTime = 15
    MaxOps = 3
    Rts = {0, 2}
    DefaultMaxRt = 3
    SecondLen = 2
    DayLen = 3
    QueueSize = 1
    MaxSingleSize = 4
    MaxFileAmount = 2
    BufferSize = 1
    MaxLogSize = 2
    MaxLogAmount = 2
    MaxItems = 8
    MaxFaults = 2
SPECIFICATION MCSpec
INVARIANTS   TokenLogKept
CHECK_DEADLOCK FALSE
