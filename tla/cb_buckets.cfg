\* Two buckets: a late completion is dropped when its bucket has moved on.
CONSTANTS
    Req = {r1, r2, r3}
    NoReq = NoReq
    Strategy = "ErrorRatio"
    ProbeNums = {0, 2}
    RetryTimeout = 1
    MinRequestAmount = 1
    ThresholdNum = 1
    ThresholdDen = 2
    BucketCount = 2
    BucketLen = 1
    StartTime = 2
    MaxTime = 4
    MaxEntries = 3
SYMMETRY ReqSymmetry
SPECIFICATION ReloadSpec
INVARIANTS  BoundedOutage 
CHECK_DEADLOCK FALSE
