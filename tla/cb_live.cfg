\* A breaker with the default probe number and the default single bucket.
CONSTANTS
    Req = {r1, r2}
    NoReq = NoReq
    Strategy = "ErrorRatio"
    ProbeNums = {0}
    RetryTimeout = 1
    MinRequestAmount = 1
    ThresholdNum = 1
    ThresholdDen = 2
    BucketCount = 1
    BucketLen = 2
    StartTime = 2
    MaxTime = 4
    MaxEntries = 4
SPECIFICATION FairSpec
PROPERTIES HalfOpenTemporary RefinesSingleProbe
CHECK_DEADLOCK FALSE
