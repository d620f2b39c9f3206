CONSTANTS
    Req = {r1, r2, r3, r4}
    Rules <- MCRules
    Batches = {1}
    Mems <- MCMems
    StatInterval = 2
    BucketLen = 1
    StartTime = 10
    MaxTime = 14
    Parallel = 2
    Huge = 64
SPECIFICATION Spec
SYMMETRY Symmetry
 
 
INVARIANT SpacedUnlessOvertaken
CHECK_DEADLOCK FALSE
