CONSTANTS
    Request = {r1, r2, r3}
    Parallel = 2
    Rules <- MCRules
    Strategy <- MCStrategy
    CountStrategy <- MCCountStrategy
    TokenSize <- MCTokenSize
    TimeWindow <- MCTimeWindow
    Lengths = {2}
    Usages <- MCUsages
    FixedDelay = 1
    Grace = 1
    StartTime = 3
    MaxTime = 6
    MaxLag = 1
    MaxFaults = 1
SYMMETRY Symmetry
SPECIFICATION Spec
INVARIANTS  CapacityAccounted FixedWindowOvershoot
CHECK_DEADLOCK FALSE
