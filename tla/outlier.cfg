SPECIFICATION FairSpec
CONSTANTS
    n1 = n1
    n2 = n2
    q1 = q1
    q2 = q2
    Node <- MCNode
    Request = {q1, q2}
    Rules <- MCRules
    None = None
    Capacity = 1
    MaxBreakers = 6
    Start <- MCStart
INVARIANTS OneTimerEach BreakersFollowRule 
 
CHECK_DEADLOCK FALSE
