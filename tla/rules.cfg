SPECIFICATION Spec
CONSTANTS
    Kinds = {"flow", "isolation", "hotspot", "breaker", "system", "token"}
    Resource = {"a", "ab", "("}
    Match <- MCMatch
    Malformed = {"("}
    DefaultPattern = "a"
    Rules <- MCRules
    Readers = {q1, q2}
    Asked = {"a"}
    MaxLoads = 2
    MaxLen = 2
SYMMETRY Symmetry
INVARIANT LoadedIsEnforced
INVARIANT LatestLimitCounts
INVARIANT ReloadKeepsControllers
INVARIANT LookupIsRegular
INVARIANT OneSetOfControllers
 
CHECK_DEADLOCK FALSE
