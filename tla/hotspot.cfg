SPECIFICATION Spec
CONSTANTS
  r1 = r1
  r2 = r2
  r3 = r3
  Req = {r1, r2, r3}
  Args = {"x", "y"}
  Rules <- MCRules
  Batches = {1, 2, 5}
  StartTime = 1
  MaxTime = 5
  Parallel = 2
SYMMETRY Symmetric
CHECK_DEADLOCK FALSE
INVARIANT ConcurrencyIsExact
INVARIANT ConcurrencyOvershoot
INVARIANT BurstBounded
INVARIANT ThrottledApart
