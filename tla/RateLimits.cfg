SPECIFICATION Spec
CONSTANTS
  r1 = r1
  r2 = r2
  r3 = r3
  Requests = {r1, r2, r3}
  Capacity <- SmallCapacity
  Period <- SmallPeriod
  Threshold = 2
  Window = 3
  Cooldown = 2
  MaxLag = 1
  MaxAge = 3
  FaultBudget = 1
  Forever = Forever
SYMMETRY Symmetry
INVARIANTS TypeOK AdmissionsAreBounded RetryAfterIsEnough ExcessOverlaps CountersLapse
CHECK_DEADLOCK FALSE
