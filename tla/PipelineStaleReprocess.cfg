SPECIFICATION Spec
CONSTANTS
  Docs = {d1}
  Requests = {r1, r2}
  Workers = {w1, w2}
  JobIds = {j1, j2}
  MaxRetries = 1
  SchedulerRunning = TRUE
  FaultBudget <- OnlyStaleness
  None = None
SYMMETRY Symmetry
INVARIANT ReadyHasChunks
CHECK_DEADLOCK FALSE
