SPECIFICATION WorkedOnceFairSpec
CONSTANTS
  Docs = {d1}
  Requests = {r1, r2}
  Workers = {w1, w2}
  JobIds = {j1, j2, j3}
  MaxRetries = 1
  SchedulerRunning = TRUE
  FaultBudget <- OneDeadRequest
  None = None
PROPERTIES NoFlashToFailed ImplementsLifecycle EventuallySettled
CHECK_DEADLOCK FALSE
