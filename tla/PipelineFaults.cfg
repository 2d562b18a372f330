SPECIFICATION Spec
CONSTANTS
  Docs = {d1}
  Requests = {r1, r2}
  Workers = {w1, w2}
  JobIds = {j1, j2}
  MaxRetries = 1
  SchedulerRunning = TRUE
  FaultBudget <- OneOfEach
  None = None
SYMMETRY Symmetry
ACTION_CONSTRAINT TwoFaults
INVARIANTS TypeOK OneGeneration CountedOnce FreshReadyHasChunks
PROPERTIES OnlyOvertakingStrands ImplementsDisturbedLifecycle
CHECK_DEADLOCK FALSE
