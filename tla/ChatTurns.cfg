SPECIFICATION LaterSpec
CONSTANTS
  t1 = t1
  t2 = t2
  t3 = t3
  s1 = s1
  Turns = {t1, t2, t3}
  Stops = {s1}
  FaultBudget <- OneOfEach
  None = None
INVARIANTS TypeOK ExactlyOneAnswer NoStaleStop
PROPERTIES KeysAreFreed TurnsEnd
CHECK_DEADLOCK FALSE
