SPECIFICATION FairSpec
CONSTANTS
  x = x
  s = s
  Analyses = {x, s}
  Kind <- ExtractionAndSummary
  Corrections = {c1}
  MaxRetries = 1
  FaultBudget <- OneOfEach
  None = None
INVARIANTS TypeOK OutputIffCompleted
PROPERTIES OutcomeIsFinal FoundIsSettled
CHECK_DEADLOCK FALSE
