SPECIFICATION Spec
CONSTANTS
  phone = phone
  r1 = r1
  r2 = r2
  r3 = r3
  Devices = {phone}
  Requests = {r1, r2, r3}
  AbortBudget = 1
  None = None
SYMMETRY Symmetry
INVARIANTS TypeOK SweepsAreComplete OneSuccessor SuspensionHolds
CHECK_DEADLOCK FALSE
