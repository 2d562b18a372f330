SPECIFICATION Spec
CONSTANTS
  d1 = d1
  d2 = d2
  g1 = g1
  g2 = g2
  g3 = g3
  r1 = r1
  r2 = r2
  Docs = {d1, d2}
  TagIds = {g1, g2, g3}
  NameOf <- NameValues
  Requests = {r1, r2}
  Size <- SizeValues
  Quota = 4
  DocumentLimit = 1
  Lists <- ListValues
  TagSets <- TagSetValues
  AbortBudget = 1
  None = None
SYMMETRY Symmetry
INVARIANTS TypeOK UsageIsExact TagsAreConsistent NoDeadlockedUpload
PROPERTY PatchReplacesTags
CHECK_DEADLOCK FALSE
