SPECIFICATION Spec
CONSTANTS
  d1 = d1
  d2 = d2
  d3 = d3
  r1 = r1
  Docs = {d1, d2, d3}
  Readers = {r1}
  MaxPolls = 4
  None = None
PROPERTY PollsSeeLatest
CHECK_DEADLOCK FALSE
