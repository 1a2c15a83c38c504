SPECIFICATION Spec
CONSTANTS
  Requests = {q1, q2}
  Pages = {p1, p2}
  Size = 2
  Depth = 1
  Points = 2
  Limits = {1, 2}
  MaxSeq = 3
  MaxSamples = 3
SYMMETRY Symmetric
CONSTRAINT Apart
INVARIANTS
  FeedsAccounted
  HistoryMeetsStream
  CountsAddUp
CHECK_DEADLOCK FALSE
