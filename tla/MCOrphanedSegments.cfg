SPECIFICATION Spec
CONSTANTS
  Client = {c1, c2}
  Project = {p1, p2}
  Duct = {d1}
  Fitting = {f1}
  Segment = {d1, f1}
  Calculation = {}
  Layer = {}
  Content = {v1, v2}
  None = None
  MaxTransactions = 4
  MaxMarked = 0
  MaxRetries = 0
CHECK_DEADLOCK FALSE
INVARIANT NoOrphanedSegments
