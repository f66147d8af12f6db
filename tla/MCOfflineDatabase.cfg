SPECIFICATION DBSpec
CONSTANTS
  Project = {p1, p2}
  Segment = {s1, s2}
  Calculation = {k1}
  Layer = {l1}
  Content = {v1, v2}
  None = None
  MaxTransactions = 3
  MaxMarked = 1
  MaxRetries = 1
SYMMETRY Symmetry

INVARIANT DBTypeOK
INVARIANT OutboxReplicates
PROPERTY UpdatesReachEntity
PROPERTY UndeliveredKept
