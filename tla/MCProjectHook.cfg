SPECIFICATION HookSpec
CONSTANTS
  Client = {c1}
  Project = {p1, p2}
  Duct = {d1}
  Fitting = {f1}
  Segment = {d1, f1}
  Calculation = {}
  Layer = {}
  Content = {v1, v2}
  None = None
  MaxTransactions = 6
  MaxMarked = 0
  MaxRetries = 0
SYMMETRY Symmetry
CHECK_DEADLOCK FALSE
INVARIANT TypeOK
INVARIANT NoOrphanedSegments
INVARIANT AcknowledgedSaveReplicated
INVARIANT ShowsWhatIsStored
PROPERTY ShowsOnlySaved
