SPECIFICATION Spec
CONSTANTS
  Hook = {h1, h2}
  QueryKind = {"project"}
  Project = {p1, p2}
  Segment = {}
  Calculation = {}
  Layer = {}
  Content = {v1, v2}
  None = None
  MaxTransactions = 2
  MaxMarked = 0
  MaxRetries = 0
SYMMETRY Symmetry
INVARIANT OwnWritesVisible
INVARIANT AloneStaysOpen
