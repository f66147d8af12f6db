SPECIFICATION Spec
CONSTANTS
  Hook = {h1}
  QueryKind = {"project", "projects", "calculations", "spatial"}
  Project = {p1}
  Segment = {}
  Calculation = {k1}
  Layer = {l1}
  Content = {v1, v2}
  None = None
  MaxTransactions = 4
  MaxMarked = 0
  MaxRetries = 0
SYMMETRY Symmetry
INVARIANT TypeOK
INVARIANT OwnWritesVisible
PROPERTY ServesStore
