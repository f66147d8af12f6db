SPECIFICATION Spec
CONSTANTS
  Hook = {h1, h2}
  QueryKind = {"project"}
  Project = {p1}
  Segment = {}
  Calculation = {}
  Layer = {}
  Content = {v1}
  None = None
  MaxTransactions = 2
  MaxMarked = 0
  MaxRetries = 0
INVARIANT InitializedIsUsable
