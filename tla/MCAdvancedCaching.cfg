SPECIFICATION Spec
CONSTANTS
  Caller = {c1, c2}
  Key = {a, b, c}
  small = small
  large = large
  Value = {small, large}
  None = None
  Size <- MCSize
  MaxMemory = 2
  TTL = {2}
  MaxTime = 5
CONSTRAINT NoTimeOrOneKey
SYMMETRY Symmetry
INVARIANTS
  TypeOK
  OrderIsOfCachedKeys
  OverrunIsBounded
  QuietKeysFresh
  ServedWithinTwoLives
CHECK_DEADLOCK FALSE
