SPECIFICATION FairSpec
CONSTANTS
  i1 = i1
  a = a
  v = v
  c1 = c1
  Instance = {i1, i2}
  Caller = {c1, c2}
  Key = {a, b}
  Value = {v, w}
  Tag = {t}
  None = None
  TTL = {1, 2}
  MaxLocal = 2
  MaxOperations = 3
  MaxFaults = 1
CONSTRAINT OneInstanceOrOneKey
ACTION_CONSTRAINT FirstCalls
INVARIANTS
  TypeOK
  IndexCovers
  IndexesExpire
  OnlyForeignWritesUnseen
PROPERTIES
  FailedDeletesRepeated
  InvalidatedLeave
CHECK_DEADLOCK FALSE
