SPECIFICATION FairSpec
CONSTANTS
  s1 = s1
  r1 = r1
  Service = {s1}
  Caller = {c1, c2}
  Idle = Idle
  Threshold = 5
  Timeout = 1
  MaxOutages = 1
  Route = {r1}
  Backends <- MCBackends
  Requests = 2
  Window = 1
  Budget = 2
CONSTRAINT FewExtras
INVARIANTS
  TypeOK
  LessThanTwiceTheLimit
PROPERTIES
  TrippedLeavesRotation
  Recovers
CHECK_DEADLOCK FALSE
