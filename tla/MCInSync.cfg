SPECIFICATION CommittedSpec
CONSTANTS
  u1 = u1
  u2 = u2
  d1 = d1
  User <- MCUser
  Doc = {d1, d2}
  Op = {o1, o2}
  None = None
  MaxConnections <- MCMaxConnections
  MaxRestarts = 1
  MaxInFlight <- MCMaxInFlight
  Locker <- MCLocker
  Budget = 2
CONSTRAINT FewExtras
INVARIANT InSync
CHECK_DEADLOCK FALSE
