\* Every endpoint and job beside another on a pool of two connections.
CONSTANTS
  p = p
  q = q
  Tenants = {ten1, ten2}
  Tasks = {p, q}
  Conns = {c1, c2}
  NoTenant = NoTenant
  NoConn = NoConn
  Work <- MCWork
  Program <- Programs
  May <- MCMay
SPECIFICATION FairSpec
INVARIANTS TypeOK Isolated NeverBlind OpenedInContext Logged NothingLeft
PROPERTIES TasksEnd
CHECK_DEADLOCK FALSE
