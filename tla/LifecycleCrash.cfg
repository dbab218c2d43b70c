SPECIFICATION LifeSpec
CONSTANTS
  c1 = c1
  c2 = c2
  p1 = p1
  p2 = p2
  Callers = {p1, p2}
  Labels = {1}
  NoLabel = NoLabel
  RetryNumber = 1
  Times <- OneLimited
  NoLimit = NoLimit
  Infinity = Infinity
  MaxRunId = 2
  Clients = {c1}
  Ops = {"create", "stop"}
  Names = {n}
  Configs = {k}
  Nil = Nil
  NaN = NaN
  MaxConcurrency = 1
  Failures = {"build", "created", "status"}
  MaxRequests = 2
  MaxBuild = 2
  MaxBoot = 1
SYMMETRY Sym
INVARIANTS
  RunQueuedOnce
  PendingIsHeld
  StartedInRankOrder
PROPERTIES
  ImplementsRegistration
  ResultIsFinal
CHECK_DEADLOCK FALSE
