SPECIFICATION LifeSpec
CONSTANTS
  c1 = c1
  c2 = c2
  p1 = p1
  p2 = p2
  Callers = {p1}
  Labels = {1}
  NoLabel = NoLabel
  RetryNumber = 2
  Times <- OneLimited
  NoLimit = NoLimit
  Infinity = Infinity
  MaxRunId = 1
  Clients = {c1}
  Ops = {"create", "stop", "start"}
  Names = {n}
  Configs = {k}
  Nil = Nil
  NaN = NaN
  MaxConcurrency = 1
  Failures = {}
  MaxRequests = 3
  MaxBuild = 1
  MaxBoot = 0
INVARIANTS
  ActiveIsScheduled
CHECK_DEADLOCK FALSE
