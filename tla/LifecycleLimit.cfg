SPECIFICATION FairLifeSpec
CONSTANTS
  c1 = c1
  c2 = c2
  p1 = p1
  p2 = p2
  Callers = {p1, p2}
  Labels = {1}
  NoLabel = NoLabel
  RetryNumber = 2
  Times <- OneLimited
  NoLimit = NoLimit
  Infinity = Infinity
  MaxRunId = 2
  Clients = {c1}
  Ops = {"create"}
  Names = {n}
  Configs = {k}
  Nil = Nil
  NaN = NaN
  MaxConcurrency = 2
  Failures = {"run", "created", "ls"}
  MaxRequests = 1
  MaxBuild = 1
  MaxBoot = 0
INVARIANTS
  StartedEntryHasImage
PROPERTIES
  LimitedTaskCloses
CHECK_DEADLOCK FALSE
