SPECIFICATION LifeSpec
CONSTANTS
  c1 = c1
  c2 = c2
  p1 = p1
  p2 = p2
  Callers = {p1}
  Labels = {1}
  NoLabel = NoLabel
  RetryNumber = 2
  Times <- Unlimited
  NoLimit = NoLimit
  Infinity = Infinity
  MaxRunId = 1
  Clients = {c1}
  Ops = {"create", "update", "stop", "delete"}
  Names = {n}
  Configs = {k1, k2}
  Nil = Nil
  NaN = NaN
  MaxConcurrency = 1
  Failures = {"ls", "rmi", "child"}
  MaxRequests = 4
  MaxBuild = 3
  MaxBoot = 0
SYMMETRY Sym
INVARIANTS
  LifeTypeOK
  EntryMatchesRow
  NoContainerLeak
CHECK_DEADLOCK FALSE
