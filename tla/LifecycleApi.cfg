SPECIFICATION LifeSpec
CONSTANTS
  c1 = c1
  c2 = c2
  p1 = p1
  p2 = p2
  Callers = {p1, p2}
  Labels = {1}
  NoLabel = NoLabel
  RetryNumber = 2
  Times <- Unlimited
  NoLimit = NoLimit
  Infinity = Infinity
  MaxRunId = 2
  Clients = {c1, c2}
  Ops = {"create", "stop", "start"}
  Names = {n}
  Configs = {k}
  Nil = Nil
  NaN = NaN
  MaxConcurrency = 1
  Failures = {"ls", "child"}
  MaxRequests = 3
  MaxBuild = 1
  MaxBoot = 0
SYMMETRY Sym
INVARIANTS
  NoZombieRun
  ActiveHasEntry
CHECK_DEADLOCK FALSE
