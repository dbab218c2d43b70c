SPECIFICATION FairRegSpec
CONSTANTS
  p1 = p1
  p2 = p2
  p3 = p3
  limited = limited
  unlimited = unlimited
  Callers <- MCCallers
  Labels <- MCLabels
  Times <- MCTimes
  MaxRunId = 4
  NoLabel = NoLabel
  NoLimit = NoLimit
  Infinity = Infinity
  RetryNumber = 2
INVARIANTS
  RegTypeOK
  CountStaysFresh
  RunLimit
  RanksConsecutive
  MutualExclusion
PROPERTIES
  ImplementsRunBudget
  EveryWaitEnds
