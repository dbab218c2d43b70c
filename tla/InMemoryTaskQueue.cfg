SPECIFICATION FairSpec
CONSTANTS
  Fns = {f1, f2, f3, f4, f5}
  MaxConcurrency = 2
  NaN = NaN
INVARIANTS
  TypeOK
  WorkConserving
  ConcurrencyBound
PROPERTIES
  ImplementsExecutor
  EveryQueuedStarts
