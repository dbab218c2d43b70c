SPECIFICATION FairSpec
CONSTANTS
  Runs = {1}
  LogEntries <- MCLogEntries
  MetricEntries <- MCMetricEntries
  PipeSize = 1
  MaxPrinted = 3
  MaxSamples = 1
INVARIANTS
  OutTypeOK
  LogIsComplete
PROPERTIES
  ImplementsOutputFile
  FittingLogCloses
