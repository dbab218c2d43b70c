SPECIFICATION FairSpec
CONSTANTS
  Runs = {1}
  LogEntries <- MCLogEntries
  MetricEntries = {}
  PipeSize = 1
  MaxPrinted = 2
  MaxSamples = 0
PROPERTIES
  EveryLogCloses
