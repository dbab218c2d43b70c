SPECIFICATION Spec
CONSTANTS
  Outputs <- MCOutputs
  Entries <- MCEntries
  Searches = {s1}
  Values <- MCValues
  NoValue = NoValue
  Infinity = 9
  Queries <- MCQueries
  MaxPageSize = 2
  MaxLines = 3
  NoQuery = NoQuery
  NoOutput = NoOutput
INVARIANTS
  SearchTypeOK
  PageIsExact
  NothingMissed
  AggregateIsExact
