SPECIFICATION Spec
CONSTANTS
  NaN = NaN
  HoursPerBar = 4
  Width <- MCWidth
  Pairs <- MCPairs
  Legs <- MCPairs
  Available <- MCAvailable
  Quoted <- MCQuoted
  FirstNow = 5
  LastNow = 7
  Windows <- MCWindows
  TickChunk = 3
  MaxRuns = 2
  MaxBuilds = 2
  MaxDrops = 1
INVARIANTS
  RowsSettle
  NaNsHeal
PROPERTIES
  RunsAreClean
  RunsEnd
CHECK_DEADLOCK FALSE
