SPECIFICATION Spec
CONSTANTS
  NaN = NaN
  NBins = 10
  Decays <- MCDecays
  Monitors <- MCMonitors
  Trades <- MCTrades
  MaxTrades = 3
  Scores <- MCScores
  Paths = 2
  MaxVersions = 2
INVARIANTS
  PassBeatsEveryBaseline
  DecayIsOnDashboard
PROPERTY
  NothingUngated
