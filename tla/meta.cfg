SPECIFICATION Spec
CONSTANTS
  Indexes <- MCIndexes
  NBars = 14
  MaxSpan = 3
  CVFolds = 2
  EmbargoPct = 15
  HoldoutPct = 10
  CPCVGroups = 6
  CPCVTestGroups = 2
  WalkSplits = 5
  WalkModes <- MCModes
  ProtocolEmbargoPct = 20
  RecentWindow = 2
  MinPeriods = 1
INVARIANTS JudgedOutOfFold CalibratedOutOfFold OuterUnseen
