SPECIFICATION Spec
CONSTANTS
  Indexes <- MCDenseOnly
  NBars = 10
  MaxSpan = 3
  CPCVGroups = 4
  CPCVTestGroups = 2
  WalkSplits = 2
  WalkModes <- MCModes
  KFolds = 3
  EmbargoPct = 34
  HoldoutPct = 20
INVARIANT EmbargoHolds
