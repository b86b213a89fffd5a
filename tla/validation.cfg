SPECIFICATION Spec
CONSTANTS
  Indexes <- MCIndexes
  NBars = 10
  MaxSpan = 3
  CPCVGroups = 5
  CPCVTestGroups = 2
  WalkSplits = 2
  WalkModes <- MCModes
  KFolds = 3
  EmbargoPct = 20
  HoldoutPct = 20
INVARIANTS TypeOK NoLeak OnlyLeaksDropped HoldoutUnseen ForwardOnly PredictedOnce
