SPECIFICATION Spec
CONSTANTS
  NaN = NaN
  NStates = 3
  MinRowsPerState = 1
  HurstTrend = 55
  KerTrend = 30
  ShockAtr = 90
  ShockOverride = TRUE
  Hmm <- MCHmm
  Rows <- MCRows
  MaxRows = 3
  TrainingSets <- MCTrainingSets
  Members <- MCMembers
  SequenceMembers = {"cnn"}
  Lookback = 2
  BaseWeights <- MCBaseWeights
  OverrideChoices <- MCOverrideChoices
  Outputs <- MCOutputs
  FlatThreshold = 15
  Unit = 60
  RawScores <- MCRawScores
  Scale = 180
  TauGrid <- MCTauGrid
  DefaultTau = 99
  MinTrades = 1
  CVFolds = 2
  Bets <- MCBets
  MaxBets = 4
  Equities = {9, 10}
  DrawdownAlert = 10
INVARIANTS
  InferenceIsExact
  IsotonicIsNearest
  UnanimityHolds
  MonitorTells
