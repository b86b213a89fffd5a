SPECIFICATION Spec
CONSTANTS
  EURUSD = EURUSD
  GBPUSD = GBPUSD
  Symbols <- MCSymbols
  Probs <- MCProbs
  Grids <- MCGrids
  Equities <- MCEquities
  Rhos <- MCRhos
  One = 20
  Tau = 11
  KellyNum = 1
  KellyDen = 2
  MaxMult = 2
  RiskPerTrade = 1
  CorrelationCap = 3
  BreakerPct = 10
  MinusInf <- MCMinusInf
INVARIANTS BreakerHalts CapHolds ConfidenceOrders
