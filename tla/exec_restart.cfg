SPECIFICATION Spec
CONSTANTS
  EURUSD = EURUSD
  GBPUSD = GBPUSD
  Symbols <- MCSymbols
  Sizes <- MCLong
  MaxNow = 2
  BarLen = 2
  BarTs <- MCGiven
  MaxRetries = 2
  Live = TRUE
  MaxRequotes = 0
  JournalMayFail = TRUE
  MaxRestarts = 1
INVARIANT OneFillPerBar
