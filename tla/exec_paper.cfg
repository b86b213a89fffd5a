SPECIFICATION FairSpec
CONSTANTS
  EURUSD = EURUSD
  GBPUSD = GBPUSD
  Symbols <- MCSymbols
  Sizes <- MCShort
  MaxNow = 2
  BarLen = 2
  BarTs <- MCGiven
  MaxRetries = 1
  Live = FALSE
  MaxRequotes = 3
  JournalMayFail = FALSE
  MaxRestarts = 0
INVARIANTS TypeOK OneFillPerBar RequotesRetried JournalMatchesAccount
PROPERTIES BatchReturns DecidedOnce
