SPECIFICATION Spec
CONSTANTS
  EURUSD = EURUSD
  GBPUSD = GBPUSD
  Symbols <- MCSymbols
  Sizes <- MCLong
  MaxNow = 1
  BarLen = 2
  BarTs <- MCGivenOrNot
  MaxRetries = 1
  Live = TRUE
  MaxRequotes = 0
  JournalMayFail = TRUE
  MaxRestarts = 1
INVARIANTS OneDealPerLife OnlySendsConsume JournalIsReal
PROPERTIES SeenNeverDealsAgain
