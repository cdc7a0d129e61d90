SPECIFICATION FairSpec
CONSTANTS
  Symbols = {s1}
  Orders = {1}
  SymbolOf <- SameSymbol
  MaxTrades = 1
  MaxSignals = 2
  MaxManual = 1
  MaxCrashes = 1
  Slow = TRUE
  Strategy = Strategy
  Manual = Manual
  NoSource = NoSource
INVARIANT LimitOrderOnce
INVARIANT ReservationHolds
PROPERTY OrderSettlesOnce
