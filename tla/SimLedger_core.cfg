SPECIFICATION FairSpec
CONSTANTS
  Symbols = {s1}
  Tasks = {t1, t2}
  NoTask = NoTask
  NoSymbol = NoSymbol
  MaxRows = 2
  Amounts = {3}
  Pnls = {1}
  MinNotional = 2
  InitialBalance = 10
  Faults = {"row", "pay", "undo", "close", "credit"}
  MaxResets = 1
  MaxCrashes = 0
INVARIANT CloseActsOnWhatItSaw
INVARIANT ResetWindowIsQuiet
PROPERTY HandlersFinish
