SPECIFICATION Spec
CONSTANTS
  Symbols = {s1, s2}
  Tasks = {t1, t2}
  NoTask = NoTask
  NoSymbol = NoSymbol
  MaxRows = 2
  Amounts = {3}
  Pnls = {1}
  MinNotional = 2
  InitialBalance = 10
  Faults = {"pay", "undo", "credit"}
  MaxResets = 1
  MaxCrashes = 1
INVARIANT InFlightIdentity
INVARIANT BooksAgree
PROPERTY ImplementsLedger
