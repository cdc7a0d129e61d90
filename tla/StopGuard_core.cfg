SPECIFICATION FairSpec
CONSTANTS
  Symbols = {s1}
  NoSymbol = NoSymbol
  Prices = {97, 105}
  Entry = 100
  Widths = {4}
  Distances = {2}
  Emergency = 5
  MaxOpens = 2
  MaxReduces = 1
  MaxTrips = 1
  MaxCrashes = 1
  PersistFails = TRUE
INVARIANT SnapshotFollows
PROPERTY StopFires
