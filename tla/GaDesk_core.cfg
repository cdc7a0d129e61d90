SPECIFICATION RememberingSpec
CONSTANTS
  MaxLaunches = 2
  Nobody = Nobody
  Population = 1
  EarlyStop = 1
  Jobs <- SomeJobs
  Dates = {"W1", "W2"}
  Coins = {"A", "B"}
  MaxFaults = 1
  MaxTried = 0
INVARIANTS
  GenerationsAreCounted
  ScoredWhereItTrades
  SearchesInOrder
PROPERTY JobSettles
CHECK_DEADLOCK FALSE
