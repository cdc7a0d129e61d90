SPECIFICATION RememberingSpec
CONSTANTS
  MaxLaunches = 2
  Nobody = Nobody
  Population = 2
  EarlyStop = 2
  Jobs <- LongJob
  Dates = {"W2"}
  Coins = {"A"}
  MaxFaults = 0
  MaxTried = 6
INVARIANT EveryTrialCounts
CHECK_DEADLOCK FALSE
