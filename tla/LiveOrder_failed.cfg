SPECIFICATION LiveSpec
CONSTANTS
  MaxRequests = 1
  MaxCloses = 0
  MaxCrashes = 0
INVARIANT FailedMeansNoOrder
