SPECIFICATION WaitSpec
CONSTANTS
  Loops = {l1}
  Mutators = {m1,m2}
  Resets = {r1}
  LoopOf <- OneLoop
  Nobody = Nobody
  Callers = {c1,c2}
  Ttl = 1
  NoLock = NoLock
  MaxRequests = 0
  MaxCloses = 0
  MaxCrashes = 0
CHECK_DEADLOCK FALSE
PROPERTY MutationsWaitOutTheReset
