SPECIFICATION WaitSpec
CONSTANTS
  Loops = {l1,l2,l3}
  Mutators = {m1,m2}
  Resets = {r1}
  LoopOf <- OwnLoop
  Nobody = Nobody
  Callers = {c1,c2,c3}
  Ttl = 2
  NoLock = NoLock
  MaxRequests = 3
  MaxCloses = 2
  MaxCrashes = 1
INVARIANT WindowIsExclusive
INVARIANT NoLostWakeup
INVARIANT OneOrderPerRequest
INVARIANT NoOrderForgotten
INVARIANT NoPhantomPosition
PROPERTY MutationsWaitOutTheReset
PROPERTY ResetFinishes
PROPERTY CallersAnswered
