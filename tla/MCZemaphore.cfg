CONSTANTS
  Waiters = {w1, w2, w3}
  Posters = {p1, p2}
  InitValue = 2
  Rounds = 2
  MaxSpurious = 1
  NoThread = NoThread
SPECIFICATION FairSpec
INVARIANTS
  LockProtects
  NoLostWakeup
PROPERTIES
  ImplementsSemaphore
  EveryCallReturns
