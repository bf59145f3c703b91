SPECIFICATION Spec
CONSTANTS
  c1 = c1
  c2 = c2
  t1 = t1
  t2 = t2
  None = None
  Clients <- TwoClients
  Threads <- TwoThreads
  Limit = 2
  TimeSec = 2
  MaxTime = 3
SYMMETRY BothSymmetries
INVARIANTS
  TypeOK
  WindowIsBounded
  DebtIsCoveredByTime
  NoEarlyRefusal
