SPECIFICATION Spec
CONSTANTS
  c1 = c1
  c2 = c2
  t1 = t1
  t2 = t2
  None = None
  Clients <- OneClient
  Threads <- TwoThreads
  Limit = 2
  TimeSec = 3
  MaxTime = 4
INVARIANTS
  LimitPerMinute
