SPECIFICATION Spec
CONSTANTS
  u1 = u1
  u2 = u2
  t1 = t1
  t2 = t2
  None = None
  Users <- MCUsers
  Threads <- MCThreads
  Lifetime = 3
  Second = 2
  MaxTime = 10
SYMMETRY ThreadSymmetry
INVARIANTS
  TypeOK
  DuplicateNeedsOverlap
  FoundTokenIsNearlyAlive
  LiveTokensBounded
