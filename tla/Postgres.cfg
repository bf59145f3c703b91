SPECIFICATION FairSpec
CONSTANTS
  u1 = u1
  p1 = p1
  d1 = d1
  d2 = d2
  s1 = s1
  s2 = s2
  t1 = t1
  t2 = t2
  r1 = r1
  None = None
  Users <- MCOneUser
  Parcels <- MCOneParcel
  Deliveries <- MCTwoDeliveries
  Suffixes <- MCSuffixes
  Threads <- MCThreads
  Readers <- MCReaders
  PageSize = 1
  MaxTime = 1
INVARIANTS
  TypeOK
  OrphanExplained
  TraversalIsComplete
  TrackingUnique
PROPERTIES
  CreateIsFinished
