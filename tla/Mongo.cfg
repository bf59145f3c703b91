SPECIFICATION Spec
CONSTANTS
  p1 = p1
  d1 = d1
  d2 = d2
  s1 = s1
  t1 = t1
  t2 = t2
  t3 = t3
  None = None
  Parcels <- MCParcels
  Deliveries <- MCDeliveries
  Suffixes <- MCSuffixes
  Threads <- MCThreads
  MaxCount = 3
  MaxLife = 1
SYMMETRY Symmetry
INVARIANTS
  TypeOK
  AgreementExplained
  CollisionExplained
