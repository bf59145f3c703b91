SPECIFICATION Spec
CONSTANTS
  l1 = l1
  l2 = l2
  t1 = t1
  t2 = t2
  t3 = t3
  None = None
  Logins <- MCLogins
  Threads <- MCThreads
  MaxUsers = 2
  MaxParcels = 2
  MaxDeliveries = 2
SYMMETRY Symmetry
INVARIANTS
  TypeOK
  AnswersHold
  EveryDeliveryIsListed
  AssignedIffShipped
PROPERTIES
  ImplementsBook
