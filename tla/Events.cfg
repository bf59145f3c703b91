SPECIFICATION FairSpec
CONSTANTS
  p1 = p1
  p2 = p2
  d1 = d1
  d2 = d2
  track1 = track1
  track2 = track2
  ann = ann
  bob = bob
  a = a
  b = b
  Star = Star
  Percent = Percent
  None = None
  UserIds <- TheUsers
  Logins <- TheLogins
  Letters <- TheLetters
  ParcelIds <- TheParcels
  Trackings <- TheTrackings
  DeliveryIds <- TheDeliveries
  UserOf <- TheUserOf
  SenderOf <- TheSenderOf
  DeliveryOf <- TheDeliveryOf
  Statuses = {"in_transit", "delivered"}
  Prefetch = 2
  MaxWrites = 3
  MaxUpdates = 2
  MaxRestarts = 1
INVARIANTS
  TypeOK
  AckedIsHandled
  ReplicaFollows
  RedeliveryOnlyRestamps
  EveryEntryIsFound
PROPERTIES
  QueueDrains
CHECK_DEADLOCK FALSE
