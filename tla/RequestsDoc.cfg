SPECIFICATION Spec
CONSTANTS
  ann = ann
  anna = anna
  al = al
  bo = bo
  secret = secret
  hidden = hidden
  mail1 = mail1
  mail2 = mail2
  a = a
  n = n
  fragile = fragile
  express = express
  Null = Null
  Nothing = Nothing
  Empty = Empty
  Junk = Junk
  Star = Star
  Percent = Percent
  Stranger = Stranger
  MaxReserve = 2
  ShortLogins = {bo}
  Generations = {3}
  Logins <- TheLogins
  UserBody <- TheUserBody
  ParcelBodies <- TheParcelBodies
  DeliveryBodies <- TheDeliveryBodies
  Features <- TheFeatures
  Letters <- TheLetters
  NamePrefixes <- TheNamePrefixes
  Statuses = {"delivered", "cancelled"}
  MaxUsers = 2
  MaxParcels = 2
  MaxDeliveries = 2
  MaxEvents = 2
  MaxCount = 2
  MaxFaults = 1
INVARIANTS
  ListOfParcelsIsAnswered
CHECK_DEADLOCK FALSE
