SPECIFICATION Spec
CONSTANTS
  u1 = u1
  u2 = u2
  u3 = u3
  d1 = d1
  d2 = d2
  t1 = t1
  t2 = t2
  None = None
  Users <- MCUsers
  Deliveries <- MCDeliveries
  Sender <- MCSender
  Receiver <- MCReceiver
  Pages <- MCPages
  Tasks <- MCTasks
  Asked <- MCAsked
  SearchTtl = 1
  TrackingTtl = 1
  MaxHold = 1
INVARIANTS
  SuccessInvalidates
