SPECIFICATION FairSpec
CONSTANTS
  u1 = u1
  u2 = u2
  t1 = t1
  t2 = t2
  c1 = c1
  c2 = c2
  None = None
  Users = {u1, u2}
  Tracks = {t1}
  Clients = {c1}
  MaxWorkers = 2
  Builtin = FALSE
  MaxRows = 2
  MaxFaults = 1
  MaxTurns = 1
  MaxCrashes = 1
  PlayTimes <- MCPlayTimes
INVARIANTS
  TypeOK
  InOrder
  NothingStuck
PROPERTIES
  ImplementsDelivery
  EventuallyDelivered
