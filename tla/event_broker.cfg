SPECIFICATION FairSpec
CHECK_DEADLOCK FALSE
CONSTANTS
  c1 = c1
  c2 = c2
  s1 = s1
  w1 = w1
  w2 = w2
  u1 = u1
  None = None
  Conns = {c1, c2}
  Senders = {s1}
  Contexts <- MCContexts
  UidOf <- MCUidOf
  UserOf <- MCUserOf
  PublishBuffer = 1
  AttachBuffer = 1
  ClientBuffer = 1
  MaxEvents = 2
INVARIANTS
  TypeOK
  OnlyOvertakenPanics
PROPERTIES
  ImplementsBroadcast
  SendersReturn
  QueuedIsWritten
  Forgotten
