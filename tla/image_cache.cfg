SPECIFICATION FairSpec
CHECK_DEADLOCK FALSE
CONSTANTS
  Keys = {k1, k2}
  Callers = {u, w1, w2}
  Workers = {w1, w2}
  MaxItems = 1
  MaxFaults = 1
  MaxAsks = 3
  MaxGets = 2
INVARIANTS
  TypeOK
  FailedNotKept
  SingleFlight
PROPERTIES
  EventuallyWarmed
