SPECIFICATION FairSpec
CHECK_DEADLOCK FALSE
CONSTANTS
  o1 = o1
  o2 = o2
  gated = gated
  failing = failing
  broken = broken
  None = None
  Ops = {o1, o2}
  Builds = {gated, failing, broken}
  Broken = {broken}
  Failing = {failing}
  Gated = {gated}
  InitRows <- MCInitRows
  AutoReload = TRUE
  MaxCalls = 2
  MaxChanges = 1
  MaxFaults = 1
INVARIANTS
  TypeOK
  MapNeverClosed
  OpenIsKnown
  StopIsFinal
  RowTellsMap
PROPERTIES
  EventuallySynced
