SPECIFICATION Spec
CHECK_DEADLOCK FALSE
SYMMETRY Symmetry
CONSTANTS
  None = None
  Calls = {c1, c2}
  Names = {n1}
  Keys = {k1, k2}
  Manifests <- MCManifests
  MaxLoads = 2
  MaxTimers = 2
  MaxConns = 2
  Sizes = {1, 2}
  MaxSize = 3
  MaxWrites = 3
INVARIANTS
  TypeOK
  SchedulesKept
  ConnectionsKnown
  StorageAccounted
