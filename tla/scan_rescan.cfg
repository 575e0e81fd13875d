SPECIFICATION Spec
CHECK_DEADLOCK FALSE
CONSTANTS
  f1 = f1
  f2 = f2
  g1 = g1
  g2 = g2
  None = None
  Folders = {f1, f2}
  Goroutines = {g1, g2}
  Modes = {TRUE, FALSE}
  Upgrades <- MCUpgrades
  ScanOnStartup = TRUE
  Requests <- MCRequests
  Buffered = 1
  MaxChanges = 0
  MaxRequests = 1
  MaxFaults = 0
  MaxCrashes = 1
INVARIANTS
  FullRescanRemembered
