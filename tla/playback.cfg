SPECIFICATION FairSpec
CHECK_DEADLOCK FALSE
CONSTANTS
  Switcher = switcher
  None = None
  Requests = {r1, r2}
  Songs = {a, b}
  MaxPlayers = 4
  MaxItems = 3
  MaxCalls = 6
  MaxFaults = 1
INVARIANTS
  TypeOK
  ActiveAtIndex
  NoPlayerLost
PROPERTIES
  PlaysInOrder
  EventuallySwitches
