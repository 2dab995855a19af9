SPECIFICATION FairSpec

CONSTANTS
  a = a
  b = b
  Tab <- OneTab
  MaxSessions = 1
  MaxPendingHandshakes = 2
  MaxInFlight = 1
  MaxSockets = 3
  MaxReloads = 1
  MaxRestarts = 1
  MaxRevokes = 1
  MaxPressure = 1

PROPERTIES SlotsAreReclaimed HandshakeEnds
CHECK_DEADLOCK FALSE
