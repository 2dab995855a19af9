SPECIFICATION Spec

CONSTANTS
  a = a
  b = b
  Tab <- TwoTabs
  MaxSessions = 1
  MaxPendingHandshakes = 2
  MaxInFlight = 1
  MaxSockets = 4
  MaxReloads = 0
  MaxRestarts = 0
  MaxRevokes = 1
  MaxPressure = 1

SYMMETRY TabSymmetry
INVARIANTS RegistryInvariant TokenIsJournaled RevokedIsGone
PROPERTY OnlyRevocationFails
CHECK_DEADLOCK FALSE
