SPECIFICATION Spec
CONSTANTS
  ReplayWindow = 2
  MaxMessages = 2
  Publishes <- CallsAndValue
  MaxInFlight = 2
  MaxPublish = 2
  MaxGeneration = 3
  MaxFaults = 0
  MaxReloads = 0
INVARIANTS TypeOK NeverFails LeaseIsQueued SessionValueConverges
CHECK_DEADLOCK FALSE
