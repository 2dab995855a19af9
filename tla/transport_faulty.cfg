SPECIFICATION Spec
CONSTANTS
  ReplayWindow = 2
  MaxMessages = 2
  Publishes <- FromSession
  MaxInFlight = 2
  MaxPublish = 2
  MaxGeneration = 3
  MaxFaults = 2
  MaxReloads = 0
INVARIANTS UnacknowledgedIsQueued WatermarksAgree
PROPERTY EventsKeepToTheirGeneration
CHECK_DEADLOCK FALSE
