SPECIFICATION FairSpec
CONSTANTS
  ReplayWindow = 2
  MaxMessages = 2
  Publishes <- CallsAndEvents
  MaxInFlight = 1
  MaxPublish = 1
  MaxGeneration = 2
  MaxFaults = 0
  MaxReloads = 1
INVARIANT HandoverInvariant
PROPERTIES EventsAreDelivered CallsAreAnswered
CHECK_DEADLOCK FALSE
