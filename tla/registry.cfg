SPECIFICATION FairSpec

CONSTANTS
  MaxSessions = 2
  MaxMessages = 2
  MaxBytes = 4
  MaxGlobalBytes = 32
  ClientRoom = 3
  Responsive = {2}
  MaxFrames = 2
  MaxDisconnects = 1
  MaxResumes = 1

INVARIANTS AccountingInvariant NothingIsLost TotalIsOnItsWay
PROPERTY ServedUnlessQueuesAreFull
CHECK_DEADLOCK FALSE
