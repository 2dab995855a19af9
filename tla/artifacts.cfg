SPECIFICATION FairSpec

CONSTANTS
  Sessions = {"draft", "public"}
  Archives = {"public"}
  Sources = {1, 2, 3, 4}
  Broken = {3}
  Unstartable = {4}
  Bytes <- MCBytes
  Mounted <- MCMounted
  Descriptors <- MCDescriptors
  None = None
  MaxStoreSessions = 2
  MaxStoreBytes = 3
  QueueCapacity = 2
  MaxRetained = 2
  MaxStaged = 1
  MaxRevision = 3
  MaxEdits = 2
  MaxMishaps = 1

INVARIANTS LaneInvariant ActiveIsOwned CheckpointsAreAdmissible
PROPERTIES ActiveNeverGoesBack ProgramsSettle
CHECK_DEADLOCK FALSE
