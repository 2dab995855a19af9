SPECIFICATION Spec

CONSTANTS
  MaxSessions = 1
  MaxMessages = 2
  MaxBytes = 4
  MaxGlobalBytes = 32
  ClientRoom = 3
  Responsive = {1}
  MaxFrames = 2
  MaxDisconnects = 1
  MaxResumes = 1

INVARIANT ResumeRestoresDemand
CHECK_DEADLOCK FALSE
