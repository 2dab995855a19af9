CONSTANTS
  Callers = {c1}
  Payloads = {p}
  None = None
  Capacity = 2
  MaxBatchTurns = 2
  MaxTurns = 2
  MaxControls = 0
  MaxTickets = 0
  MaxFailures = 1
  MaxRestarts = 0
SPECIFICATION FairSpec
CHECK_DEADLOCK FALSE
PROPERTY AcceptedBecomesDurable
