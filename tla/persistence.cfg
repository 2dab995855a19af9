CONSTANTS
  Callers = {c1, c2}
  Payloads = {p, q}
  None = None
  Capacity = 2
  MaxBatchTurns = 2
  MaxTurns = 2
  MaxControls = 2
  MaxTickets = 1
  MaxFailures = 1
  MaxRestarts = 1
SPECIFICATION FairSpec
CHECK_DEADLOCK FALSE
INVARIANTS AdmissionInvariant AnswerCoversTurns
PROPERTIES KeepsItsPromise RequestsAreAnswered TurnsSettle
