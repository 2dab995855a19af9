SPECIFICATION FairSpec
CONSTANTS
  Timers = {1, 2}
  Intervals = {2}
  Delay = 1
  MaxActive = 1
  MaxTime = 3
INVARIANTS TimerInvariant
PROPERTIES CancelIsFinal EventsKeepTheGrid DeadlinesFire ReceiveEnds SlotsReturn
CHECK_DEADLOCK FALSE
