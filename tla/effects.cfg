CONSTANTS
  Items = {1, 2}
  NoItem = NoItem
  Capacity = 2
  MaxPending = 2
  MaxPlain = 1
  MaxErrors = 2
  MaxActivations = 1
  MaxCrashes = 1
SPECIFICATION FairSpec
CHECK_DEADLOCK FALSE
INVARIANTS OutboxInvariant DispatchedIsDurable AppliedAtMostOnce
PROPERTY EffectsComplete
