SPECIFICATION Spec
CONSTANTS
  Saves = {s1}
  NoSave = NoSave
  Events <- TwoEvents
  Direct <- LateEvent
  DirectUntil = 3
  MaxDate = 3
  MaxPulses = 2
  MaxDefers = 1
  MaxFailures = 0
  MaxBadWrites = 1
  MaxSaves = 0
  MaxLoads = 0
  s1 = s1
INVARIANTS TypeOK OneRunPerEvent LocksAreOwned HandledOnce CompletedWasHandled CompleteUndeferred IdleMeansDone
CHECK_DEADLOCK FALSE
