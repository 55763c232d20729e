SPECIFICATION FairSpec
CONSTANTS
  Saves = {s1, s2}
  NoSave = NoSave
  Events <- TwoEvents
  Direct <- OneEvent
  DirectUntil = 4
  MaxDate = 4
  MaxPulses = 0
  MaxDefers = 1
  MaxFailures = 1
  MaxBadWrites = 0
  MaxSaves = 1
  MaxLoads = 2
  s1 = s1
  s2 = s2
INVARIANTS HandledOnce
PROPERTIES EventuallyDone
CHECK_DEADLOCK FALSE
