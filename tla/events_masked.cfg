SPECIFICATION Spec
CONSTANTS
  Saves = {s1}
  NoSave = NoSave
  Events <- SameWeek
  Direct <- NoEvents
  DirectUntil = 3
  MaxDate = 3
  MaxPulses = 0
  MaxDefers = 4
  MaxFailures = 0
  MaxBadWrites = 0
  MaxSaves = 0
  MaxLoads = 0
  s1 = s1
INVARIANTS CompleteTick
CHECK_DEADLOCK FALSE
