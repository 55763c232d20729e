SPECIFICATION Spec
CONSTANTS
  Saves = {sA, sB}
  NoSave = NoSave
  RingSize = 8
  Entered = TRUE
  Switchable = FALSE
  MaxDate = 3
  MaxLoads = 1
  MaxDefers = 0
INVARIANT CaughtUpIsToday
