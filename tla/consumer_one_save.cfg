SPECIFICATION FairSpec
CONSTANTS
  Saves = {sA}
  NoSave = NoSave
  RingSize = 3
  Entered = TRUE
  Switchable = FALSE
  MaxDate = 8
  MaxLoads = 0
  MaxDefers = 2
INVARIANTS
  CaughtUpIsToday
  NoDayPassedOver
PROPERTY TodayIsProcessed
