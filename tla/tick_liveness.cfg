SPECIFICATION EnteredFairSpec
CONSTANTS
  Sim = sim
  Pollers = {p1}
  SlotCount = 1
  Saves = {sA, sB}
  NoSave = NoSave
  RingSize = 8
  MayReload = TRUE
  MaxDate = 2
  MaxLoads = 1
  MaxDefers = 0
  MaxEvents = 20
INVARIANT TypeOK
PROPERTIES
  CallsReturn
  SaveIsEntered
