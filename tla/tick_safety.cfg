SPECIFICATION Spec
CONSTANTS
  Sim = sim
  Pollers = {p1, p2}
  SlotCount = 2
  Saves = {sA, sB}
  NoSave = NoSave
  RingSize = 3
  MayReload = FALSE
  MaxDate = 4
  MaxLoads = 2
  MaxDefers = 1
  MaxEvents = 3
CONSTRAINT AloneOrOneSave
SYMMETRY PollerSymmetry
INVARIANTS
  ReservationsAccounted
  QuiescentRing
  CallbackExclusive
  CompleteMeansDone
  DispatchedWasDone
  RingInDateOrder
  LiveDateIsLatest
PROPERTY DoneOnce
