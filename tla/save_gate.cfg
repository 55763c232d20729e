SPECIFICATION FairSpec
CONSTANTS
  Threads = {t1, t2}
  Saves = {sA}
  NoSave = NoSave
  CacheFor = 1
  PauseFor = 1
  SleepFor = 1
  Stale = 1
  LastStart = 2
  LastTick = 3
  MaxClock = 5
  MaxLoads = 1
INVARIANTS
  TypeOK
  NoSaveOverlooked
  YesMeansSaving
  PauseCoversSave
PROPERTY EveryCallReturns
