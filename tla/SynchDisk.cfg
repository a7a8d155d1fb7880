SPECIFICATION SFairSpec
CONSTANTS
  Thread = {t1, t2}
  NoThread = NoThread
  Sem = {"lock", "semaphore"}
  NoSem = NoSem
  InitialValues = {0, 1}
  Device = {"timer", "disk"}
  Ticks = {1, 3}
  TimerTicks = 4
  Randomize = FALSE
  NumSectors = 3
  SectorsPerTrack = 2
  SeekTime = 3
  RotationTime = 2
  Data = {d0, d1}
  Blank = d0
  MaxTime = 5
INVARIANTS
  DInv
  OnTime
PROPERTIES
  SectorsPromise
  HolderReturns
CHECK_DEADLOCK FALSE
