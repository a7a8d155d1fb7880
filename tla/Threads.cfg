SPECIFICATION FairSpec
CONSTANTS
  Thread = {t0, t1, t2}
  Main = t0
  Sem = {s1, s2}
  NoThread = NoThread
  NoSem = NoSem
  InitialValues = {0, 1}
  MaxValue = 2
INVARIANTS
  IInv
  NoLostWakeup
PROPERTIES
  ReadyRuns
  UnitTaken
  Promise
