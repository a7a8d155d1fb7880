SPECIFICATION OFairSpec
CONSTANTS
  Thread = {t0, t1, t2}
  Main = t0
  CharWriters = {t0, t1, t2}
  LineWriters = {t0, t1, t2}
  MaxLine = 2
  Sem = {"lock", "waitFor", "WLineBlock"}
  NoThread = NoThread
  NoSem = NoSem
  InitialValues = {0, 1}
  MaxValue = 3
INVARIANTS
  AbortOnlyMixed
  AnswersRight
PROPERTIES
  LinesWhole
  HoldersReturn
