SPECIFICATION IFairSpec
CONSTANTS
  Thread = {t0, t1, t2}
  Main = t0
  CharReaders = {t0, t1}
  LineReaders = {t1, t2}
  MaxLine = 2
  Char = {x, nl}
  Endl = {nl}
  EOF = EOF
  Sem = {"lock", "waitFor", "RLineBlock"}
  NoThread = NoThread
  NoSem = NoSem
  InitialValues = {0, 1}
  MaxValue = 3
INVARIANTS
  CharsKept
PROPERTIES
  ReadsWhole
  CharTaken
