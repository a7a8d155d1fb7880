SPECIFICATION PSpec
CONSTANTS
  MAXPROCESS = 2
  NumPhysPages = 3
  Program <- MCOneProgram
  NumPages <- MCNumPages
  NoProgram = NoProgram
  ExitCode = {0}
  MaxNumWait = 2
  Parents = {0, 1}
  Discipline = FALSE
  Thread <- MCThread
  Main = 0
  Sem <- MCSem
  NoThread = NoThread
  NoSem = NoSem
  InitialValues = {0, 1}
  MaxValue = 3
INVARIANTS
  SemOutlivesWaiters
