SPECIFICATION PFairSpec
CONSTANTS
  MAXPROCESS = 3
  NumPhysPages = 3
  Program <- MCOneProgram
  NumPages <- MCNumPages
  NoProgram = NoProgram
  ExitCode = {0}
  MaxNumWait = 1
  Parents = {0, 1}
  Discipline = TRUE
  Thread <- MCThread
  Main = 0
  Sem <- MCSem
  NoThread = NoThread
  NoSem = NoSem
  InitialValues = {0, 1}
  MaxValue = 3
INVARIANTS
  IdsValid
  JoinSeesExit
  NoLostProcess
PROPERTIES
  FamiliesPart
