SPECIFICATION WFairSpec
CONSTANTS
  Process = {0, 1, 2}
  Thread = {0, 1, 2}
  Name <- MCNames
  Char = {0, 1, 2, 3, 10, 11, 12, 13}
  MAX_FILE_OPEN = 5
  SC_Open = 4
  MaxDescriptors = 13
  Leaked = 8
  Absent = Absent
  NULL = NULL
  NoSem = NoSem
  Sem = {0, 1, 2, 3}
  MAX_SEMAPHORE = 4
  SemName <- MCSemNames
  InitialValues <- MCInitialValues
  Inputs <- MCInputs
  Programs <- MCPrograms
  Earlier <- MCEarlier
  MaxLength = 2
  MaxValue = 1
INVARIANTS
  TablesKept
  WaterRight
PROPERTIES
  MainEnds
CHECK_DEADLOCK FALSE
