SPECIFICATION FSSpec
CONSTANTS
  NumSectors = 9
  SectorSize = 2
  TransferSize = 2
  NumDirEntries = 2
  Straddling = 1
  Name = {a, b, c}
  NoName = NoName
  Byte = {0, 1}
  Sizes = {1, 3}
  Handle = {h}
  NoHeader = NoHeader
  Closed = Closed
  MaxCrashes = 1
SYMMETRY Names
INVARIANTS
  DiskConsistent
  FilesKept
  ReadsRight
CHECK_DEADLOCK FALSE
