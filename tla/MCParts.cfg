SPECIFICATION Spec
CONSTANTS
  NULL = NULL
  ABORT = ABORT
  i1 = i1
  i2 = i2
  i3 = i3
  i4 = i4
  Item <- MCItem
  Element = {e1, e2, e3, e4}
  key <- MCKeyOf
  getKey <- MCKeyOf
  Key <- MCKey
  hash <- MCHash
  InitialBuckets = 1
  ResizeRatio = 1
  IncreaseSizeBy = 2
  numBits = 5
  BitsInWord = 3
  Which <- MCWhich
  Value = {v1, v2}
  size = 3
  Thread = {t0, t1}
  main = t0
  Func = {f1}
  Arg = {a1}
  HostName = {"DECMIPS", "SPARC", "PARISC", "x86", "ApplePowerPC", "ALPHA"}
  Word = {"f", "g"}
  Command <- MCCommand
  Reliability = {"none", "some", "all"}
  MaxTries = 2
  TestThread <- MCTestThread
  TestList <- MCTestList
  TestSem <- MCTestSem
  Loops = 2
  Rounds = 3
  Number = {0, 1, 2, 3}
  MaxSize = 4
  Dim = 4
INVARIANT PartsSane
PROPERTY PartsPromise
