SPECIFICATION USpec
CONSTANTS
  ByteBits = 3
  Base = 3
  Zero = 1
  NewLine = 4
  Space = 5
  Minus = 6
  R31 = 7
  ImmBits = 7
  PageSize = 8
  NumPhysPages = 9
  MaxString = 12
  Randoms = {0, 5}
  Loads <- MCLoads
  Before <- MCBefore
  NOFFMAGIC = 2730
  MIPSELMAGIC = 17
  OMAGIC = 7
  UserStackSize = 8
  Lines <- MCLines
INVARIANTS
  Transparent
  LoadedRight
  UnalignedRight
  CallsRight
PROPERTIES
  ArithmeticRight
  NumbersRight
CHECK_DEADLOCK FALSE
