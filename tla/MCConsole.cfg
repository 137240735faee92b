SPECIFICATION HalfSpec
SYMMETRY Symmetry
CONSTANTS
  Procs = {p1, p2}
  BUF_SIZE = 1
  ReadLengths = {1}
  Writes = {}
  FifoSize = 1
  MaxIn = 1
  MaxOut = 0
  C_BUFSIZE = 2
  Keys = {"d", "enter"}
  Undefined = {}
  ConsLengths = {1, 3}
  MaxKeys = 3
  MAX_X = 2
  MAX_Y = 2
  Letters = {"a"}
  Items <- SomeItems
  Numbers <- SomeNumbers
  Corners <- SomeCorners
  Places <- SomePlaces
  MaxRows = 4
INVARIANTS
  KeysShared
  ShowsText
  NumbersRead
PROPERTY
  BordersKept
CHECK_DEADLOCK FALSE
