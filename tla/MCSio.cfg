SPECIFICATION FairSpec
CONSTANTS
  Procs = {p1, p2}
  BUF_SIZE = 2
  ReadLengths = {1, 2}
  Writes <- PlainWrites
  FifoSize = 2
  MaxIn = 4
  MaxOut = 4
INVARIANTS
  InputServed
  OutputInOrder
  TransmitterArmed
PROPERTY
  OutputDrains
CHECK_DEADLOCK FALSE
