SPECIFICATION Spec
CONSTANTS
  W = 32
  PARA = 4
  SECTOR_SIZE = 8
  BYTE = 4
  LIMIT = 79
  N_INFO = 9
  Zeros = 8
  Cylinders = 4
  START = 8
  MMAP_MAX_ENTRIES = 2
  MaxReported = 4
  CommandLines <- SomeCommandLines
  Geometries <- SomeGeometries
INVARIANTS LoadedAsBuilt MapAsReported
CHECK_DEADLOCK FALSE
