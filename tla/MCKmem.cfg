SPECIFICATION KmSpec
CONSTANTS
  MemoryMaps <- Maps
  Cutoff = 8
  Top = 32
  PageCounts = {0, 1, 2, 3}
  STACK_PAGES = 2
  MaxSlices = 5
  MaxStacks = 2
INVARIANT
  PagesAccounted
PROPERTY
  PoolSpec
CHECK_DEADLOCK FALSE
