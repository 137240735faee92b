SPECIFICATION QueSpec
CONSTANTS
  NodesPerSlice = 1
  QueuesPerSlice = 2
  NodeSlices = 3
  QueueSlices = 2
  Data = {d1, d2}
  Keys = {0, 1}
SYMMETRY SomeData
INVARIANT
  LinksAgree
PROPERTY
  QueueSpec
