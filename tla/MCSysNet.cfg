SPECIFICATION NetFairSpec
CONSTANTS
  CBL_SIZE = 14
  MAX_COMMANDS = 3
  TxLengths = {5}
  AddrLength = 5
  EmptyLength = 2
  ArpLength = 4
  Pids = {p1, p2}
  Ids = {p1, p2}
  Ports = {80}
  NUM_RECV_PROCESSES = 2
  MaxCommands = 3
  MaxFrames = 2
INVARIANTS
  CallersInStep
  CommandsInOrder
  NodesAccounted
  UnitsServed
PROPERTY
  CallersWake
CHECK_DEADLOCK FALSE
