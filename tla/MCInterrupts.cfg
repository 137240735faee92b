CONSTANTS
  EthLine = 11
  Pcb = {"I", "D", "P"}
  InitPcb = "I"
  IdlePcb = "D"
  Entry = "entry"
  Prio = "prio"
  Arg1 = "arg1"
  Arg2 = "arg2"
  Status = "status"
  Machines <- SomeMachines

SPECIFICATION FairSpec
INVARIANTS ArgumentsRead NoneInService
PROPERTIES ContextsKept RequestsServed
