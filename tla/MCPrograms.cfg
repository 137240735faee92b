SPECIFICATION ProgramsFairSpec
CONSTANTS
  Pcb = {p1, p2, p3, p4, p5}
  InitPcb = p1
  N_PROCS = 5
  PRIO_LOWEST = 3
  Q_STD = 2
  ExitStatuses <- SomeStatuses
  SleepTicks = {1, 2}
  TimeMod = 4
  MaxPid = 14
  Protected = {1, 2}
  Kids = 2
  KidsI = 4
  KidsJ = 6
  Reps = 1
  Boots <- SomeBoots
PROPERTIES Quiesces ChildrenCollected
