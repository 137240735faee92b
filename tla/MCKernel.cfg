SPECIFICATION FairSpec
CONSTANTS
  Pcb = {p1, p2, p3, p4}
  InitPcb = p1
  N_PROCS = 4
  PRIO_LOWEST = 1
  Q_STD = 2
  ExitStatuses = {1, 2}
  SleepTicks = {1, 2, 3}
  TimeMod = 4
  MaxPid = 4
  Protected = {1, 2}
ACTION_CONSTRAINT FirstFree
INVARIANTS
  Placement
  DispatchFinds
  TableConsistent
  ParentAlive
  WaiterHasWork
  IInv
PROPERTIES
  ReportedWhenGone
  StatusDelivered
  KilledNeverRuns
  AllDueWoken
  TreeSpec
  SleepersWake
  SystemServed
