\* init, its shell and one more process; one pid more than slots.
CONSTANTS
  NR_TASKS = 3
  MaxPid = 4
  KillArgs <- MCKillArgs
  WaitArgs <- MCWaitArgs
  GroupArgs <- MCGroupArgs
  Masks <- MCMasks
  NoTask = NoTask
SPECIFICATION FairSpec
INVARIANTS
  FamilyTree
  ZombieNotMissed
  SignalsArrive
PROPERTIES
  OrphansReaped
  KilledDies
CHECK_DEADLOCK FALSE
