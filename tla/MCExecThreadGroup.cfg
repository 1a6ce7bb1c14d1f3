CONSTANTS
  t1 = t1
  t2 = t2
  t3 = t3
  t4 = t4
  Task <- MCTask
  First = t1
  NoTask = NoTask
  Clones <- AllClones
SPECIFICATION Spec
INVARIANTS
  TypeOK
  SoloAfterDeThread
  NotifyCounts
  VerdictHolds
  InExecOwned
  GuardHeld
CHECK_DEADLOCK FALSE
