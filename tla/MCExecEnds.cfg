CONSTANTS
  t1 = t1
  t2 = t2
  t3 = t3
  t4 = t4
  Task <- MCThreads
  First = t1
  NoTask = NoTask
  Clones <- ThreadClones
SPECIFICATION FairSpec
PROPERTY ExecEnds
CHECK_DEADLOCK FALSE
