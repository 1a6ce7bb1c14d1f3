CONSTANTS
  t1 = t1
  t2 = t2
  t3 = t3
  Task <- MCTask
  NoTask = NoTask
  CloneFlags <- MCCloneFlags
  MaxThreads = 3
  Nproc = 3
SPECIFICATION FairSpec
INVARIANTS
  TypeOK
  CountsExact
  NoneSlipsOut
  CompletionAlive
  VmLent
PROPERTY VforkReturns
