CONSTANTS
  k1 = k1
  k2 = k2
  k3 = k3
  k4 = k4
  Thread <- MCThread
  NoThread = NoThread
SPECIFICATION FairSpec
INVARIANT NoLostWake
PROPERTIES
  ImplementsMonitor
  MutexPasses
