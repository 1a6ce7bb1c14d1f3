CONSTANTS
  p1 = p1
  p2 = p2
  p3 = p3
  Process <- MCProcess
  Init1 = p1
  Main = Main
  Idle = Idle
  Reaper = Reaper
  NoThread = NoThread
SPECIFICATION FairSpec
INVARIANTS
  OneQueue
  NoLostWake
  
PROPERTY DeadAreDone
