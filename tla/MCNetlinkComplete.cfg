CONSTANTS
  c1 = c1
  c2 = c2
  NoClient = NoClient
  Client <- MCClient
  MsgLen = 3
  MaxEnv = 7
  AllocFails = FALSE
SPECIFICATION Spec
INVARIANT CompleteMeansStored
