CONSTANTS
  c1 = c1
  c2 = c2
  NoClient = NoClient
  Client <- MCClient
  MsgLen = 3
  MaxEnv = 7
  AllocFails = TRUE
SPECIFICATION FairSpec
INVARIANTS
  TypeOK
  OneSession
  NoResidue
  ReplyMatches
  BlockedOnlyIfLost
PROPERTIES
  RunEnds
  ImplementsRequestReply
