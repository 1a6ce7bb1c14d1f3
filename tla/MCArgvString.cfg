CONSTANTS
  bar = bar
  Delim = bar
  Strings <- MCStrings
  FullSlots <- MCFullSlots
  MaxCalls = 2
SPECIFICATION Spec
INVARIANTS
  TypeOK
  TokensMatch
  TableAlive
  FailureLeavesNothing
  FreedOnce
CHECK_DEADLOCK FALSE
