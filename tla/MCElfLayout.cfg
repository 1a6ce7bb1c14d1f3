CONSTANTS
  Word = 16
  Page = 2
  TaskSize = 12
  DynBase = 8
  Images <- MCImages
SPECIFICATION Spec
INVARIANT ImageRight
