SPECIFICATION IterSpec
CONSTANTS
  NumEntries = 5
  PageSize = 2
INVARIANTS
  DoubleMapKeys
CHECK_DEADLOCK FALSE
