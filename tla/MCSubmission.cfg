CONSTANTS
  one = one
  two = two
  Calls <- MCCalls
  Pauses = 1
  EraPeriod = 3
  MaxHeight = 2
  MaxNonce = 1
  NoNonce = NoNonce
SYMMETRY MCSymmetry
CHECK_DEADLOCK FALSE
SPECIFICATION SubmissionSpec
INVARIANTS
  SubmissionTypeOK
  ExecutedOnce
  OkIsTracked
  ErrorIsFinal
