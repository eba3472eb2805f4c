CONSTANTS
  left = left
  right = right
  Branches <- MCBranches
  MaxHeight = 3
  NoBlock = NoBlock
  NoHeight = NoHeight
SPECIFICATION FairHistorySpec
INVARIANTS
  TypeOK
  FinalizedDelivered
  HistoricalIsFinal
  NextErrorKeepsCursor
PROPERTIES
  BestLinked
  ImplementsCursor
  CallReturns
