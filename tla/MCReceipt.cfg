CONSTANTS
  quiet = quiet
  tx = tx
  other = other
  reap = reap
  Branches <- MCBranches
  TxBranches <- MCTx
  OtherBranches <- MCOther
  ReapBranches <- MCReap
  FirstNonce = 0
  TxNonce = 1
  Period = 10
  U32Size = 8
  EraPeriod = 4
  MaxHeight = 3
  NoBlock = NoBlock
  NoHeight = NoHeight
CHECK_DEADLOCK FALSE
SPECIFICATION FairReceiptSpec
INVARIANTS
  ReceiptTypeOK
  ReceiptHoldsTx
  NoneIsDefinite
PROPERTIES
  SearchEnds
