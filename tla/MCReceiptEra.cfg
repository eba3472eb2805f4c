CONSTANTS
  quiet = quiet
  tx = tx
  other = other
  reap = reap
  Branches <- MCFewBranches
  TxBranches <- MCFewTx
  OtherBranches = {}
  ReapBranches = {}
  FirstNonce = 1
  TxNonce = 1
  Period = 1
  U32Size = 8
  EraPeriod = 4
  MaxHeight = 3
  NoBlock = NoBlock
  NoHeight = NoHeight
CHECK_DEADLOCK FALSE
SPECIFICATION ReceiptSpec
INVARIANTS
  NoneInWindow
