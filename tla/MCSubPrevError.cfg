CONSTANTS
  left = left
  right = right
  Branches <- MCBranches
  MaxHeight = 2
  NoBlock = NoBlock
  NoHeight = NoHeight
SYMMETRY MCSymmetry
SPECIFICATION HistorySpec
INVARIANTS
  PrevErrorKeepsCursor
