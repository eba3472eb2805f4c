SPECIFICATION ClientSpec
CONSTANTS
  Batchable <- MCBatchable
  MaxCalls = 2
  MaxBytes = 9
  MaxEvents = 2
  NumEntries = 5
  PageSize = 2
  Callers = {a, b}
  Capacity = 1
  MaxRequests = 4
  MaxTxs = 2
  A = A
  B = B
  Branches <- MCBranches
  MaxHeight = 2
  NoBlock = NoBlock
  Body <- MCBody
  Kinds <- MCKinds
  Filters <- MCFilters
  Apps <- MCApps
  RuntimeGrids <- MCGrids
  CustodyCols = 2
  Inventory <- MCInventory
  NoOwner = NoOwner
INVARIANTS
  RoundTrip
  BatchRecovered
  DamageRefused
  EventsRead
  EachOnceInOrder
  DoneIsComplete
  OwnAnswer
  HandlesStable
  StateHeld
  OwnBlock
  QueryExact
  ChunksMatch
  CellsApart
  SharedBudget
  GivesUpLate
  OverrideObeyed
PROPERTIES
  PostedOnce
  IterationEnds
  CallsEnd
  CallEnds
CHECK_DEADLOCK FALSE
