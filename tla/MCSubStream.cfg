CONSTANTS
  full = full
  bare = bare
  Branches <- MCBranches
  EmptyBranches <- MCEmpty
  MaxHeight = 3
  FreeHeight = 2
  NoBlock = NoBlock
  NoHeight = NoHeight
SPECIFICATION StreamSpec
INVARIANTS
  StreamTypeOK
  NoneSkipped
  BodyMatchesHash
PROPERTIES
  ReturnedOnce
  EventuallyReturned
