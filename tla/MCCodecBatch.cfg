SPECIFICATION CodecSpec
CONSTANTS
  Batchable <- MCBatchable
  MaxCalls = 2
  MaxBytes = 9
INVARIANTS
  DecodableFromBatch
CHECK_DEADLOCK FALSE
