SPECIFICATION Spec
CONSTANTS
  Batch = 2
  MaxMsgs = 4
  EarlyStop = FALSE
CHECK_DEADLOCK FALSE
INVARIANTS SizesValid
