SPECIFICATION Spec
CONSTANTS
  MaxHistory = 4
  MaxPending = 6
  MaxEmit = 2
  Chunks <- MCChunks
  Wide = TRUE
  MaxWritten = 8
CHECK_DEADLOCK FALSE
INVARIANTS
  NeverPanics
