CONSTANTS
  N = 3
  Block <- MCBlock
  StartBlock <- MCNextCommit
  Durable = FALSE
  RetryMin = 4
  RetryMax = 2
  OwnsConn = TRUE
  Denied = FALSE
  MaxDrops = 1
  MaxCalls = 1
SPECIFICATION Spec
INVARIANT NoneSkippedByCall
CHECK_DEADLOCK FALSE
