CONSTANTS
  N = 3
  Block <- MCBlock
  StartBlock = 1
  Durable = TRUE
  RetryMin = 4
  RetryMax = 2
  OwnsConn = TRUE
  Denied = FALSE
  MaxDrops = 1
  MaxCalls = 1
SPECIFICATION SharedSpec
INVARIANT NoneSkippedByCall
CHECK_DEADLOCK FALSE
