CONSTANTS
  N = 4
  Block <- MCBlockFour
  StartBlock <- MCNextCommit
  Durable = FALSE
  RetryMin <- MCNegative
  RetryMax = 3
  OwnsConn = FALSE
  Denied = FALSE
  MaxDrops = 3
  MaxCalls = 2
SPECIFICATION Spec
INVARIANTS NoGap BackoffInRange NeverGivesUp
CHECK_DEADLOCK FALSE
