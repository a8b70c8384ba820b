CONSTANTS
  N = 3
  Block <- MCBlock
  StartBlock = 1
  Durable = TRUE
  RetryMin = 4
  RetryMax = 2
  OwnsConn = TRUE
  Denied = TRUE
  MaxDrops = 0
  MaxCalls = 1
SPECIFICATION FairSpec
PROPERTY DenialReturns
CHECK_DEADLOCK FALSE
