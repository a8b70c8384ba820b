CONSTANTS
  N = 3
  Block <- MCBlock
  StartBlock = 1
  Durable = TRUE
  RetryMin = 4
  RetryMax = 2
  OwnsConn = TRUE
  Denied = FALSE
  MaxDrops = 2
  MaxCalls = 2
SPECIFICATION FairSpec
INVARIANTS TypeOK NoGap CheckpointCovered NoRedelivery GatewayAccounting
PROPERTIES ImplementsDelivery EventuallyHandled EndReturns GatewaysReleased
CHECK_DEADLOCK FALSE
