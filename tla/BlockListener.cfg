CONSTANTS
  Height = 4
  StartBlock = 0
  Durable = TRUE
  RetryMin = 1
  RetryMax = 3
  OwnsConn = TRUE
  MaxDrops = 3
  MaxCalls = 3
SPECIFICATION FairSpec
INVARIANTS TypeOK NoRedelivery HandlerErrorSurfaces NeverGivesUp
PROPERTIES ImplementsDelivery EventuallyHandled EndReturns
CHECK_DEADLOCK FALSE
