CONSTANTS
  Setups <- MCSetups
  Plans <- MCPlans
  FailCodes = {"Unavailable", "Aborted"}
  MaxCalls = 3
SPECIFICATION SigningSpec
INVARIANTS TypeOK ClosesItsOwn ClosedRefuses GatewayAccounting LeftBehind AcceptedNotDenied WaitsTakeTurns ObserverSeesAll VerifiesDialledHost
PROPERTIES CallsReturn StoppedStreamExits
CHECK_DEADLOCK FALSE
