CONSTANTS
  Setups <- MCSetups
  Plans <- MCTwoWaits
  FailCodes = {"Unavailable", "Aborted"}
  MaxCalls = 3
SPECIFICATION FairSpec
PROPERTY WaitHonoursCtx
CHECK_DEADLOCK FALSE
