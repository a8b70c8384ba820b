CONSTANTS
  Texts <- MCTexts
  FailCodes = {"Aborted", "Unknown", "NotFound", "DeadlineExceeded", "FailedPrecondition"}
  MaxPeers = 2
SPECIFICATION Spec
INVARIANTS CodePrefixWins StrictOnlyForgets PeerTextNotChaincode
