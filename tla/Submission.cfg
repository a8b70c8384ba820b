CONSTANTS
  MaxAttempts = 3
  MaxCrashes = 1
  Strict = FALSE
SPECIFICATION FairSpec
INVARIANTS TypeOK AtMostOnce FailureIsDefinite SuccessIsReal UnknownIsTraceable
PROPERTIES StoredNotForgotten OrderedIsSettled
CHECK_DEADLOCK FALSE
