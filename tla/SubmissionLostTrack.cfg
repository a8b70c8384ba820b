CONSTANTS
  MaxAttempts = 2
  MaxCrashes = 1
  Strict = FALSE
SPECIFICATION Spec
INVARIANT CrashKeepsTrack
CHECK_DEADLOCK FALSE
