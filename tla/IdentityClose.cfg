CONSTANTS
  Goroutines = {g1, g2}
SPECIFICATION Spec
INVARIANT CloseIsSafe
CHECK_DEADLOCK FALSE
