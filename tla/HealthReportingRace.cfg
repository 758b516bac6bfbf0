CONSTANTS
  EnableDebugHeaders = FALSE
  DebugHeaderTimeout = 0
  Workers = {w1, w2}
  ErrorCheckInterval = 2
  MaxTime = 7
SPECIFICATION Spec
CHECK_DEADLOCK FALSE
INVARIANT ErrorShown
