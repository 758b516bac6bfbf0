CONSTANTS
  EnableDebugHeaders = TRUE
  DebugHeaderTimeout = 2
  Workers = {w1, w2}
  ErrorCheckInterval = 2
  MaxTime = 5
SPECIFICATION Spec
CHECK_DEADLOCK FALSE
INVARIANTS ErrorShownInTurn RecoveryShownInTurn HealthIsPromised DebugHeaderJustified DebugHeaderNotLost
