SPECIFICATION Spec
CONSTANTS
  Node <- MCNode
  DependsOn <- Chain
  Concurrency = 1
  MaxAttempts <- OneRetry
  Conv = {c1, c2, c3}
  None = None
  Clicks = {"Start", "Stop", "Retry", "Pause", "Restart", "Cascade"}
  MaxClicks = 3
SYMMETRY Sessions
INVARIANTS BlockedJustified RetryReactivates PauseCancels
PROPERTIES OutputsAtBind LeavingRunningCloses
CHECK_DEADLOCK FALSE
