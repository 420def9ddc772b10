SPECIFICATION Spec
CONSTANTS
  Node <- MCNode
  DependsOn <- Join
  Concurrency = 1
  MaxAttempts <- OneRetry
  Conv = {c1, c2, c3}
  None = None
  Clicks = {"Start", "Load", "Pause", "Resume", "Stop", "Restart", "Retry", "Close", "Reopen", "Cascade"}
  MaxClicks = 3
SYMMETRY Sessions
INVARIANTS TypeOK ResourcesHeld RunnerBook NoDeadlock
PROPERTIES HistoryKept
CHECK_DEADLOCK FALSE
