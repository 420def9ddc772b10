SPECIFICATION FairSpec
CONSTANTS
  Node <- MCNode
  DependsOn <- Fork
  Concurrency = 2
  MaxAttempts <- OneRetry
  Conv = {c1, c2, c3, c4}
  None = None
  Clicks = {"Start", "Pause", "Resume", "Stop", "Retry", "Close", "Reopen"}
  MaxClicks = 3
PROPERTIES NoLeak RunEnds
CHECK_DEADLOCK FALSE
