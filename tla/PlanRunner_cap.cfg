SPECIFICATION Spec
CONSTANTS
  Node <- MCNode
  DependsOn <- Fork
  Concurrency = 1
  MaxAttempts <- OneRetry
  Conv = {c1, c2, c3}
  None = None
  Clicks = {"Start"}
  MaxClicks = 1
SYMMETRY Sessions
INVARIANTS ConcurrencyCap RunningAlive
CHECK_DEADLOCK FALSE
