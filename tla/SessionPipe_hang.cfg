SPECIFICATION FairSpec
CONSTANTS
  Prompts = {p1}
  Commands = {}
  Closers = {k1}
  None = None
  Parts = 2
  PipeRoom = 2
  MaxPending = 2
  MaxFrames = 1
INVARIANTS KillClosesStdin
PROPERTIES CloseBounded
CHECK_DEADLOCK FALSE
