SPECIFICATION FairSpec
CONSTANTS
  Prompts = {p1}
  Commands = {}
  Closers = {k1, k2}
  None = None
  Parts = 2
  PipeRoom = 1
  MaxPending = 2
  MaxFrames = 1
INVARIANTS ClosedMeansGone
PROPERTIES StatusKept CallsReturn
CHECK_DEADLOCK FALSE
