SPECIFICATION Spec
CONSTANTS
  Prompts = {p1}
  Commands = {c1, c2}
  Closers = {k1}
  None = None
  Parts = 3
  PipeRoom = 2
  MaxPending = 1
  MaxFrames = 0
INVARIANTS TypeOK FramesWhole CancelSaveEOF PendingExact
CHECK_DEADLOCK FALSE
