SPECIFICATION Spec
CONSTANTS
  Prompts = {p1, p2}
  Commands = {}
  Closers = {}
  None = None
  Parts = 3
  PipeRoom = 4
  MaxPending = 1
  MaxFrames = 0
INVARIANTS MessagesApart
CHECK_DEADLOCK FALSE
