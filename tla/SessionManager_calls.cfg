SPECIFICATION Spec
CONSTANTS
  c1 = c1  c2 = c2  c3 = c3
  d1 = d1
  w1 = w1
  Free = Free
  Strict = Strict
  None = None
  Calls = {c1, c2, c3}
  Old = {d1}
  Clients = {}
  Presets = {Strict}
  Setting <- MCSetting
  Overrides = {"unset"}
  Before <- MCBefore
  Settled = 2
  Tries = 2
SYMMETRY CallSymmetry
CHECK_DEADLOCK FALSE
INVARIANTS TypeOK CoresOwned EnvelopeKept FileReady ClosedForGood
