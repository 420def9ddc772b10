SPECIFICATION Spec
CONSTANTS
  r1 = r1  r2 = r2
  s1 = s1  s2 = s2  u1 = u1  u2 = u2
  Base = Base
  None = None
  Callers = {r1, r2}
  Seeds <- MCSeeds
  Alphabet <- MCAlphabet
  Raw <- MCRaw
  Documents = {"ui"}
  Asked <- MCFirst
  MaxCalls = 2
  MaxTroubles = 0
CHECK_DEADLOCK FALSE
PROPERTY NeverSeededOver
