SPECIFICATION Spec
CONSTANTS
  r1 = r1  r2 = r2
  s1 = s1  s2 = s2  u1 = u1  u2 = u2
  Base = Base
  None = None
  Callers = {r1, r2}
  Seeds <- MCSeeds
  Alphabet <- MCAlphabet
  Raw <- MCRaw
  Documents = {"ui"}
  Asked <- MCAsked
  MaxCalls = 3
  MaxTroubles = 1
SYMMETRY MCSymmetry
CHECK_DEADLOCK FALSE
INVARIANTS TypeOK ConfWhole ListComplete SeededForGood NothingLeftBehind
