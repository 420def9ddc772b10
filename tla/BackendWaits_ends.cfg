SPECIFICATION FairSpec
CONSTANTS
  m1 = m1  m2 = m2
  Callers = {m1, m2}
  Reader = Reader
  May <- MCMay
CHECK_DEADLOCK FALSE
PROPERTIES ProbeEnds FlowEnds
