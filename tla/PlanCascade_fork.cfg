SPECIFICATION Spec
CONSTANTS
  None = None
  top = top  other = other  s1 = s1  s2 = s2  f1 = f1  f2 = f2  a = a  b = b
  Plan = {1}
  Session = {top}
  Node = {1}
  DependsOn <- Single
  Concurrency = 2
  MaxAttempts <- Once
  Conv = {top, other, s1, s2, f1, f2}
  Origin <- Alone
  Host <- AloneHost
  FreshConv <- Fresh1
  Answer = {a, b}
  Ops <- AllOps
  Budget <- Racing
INVARIANTS NeverMistaken NoLinger ForkAdopted
PROPERTIES CancelDoesNothing
CHECK_DEADLOCK FALSE
