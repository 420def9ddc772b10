SPECIFICATION Spec
CONSTANTS
  None = None
  top = top  other = other  s1 = s1  s2 = s2  f1 = f1  f2 = f2  a = a  b = b
  Plan = {1, 2, 3}
  Session = {s1, s2, top}
  Node = {1, 2}
  DependsOn <- Line
  Concurrency = 2
  MaxAttempts <- Once
  Conv = {top, other, s1, s2, f1, f2}
  Origin <- Chain3
  Host <- Chain3Host
  FreshConv <- Fresh2
  Answer = {a, b}
  Ops <- AllOps
  Budget <- Tall
INVARIANTS ForkReplacesNode
CHECK_DEADLOCK FALSE
