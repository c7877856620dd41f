SPECIFICATION Spec
CONSTANTS
  n1 = n1
  n2 = n2
  c3 = c3
  Nodes = {n1}
  Callers = {c1, c2}
  Home <- OneNode
  Keys = {k1, k2, k3}
  Values = {v1}
  L1MaxSize = 2
  DefaultTTL = 1
  TTLs = {1}
  NilTTL = 1
  Ops = {"get", "exists", "getMany", "setMany", "clear"}
  Faults = {"redis"}
  Nothing = Nothing
  NilValue = NilValue
PROPERTY RecentSurvives
SYMMETRY KeySymmetry
