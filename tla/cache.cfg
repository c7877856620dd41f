SPECIFICATION FairSpec
CONSTANTS
  n1 = n1
  n2 = n2
  c3 = c3
  Nodes = {n1, n2}
  Callers = {c1, c2, c3}
  Home <- TwoNodes
  Keys = {k1}
  Values = {v1}
  L1MaxSize = 1
  DefaultTTL = 2
  TTLs = {1}
  NilTTL = 1
  Ops = {"get", "set", "setNil", "delete", "publish"}
  Faults = {"redis"}
  Nothing = Nothing
  NilValue = NilValue
INVARIANTS LevelsAgree DeletedStaysDeleted
PROPERTY EveryCallReturns
