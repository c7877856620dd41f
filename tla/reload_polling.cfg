SPECIFICATION Spec
CONSTANTS
  Names = {n1}
  Users = {u1}
  PoolOf <- MCPoolOf
  MaxReloads = 1
  MaxOutages = 0
INVARIANT PollingRestarts
CHECK_DEADLOCK FALSE
