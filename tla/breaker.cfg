SPECIFICATION Spec
CONSTANTS
  Callers = {c1, c2}
  FailureThreshold = 2
  SuccessThreshold = 2
  RetryMax = 1
  NoOne = NoOne
  LockClients = {l1, l2, l3}
  Locks = {k1, k2}
  Nobody = Nobody
INVARIANTS NoTransitionMissed MutualExclusion
PROPERTY OpenRecovers
CHECK_DEADLOCK FALSE
