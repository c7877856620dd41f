SPECIFICATION FairSpec
CONSTANTS
  Tasks = {1}
  Callers = {c1, c2}
  Configs <- MixedConfigs
  Ops = {"add", "update", "delete", "pause", "resume", "run"}
  Faults = {"crash", "stop", "store"}
  MaxMade = 3
  MaxRuns = 1
INVARIANT CronFollowsStore
PROPERTY StopTerminates
