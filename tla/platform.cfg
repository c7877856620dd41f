SPECIFICATION Spec
CONSTANTS
  Names = {n1, n2}
  Users = {u1, u2}
  PoolOf <- MCPoolOf
  MaxReloads = 2
  MaxOutages = 1
  Ids = {i1, i2}
  Services = {s1, s2}
  Watchers = {w1, w2}
  ChanCap = 2
  MaxChanges = 3
  Callers = {p1, p2}
  Flags = {f1, f2}
  NoName = none
  MaxFlagCalls = 4
  MaxSaveErrors = 1
  Servers = {h1, h2}
  maxRequests = 2
  window = 3
  MaxTime = 6
  MaxRedisErrors = 1
  Actions = {"login", "create"}
  AuditUsers = {"ann"}
  MaxEntries = 3
  Migrators = {m1, m2}
  FileNames = {1, 2, 3}
  Statements = 2
  MaxApplies = 2
  MaxFailures = 1
  Jobs = {j1, j2}
  MaxKey = 3
  TypeOfRow <- MCTypeOfRow
  Algorithms = {"gzip", "zip"}
  PageSize = 2
  InsertSize = 2
  MaxJobs = 2
  MaxWrites = 1
  MaxSeconds = 2
  Admins = {c1, c2}
  RowIds = {r1, r2}
  Preset = {sysA}
  Columns = {"x", "y"}
  CodeOf <- MCCodeOf
  NoRow = NoRow
  MaxRequests = 3
  MaxStarts = 2
  MaxDbErrors = 1
  Cells = {1, 2, 3}
  KindOf <- MCKindOf
  Texts = {"x", "y"}
  MaxKeys = 3
  BatchSize = 1
  MaxSaves = 2
  Writers = {g1, g2}
  MaxSize = 2
  MaxAge = 1
  MaxBackup = 2
  MaxLines = 4
  MaxDay = 4
  MaxRestarts = 1
  MaxOpenErrors = 1
  NoFile = NoFile
  Askers = {a1}
  Pieces = 3
  ChunkCap = 1
  MaxRetries = 1
  MaxAsks = 2
  MaxSwitches = 1
SYMMETRY MCSymmetry
INVARIANTS
  OpenPoolsAreNamed OnePoller WatcherSeesLatest FlagsSurviveRestart 
  QueriesAgree RecordedInOrder   
  EditsAreKept StringsStayReadable AcceptedLinesAreKept 
CHECK_DEADLOCK FALSE
