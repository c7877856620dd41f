SPECIFICATION Spec
CONSTANTS
  Callers = {c1, c2, c3}
  Topics <- MCTopics
  Patterns <- MCPatterns
  Effects = {"ok", "fail", "subscribe", "publish"}
  MaxCalls = 4
  DeadEvents = {e1, e2}
  Replayers = {r1, r2}
  DlqMax = 1
  MaxReplays = 2
  Consumers = {k1, k2}
  MaxEntries = 2
  StreamMax = 1
  Batch = 2
  MaxReadRetries = 1
  MaxFaults = 2
  MaxStarts = 3
  WSClients = {"w1", "w2"}
  SSEClients = {"s1"}
  Rooms = {"lobby"}
  Users = {"ann", "bob"}
  UserOf <- MCUserOf
  Senders = {"b1"}
  SendCap = 1
  MaxSends = 2
  NotifySenders = {"log", "smtp1", "smtp2"}
  KindOf <- MCKindOf
  ChannelOf <- MCChannelOf
  Channels = {"email", "sms"}
  Notifiers = {n1, n2}
  MaxSendCalls = 3
INVARIANTS
  OnlyReentryStops DeadLettersKept DeliveredIsAccounted GoneIsForgotten SendTellsTheTruth
PROPERTY StreamDrains
CHECK_DEADLOCK FALSE
