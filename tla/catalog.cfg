SPECIFICATION CatalogFairSpec
CONSTANTS
  Workers = {w1, w2}
  MaxSeq = 2
  MaxRows = 2
  MaxReceived = 1
  MaxHeld = 1
  MaxSpoiled = 1
  MaxConns = 3
  Statuses = {"A"}
  Batches <- InboundBatches
  NoQty = NoQty
  Faults = {"abort", "lostCommit"}
INVARIANTS  SeqInOnePlace
PROPERTY EveryRequestEnds
CHECK_DEADLOCK FALSE
