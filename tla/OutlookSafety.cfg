SPECIFICATION Spec
CONSTANTS
  Messages = {m1}
  Tasks = {t1, t2, t3}
  Provider = "outlook"
  Matching = {m1}
  Extractable = {m1}
  Window = 1
  KeyTTL = 2
  TicksPerSecond = 2
  MaxRetry = 1
  Concurrency = 2
  Null = Null
  MaxTime = 3
  MaxFaults = 1
  MaxCrashes = 1
  MaxNotices = 2
SYMMETRY TaskSymmetry
INVARIANTS TypeOK RowBeforeEvent DuplicateRowsExplained
PROPERTIES ImplementsHandoff  LastSyncBacked
