SPECIFICATION FairSpec
CONSTANTS
  Messages = {m1}
  Tasks = {t1, t2}
  Provider = "outlook"
  Matching = {m1}
  Extractable = {m1}
  Window = 1
  KeyTTL = 2
  TicksPerSecond = 2
  MaxRetry = 1
  Concurrency = 2
  Null = Null
  MaxTime = 1
  MaxFaults = 1
  MaxCrashes = 0
  MaxNotices = 1
PROPERTIES RescheduledIsFetched
