SPECIFICATION FairSpec
CONSTANTS
  Messages = {m1, m2}
  Tasks = {t1, t2, t3}
  Provider = "resend"
  Matching = {m1, m2}
  Extractable = {m1}
  Window = 1
  KeyTTL = 2
  TicksPerSecond = 1
  MaxRetry = 1
  Concurrency = 2
  Null = Null
  MaxTime = 1
  MaxFaults = 1
  MaxCrashes = 0
  MaxNotices = 1
PROPERTIES Delivered
