SPECIFICATION FairSpec
CONSTANTS
  Messages = {m1, m2}
  Tasks = {t1, t2}
  Matching = {m1, m2}
  FirstIds = {8, 10}
  Page = 2
  Window = 1
  KeyTTL = 3
  Timeout = 1
  MaxRetry = 1
  Null = Null
  MaxTime = 1
  MaxNotices = 1
  MaxOwner = 0
  MaxFaults = 1
  MaxCrashes = 0
CHECK_DEADLOCK FALSE
 
PROPERTIES Delivered
