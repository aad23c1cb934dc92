SPECIFICATION FairSpec
CONSTANTS
  Messages = {m1}
  Tasks = {t1, t2}
  Matching = {m1}
  OldMail = 2
  Word = 256
  LastMany = 2
  Skews <- Drift
  Window = 1
  KeyTTL = 4
  Timeout = 1
  MaxRetry = 1
  Null = Null
  MaxTime = 4
  MaxUpdates = 2
  MaxFaults = 1
INVARIANTS TypeOK 
CHECK_DEADLOCK FALSE
PROPERTIES ImplementsHandoff Delivered
