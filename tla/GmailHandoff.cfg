SPECIFICATION Spec
CONSTANTS
  Messages = {m1}
  Tasks = {t1, t2}
  Matching = {m1}
  FirstIds = {8}
  Page = 2
  Window = 1
  KeyTTL = 3
  Timeout = 1
  MaxRetry = 1
  Null = Null
  MaxTime = 3
  MaxNotices = 2
  MaxOwner = 1
  MaxFaults = 1
  MaxCrashes = 1
CHECK_DEADLOCK FALSE
SYMMETRY TaskSymmetry
INVARIANTS TypeOK 
PROPERTIES ImplementsHandoff
