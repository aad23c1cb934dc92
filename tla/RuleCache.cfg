SPECIFICATION FairSpec
CONSTANTS
  Tenants = {t1}
  Readers = {r1, r2}
  Absent = Absent
  MaxEdits = 3
  MaxFaults = 2
INVARIANTS TypeOK StaleOnlyIfRacedOrLost
CHECK_DEADLOCK FALSE
PROPERTIES EditReachesCache
