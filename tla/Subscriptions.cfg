SPECIFICATION FairSpec
CONSTANTS
  Providers = {"outlook", "gmail"}
  Subs = {w1, w2, w3, w4, w5, w6}
  Watch = w1
  Life = 3
  Horizon = 2
  None = None
  MaxOwner = 2
  MaxFaults = 2
INVARIANTS TypeOK NoLapse
CHECK_DEADLOCK FALSE
PROPERTIES Recovered RevocationNoticed
