SPECIFICATION FairSpec
CONSTANTS
  Accounts = {a1}
  Supervisors = {s1, s2}
  Malformed = {}
  Backoff0 = 1
  BackoffMax = 2
  FailWindow = 2
  FailLimit = 2
  Capacity = 1
  None = None
  MaxChanges = 2
  MaxFaults = 1
INVARIANTS TypeOK OneSupervisor NobodyWatchesTheGone
PROPERTIES SuspensionJustified DisconnectSticks CancelledStops UpdatesHeard MissingIsStarted
