SPECIFICATION FairSpec
INVARIANT EstimateEarned
PROPERTY WaitEnds
CONSTANTS
  Codes = {c1, c2}
  NoCode = NoCode
  Terminated = Terminated
  Consents = {TRUE, FALSE}
  Timeout = 4
  Grace = 2
  Interval = 1
  ScanLimit = 1
  Wanted = 3
  MaxActions = 2
  MaxTime = 4
  MaxEvents = 1
  MaxDrops = 0
  MaxFaults = 1
CHECK_DEADLOCK FALSE
