SPECIFICATION FairSpec
INVARIANTS InOrderOnce NothingSkipped EndAccounted
PROPERTIES StopEnds Arrives
CONSTANTS
  MaxRecords = 3
  MaxRemovals = 2
  MaxFaults = 1
  PageSize = 2
  QueueSize = 1
CHECK_DEADLOCK FALSE
