SPECIFICATION Spec
INVARIANTS ExactIsTrue CompletionNotMissed
CONSTANTS
  Codes = {c1, c2}
  NoCode = NoCode
  Terminated = Terminated
  Consents = {FALSE}
  Timeout = 2
  Grace = 1
  Interval = 1
  ScanLimit = 4
  Wanted = 3
  MaxActions = 2
  MaxTime = 2
  MaxEvents = 3
  MaxDrops = 1
  MaxFaults = 0
SYMMETRY Symmetry
CHECK_DEADLOCK FALSE
