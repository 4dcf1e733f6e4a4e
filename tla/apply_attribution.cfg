\* Compensation of a change that another writer made.
SPECIFICATION Spec
CONSTANTS
  ns = ns
  sub = sub
  upper = upper
  lower = lower
  c1 = c1
  c2 = c2
  cp = cp
  s0 = s0
  s1 = s1
  Missing = Missing
  NoSec = NoSec
  NotRead = NotRead
  ReadError = ReadError
  NoBackup = NoBackup
  TaskPaths = {upper, lower}
  FolderPaths = {ns, sub}
  Namespace = ns
  Parent <- MCParent
  FolderOf <- MCFolderOf
  Depth <- MCDepth
  Rank <- MCRank
  Contents = {c1, c2, cp}
  PwBacked = {cp}
  Secs = {s0, s1}
  DefaultSec = s0
  Jobs <- OvertakenJobs
  ForeignTasks <- AllForeign
  MaxFaults = 0
  MaxForeign = 1
PROPERTIES
  CompensatesOwnWrites
