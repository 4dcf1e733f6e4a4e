\* Alone with three failing calls, and beside another writer with one.
SPECIFICATION FairSpec
CONSTANTS
  ns = ns
  sub = sub
  upper = upper
  lower = lower
  c1 = c1
  c2 = c2
  cp = cp
  s0 = s0
  s1 = s1
  Missing = Missing
  NoSec = NoSec
  NotRead = NotRead
  ReadError = ReadError
  NoBackup = NoBackup
  TaskPaths = {upper, lower}
  FolderPaths = {ns, sub}
  Namespace = ns
  Parent <- MCParent
  FolderOf <- MCFolderOf
  Depth <- MCDepth
  Rank <- MCRank
  Contents = {c1, c2, cp}
  PwBacked = {cp}
  Secs = {s0, s1}
  DefaultSec = s0
  Jobs <- MCJobs
  ForeignTasks <- AllForeign
  MaxFaults = 3
  MaxForeign = 2
INVARIANTS
  RollbackRestores
  SuccessConverges
  RollbackAccounting
  SnapshotsComplete
  StopsAccounted
PROPERTIES
  WritesOnlyObserved
  OwnershipRespected
  Terminates
