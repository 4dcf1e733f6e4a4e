SPECIFICATION FairSpec
CONSTANTS
  root = root
  outer = outer
  inner = inner
  ta = ta
  tb = tb
  d1 = d1
  d2 = d2
  dx = dx
  s1 = s1
  s2 = s2
  sx = sx
  i1 = i1
  i2 = i2
  Folders = {root, outer, inner}
  Root = root
  Parent <- MCParent
  Tasks = {ta, tb}
  FolderOf <- MCFolderOf
  Definitions = {d1, d2, dx}
  Descriptors = {s1, s2, sx}
  Rejected = {dx, sx}
  WithPassword = {d2}
  Instances = {i1, i2}
  Missing = Missing
  Modes = {"create", "update", "create_or_update"}
  Worlds <- MCWorlds
  MaxFaults = 1
  MaxForeign = 2
INVARIANTS AnswersTrue ListingsComplete
PROPERTY ServiceContract
CHECK_DEADLOCK FALSE
