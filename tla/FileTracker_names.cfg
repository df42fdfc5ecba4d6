SPECIFICATION SpecOnce
CONSTANTS
  n1 = n1
  n2 = n2
  p1 = p1
  p2 = p2
  d = d
  Names = {n1, n2}
  Paths = {p1, p2}
  Folders = {d}
  PathOf <- PathOfDistinct
  FolderOf <- FolderOfD
  FileOptions <- WriteOption
  FolderOptions <- WriteOption
  MaxInodes = 2
  MaxQueued = 1
  BufUnits = 2
  MaxPending = 1
INVARIANTS
  DeadHandleAccounted
  HandleNamesItsFile
CHECK_DEADLOCK FALSE
