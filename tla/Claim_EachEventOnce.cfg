SPECIFICATION SpecFiles
CONSTANTS
  n1 = n1
  n2 = n2
  p1 = p1
  p2 = p2
  d = d
  Names = {n1}
  Paths = {p1}
  Folders = {d}
  PathOf <- PathOfAliases
  FolderOf <- FolderOfD
  FileOptions <- WriteOption
  FolderOptions <- WriteOption
  MaxInodes = 2
  MaxQueued = 2
  BufUnits = 3
  MaxPending = 1
PROPERTIES
  EachEventOnce
CHECK_DEADLOCK FALSE
