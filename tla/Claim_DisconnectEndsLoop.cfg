SPECIFICATION FairDaemonSpec
CONSTANTS
  a = a
  b = b
  p1 = p1
  p2 = p2
  d = d
  Characters = {a, b}
  Names <- OneName
  Paths = {p1}
  Folders = {d}
  PathOf <- PathOfDistinct
  FolderOf <- FolderOfD
  FileOptions <- WriteOption
  FolderOptions <- WriteOption
  MaxInodes = 1
  MaxQueued = 1
  BufUnits = 3
  MaxPending = 1
  ReadMax = 6
  InCap = 3
  OutCap = 2
  MaxRequests = 1
  Requests <- Common
  IoctlMayFail = FALSE
PROPERTIES
  DisconnectEndsLoop
CHECK_DEADLOCK FALSE
