SPECIFICATION FairDaemonSpecWrites
CONSTANTS
  a = a
  b = b
  p1 = p1
  p2 = p2
  d = d
  Characters = {a, b}
  Names <- TwoNames
  Paths = {p1, p2}
  Folders = {d}
  PathOf <- PathOfDistinct
  FolderOf <- FolderOfD
  FileOptions <- WriteOption
  FolderOptions <- WriteOption
  MaxInodes = 2
  MaxQueued = 1
  BufUnits = 3
  MaxPending = 2
  ReadMax = 3
  InCap = 3
  OutCap = 1
  MaxRequests = 2
  Requests <- Common
  IoctlMayFail = TRUE
PROPERTIES
  ImplementsClientFeed
  WriteForwarded
CHECK_DEADLOCK FALSE
