SPECIFICATION CallersSpec
CONSTANTS
  a = a
  b = b
  p1 = p1
  p2 = p2
  d = d
  Characters = {a, b}
  Names <- NameAndLonger
  Paths = {p1}
  Folders = {d}
  PathOf <- PathOfAliases
  FolderOf <- FolderOfD
  FileOptions <- WriteOption
  FolderOptions <- AttrOption
  MaxInodes = 1
  MaxQueued = 2
  BufUnits = 3
  MaxPending = 1
  ReadMax = 3
  InCap = 7
  OutCap = 2
  MaxRequests = 2
  Requests <- EMessage
  IoctlMayFail = TRUE
INVARIANTS
  NotificationsWereRequested
  TypeOK
PROPERTIES
  ImplementsChangeFeed
CHECK_DEADLOCK FALSE
