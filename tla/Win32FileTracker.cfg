SPECIFICATION FairSpec
CONSTANTS
  d1 = d1
  d2 = d2
  n1 = n1
  n2 = n2
  Dirs = {d1, d2}
  Names = {n1, n2}
  Requested = {n1}
  MaxHeld = 1
  MaxReads = 2
  MaxPending = 1
INVARIANTS
  PollInBounds
  ReportedWhereWritten
PROPERTIES
  ImplementsChangeFeed
  ResetServed
  CompletedReadReported
CHECK_DEADLOCK FALSE
