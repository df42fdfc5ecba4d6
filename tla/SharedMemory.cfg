SPECIFICATION RunSpec
CONSTANTS
  p1 = p1
  p2 = p2
  Procs = {p1, p2}
  Messages <- Texts
  Readers = {p1}
  MaxSets = 2
  MaxValue = 2
  MaxSegs = 1
INVARIANTS
  UnitAccounted
  WholeWhenFree
  TornOnlyUnderWrite
PROPERTIES
  ImplementsCriticalRegion
  WaiterServed
CHECK_DEADLOCK FALSE
