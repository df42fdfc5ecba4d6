SPECIFICATION Spec
CONSTANTS
  Names <- MCNames
  RootNames <- MCRootNames
  Nodes <- MCNodes
  InitialBuffer = 4
  StreamBuffer = 16
  MaxName = 2
  MaxContents = 2
  MaxObjects = 3
  MaxMerges = 1
CHECK_DEADLOCK FALSE
PROPERTIES WholeIsSet
