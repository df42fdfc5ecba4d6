SPECIFICATION Spec
CONSTANTS
  a1 = a1
  a2 = a2
  Names = {1, 2}
  Nodes = {a1, a2}
  Contents <- Bytes
  MaxEntries = 2
INVARIANT
  TellsIfCached
