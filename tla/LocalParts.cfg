SPECIFICATION RunSpec
CONSTANTS
  a1 = a1
  a2 = a2
  p1 = p1
  p2 = p2
  p3 = p3
  Names = {1, 2}
  Nodes = {a1, a2}
  Contents <- CacheBytes
  MaxEntries = 2
  MaxEvents = 5
  Capacity = 6
  PtrRange = 4
  FileLength = 9
  Formats <- ScanFormats
  MaxWritten = 8
  Texts <- Printed
  Leftovers <- LeftInMemory
  BufferSize = 16
  Magic <- HutiJ
  Types <- MessageTypes
  FrameContents <- ShortContents
  MaxStream = 24
  MaxBytes = 4
  MaxRead = 2
  InitialBuffer = 4
  StreamBuffer = 16
  Cases <- MCCases
  Objects <- MCObjects
  Childs <- MCChilds
  Abstract <- MCAbstract
  Bases <- MCBases
  Classes <- MCClasses
  Users = {p1, p2, p3}
INVARIANTS
  OnDiskHasFile
  PrintedOnce
  FindsAll
  LeftoversAddOnly
  RepliesAreMessages
  RoundTrip
  VersionsAgree
  DamageRefused
  LinksRestored
  WholeArrives
  DamageNoticed
PROPERTIES
  RemoveTakesAsked
  PopsInOrder
  ReadsAtPlace
  ScanEnds
  ParserEnds
  EndsWithClient
  Win32ImplementsRegion
  MergesLoseNothing
CHECK_DEADLOCK FALSE
