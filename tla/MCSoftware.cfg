SPECIFICATION SoftwareSpec
CONSTANTS
  Words <- MCWords
  Old <- MCOld
  Assemblies <- MCAssemblies
  Arrays <- MCArrays
  EdgeSets <- MCEdgeSets
  HEAP_SIZE = 80
  HeapStart = 40
  Priorities = {0, 1, 2}
  MaxNodes = 4
  NUM_HISTORY = 3
  Dump <- MCDump
  MaxEdge = 6
  Times <- MCTimes
INVARIANTS
  DecodersAgree
  EncodingsRoundTrip
  Sorted
  Reached
  BlocksOwnedOnce
  QueueOrdered
  RingHoldsLatest
  CursorIsShown
PROPERTY Stops
