CONSTANTS
  SQ_SIZE = 4
  ROB_SIZE = 3
  Insns <- BytesAndBranches
SPECIFICATION Spec
INVARIANTS
  QueueMatchesWindow
  LoadsSeeYoungestOlder
  RetiredStoresAreWritten
PROPERTIES
  RequestsStay
