CONSTANTS
  DEPTH = 3
  NumPC = 3
SPECIFICATION FairSpec
INVARIANTS
  Linked
PROPERTIES
  Delivered
