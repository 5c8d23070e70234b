CONSTANTS
  SQ_SIZE = 4
  ROB_SIZE = 5
  Insns <- Words
SPECIFICATION FairSpec
INVARIANTS
  LoadsSeeYoungestOlder
PROPERTIES
  OldestLeaves
