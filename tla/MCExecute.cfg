SPECIFICATION ExecuteSpec
CONSTANTS
  WINDOW = 4
  NUM_STAGE = 2
  Distances = {1}
INVARIANT InOneUnit
PROPERTIES
  SafeUnits
  FairUnits
