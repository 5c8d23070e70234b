CONSTANTS
  ROB_SIZE = 2
  MaxInsn = 3
SPECIFICATION DispatchSpec
INVARIANTS
  IllegalHalts
