CONSTANTS
  ROB_SIZE = 3
  MaxInsn = 6
SPECIFICATION Spec
INVARIANTS
  WindowInOrder
  NoStaleCompletion
PROPERTIES
  RetiresInOrder
  WfiRetiresLast
