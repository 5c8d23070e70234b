CONSTANTS
  ROB_SIZE = 3
  MaxInsn = 4
  RS_SIZE = 2
  r0 = r0
  r1 = r1
  r2 = r2
  p1 = p1
  p2 = p2
  Regs = {r0, r1}
  Zero = r0
  Ports = {p1, p2}
  Shapes <- TwoOperands
SPECIFICATION CoreSpec
INVARIANTS
  NoneLost
  StationInOrder
  MapTrue
  OperandsCorrect
