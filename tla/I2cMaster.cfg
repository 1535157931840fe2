CONSTANTS
  Lengths = {0, 3}
  BufferModeSize = 2
  DmaModeMaxSize = 2
  DmaLengths = {1, 2}
  Patience = 2
  MaxCalls = 2
SPECIFICATION Spec
INVARIANTS OkMeansDelivered ErrorsSurface HeldWithinOp
