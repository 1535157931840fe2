CONSTANTS
  Lengths = {1}
  BufferModeSize = 2
  DmaModeMaxSize = 2
  DmaLengths = {2}
  Patience = 1
  MaxCalls = 1
SPECIFICATION Spec
INVARIANT HeldBetweenOps
