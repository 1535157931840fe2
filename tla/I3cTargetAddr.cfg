CONSTANTS
  MaxCalls = 1
  MaxBus = 3
  Addr = {a1, a2}
  NoAddr = none
  ZeroAddr = zero
  QueueCap = 2
SPECIFICATION Spec
INVARIANT TargetAddrCurrent
