CONSTANTS
  MaxCalls = 2
  MaxBus = 3
  Addr = {a1, a2}
  NoAddr = none
  ZeroAddr = zero
  QueueCap = 2
SPECIFICATION Spec
INVARIANT OkDeliversOwn
PROPERTIES NotifyReturns DaNoticed
