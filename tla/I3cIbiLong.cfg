CONSTANTS
  MaxIbis = 2
  MaxWords = 2
  MaxErrs = 0
  QueueCap = 2
SPECIFICATION IbiSpec
INVARIANT NoneInvented
