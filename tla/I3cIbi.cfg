CONSTANTS
  MaxIbis = 3
  MaxWords = 2
  MaxErrs = 1
  QueueCap = 2
SPECIFICATION IbiSpec
INVARIANT RequestsAreReal
PROPERTY IbisArrive
