SPECIFICATION LegacySpec
CONSTANTS
  XferModes = {"Dma", "Buff", "Byte"}
  Lens = {1, 3}
  BufLen = 3
  Word = 1
  Pool = 2
  TargetAddrs = {0, 1}
  BusErrors = {"ARBIT_LOSS"}
  MaxCalls = 2
  MaxTaken = 8
INVARIANT LeftQuietAlways
CHECK_DEADLOCK FALSE
