SPECIFICATION Spec
CONSTANTS
  Drivers = {"Core", "Legacy"}
  Modes = {"Dma", "Buff", "Byte"}
  Size = 2
  WriteLens = {0, 2, 3}
  ReadLens = {1, 3}
  AppLen = 2
  MaxXfers = 3
INVARIANTS Attentive Delivered Answered
PROPERTY MissedOverAddress
CHECK_DEADLOCK FALSE
