SPECIFICATION Spec
CONSTANTS
  Handles <- MCHandles
  Known = {"EN4B", "EX4B", "WREAR", "rd", "wr", "er"}
  Cmds = {"EN4B", "EX4B", "WREAR", "rd", "wr", "er", "odd"}
  MaxIndex = 4
  Unit = 4
  PerReg = 2
  Limit = 32
  MaxOps = 5
PROPERTY LockedNotEnabled
CHECK_DEADLOCK FALSE
