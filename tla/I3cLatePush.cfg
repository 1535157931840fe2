CONSTANTS
  MaxCalls = 2
  MaxCmds = 2
  TidCount = 2
  HaltMayFail = FALSE
SPECIFICATION Spec
INVARIANT ReturnCodeIsOwn
