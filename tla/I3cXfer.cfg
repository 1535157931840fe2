CONSTANTS
  MaxCalls = 3
  MaxCmds = 2
  TidCount = 2
  HaltMayFail = TRUE
SPECIFICATION Spec
INVARIANTS PointerIsLive CompletedOnce OwnData
PROPERTIES CallsReturn ImplementsCall
