SPECIFICATION Spec
CONSTANTS
  Child = {"a", "b"}
  PipeCap = 2
  Input = 6
  MaxSent = 2
  Start = {"free", "spawn"}
INVARIANTS FdsExact CapturedWhole
PROPERTIES CaptureReturns CloseReturns
CHECK_DEADLOCK FALSE
