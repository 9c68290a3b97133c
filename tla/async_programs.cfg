SPECIFICATION FairSpec
CONSTANTS
  Handles = {h1, h2, h3}
  h1 = h1
  h2 = h2
  h3 = h3
  Main = Main
  None = None
  MaxDelay = 1
  MaxLen = 2
  MaxOps = 2
  Programs <- AwaitOncePrograms
INVARIANTS NoDanglingAwait CountTrue
PROPERTIES AwaitReturns TasksSpec
CHECK_DEADLOCK FALSE
