SPECIFICATION Spec
CONSTANTS
  MaxItems = 6
  MaxThreads = 4
  MayFail = TRUE
INVARIANTS ChunksCover BudgetKept MapInOrder OrderKept
CHECK_DEADLOCK FALSE
