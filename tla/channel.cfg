SPECIFICATION ChanSpec
CONSTANTS
  Value = {"x", "y"}
  Capacity = 4
  Compact = 1
  MaxSent = 7
INVARIANTS FifoOrder WithinCapacity CopiesPaid
PROPERTY ClosedDrains
CHECK_DEADLOCK FALSE
