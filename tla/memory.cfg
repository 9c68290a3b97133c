SPECIFICATION Spec
CONSTANTS
  Thread = {t1, t2}
  Addr = {1, 2, 3}
  Pools = 2
  MaxHeld = 3
  Programs <- AllPrograms
  PosSlot <- SharePos
  NegSlot <- ShareNeg
SYMMETRY Threads
INVARIANTS PoolsExact HeldIsLive ReleaseDrops CountsExact
CHECK_DEADLOCK FALSE
