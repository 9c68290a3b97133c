SPECIFICATION Spec
CONSTANTS
  Roots = {r1, r2}
  LargeUnits = 3
  LargeAddrs = {41}
  PromotionAge = 2
  MaxReg = 2
  Programs <- AllPrograms
CONSTRAINT UntilLost
SYMMETRY RootSymmetry
INVARIANTS SpacesPacked RememberedExact
PROPERTIES RefsKept
CHECK_DEADLOCK FALSE
