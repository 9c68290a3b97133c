SPECIFICATION Spec
CONSTANTS
  Roots = {r1, r2}
  LargeUnits = 99
  LargeAddrs = {41}
  PromotionAge = 3
  MaxReg = 1
  Programs <- MajorPrograms
SYMMETRY RootSymmetry
INVARIANTS RefsIntact
CHECK_DEADLOCK FALSE
