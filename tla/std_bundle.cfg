SPECIFICATION BundleSpec
CONSTANTS
  Graphs <- MCGraphs
  MaxThreads = 2
INVARIANTS BundleClosed
PROPERTIES BundleBuilt
CHECK_DEADLOCK FALSE
