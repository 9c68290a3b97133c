SPECIFICATION Spec
CONSTANTS
  Scenes <- MCScenes
  Inodes = {1, 2, 3, 4, 5, 6, 7, 8}
INVARIANTS Transparent LinksKnown Settled
PROPERTIES Served
CHECK_DEADLOCK FALSE
