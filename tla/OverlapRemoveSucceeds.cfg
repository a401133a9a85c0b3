CONSTANTS
  NumNodes = 6
  NumModules = 3
  Siblings <- MCSiblings
  LatchPairs <- MCLatchPairs
  Configs <- MCConfigs
  Shapes <- MCShapes
SPECIFICATION Spec
INVARIANT RemoveSucceeds
CHECK_DEADLOCK FALSE
