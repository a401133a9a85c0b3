CONSTANTS
  NumNodes = 6
  NumModules = 3
  Siblings <- MCSiblings
  LatchPairs <- MCLatchPairs
  Configs <- MCConfigs
  Shapes <- MCShapes
SPECIFICATION Spec
INVARIANTS
  TypeOK
  DominatedIsCovered
  ViewsAgree
  OverlapsResolved
  GoodStaysCovered
CHECK_DEADLOCK FALSE
