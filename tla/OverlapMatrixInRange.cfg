CONSTANTS
  NumNodes = 4
  NumModules = 3
  Siblings <- NoSiblings
  LatchPairs <- NoSiblings
  Configs <- GlpkOnly
  Shapes <- FourShapes
SPECIFICATION Spec
INVARIANT MatrixInRange
CHECK_DEADLOCK FALSE
