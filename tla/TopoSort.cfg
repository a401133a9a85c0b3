CONSTANTS
  NumNodes = 4
  MaxIterations = 3
  Netlists <- MCNetlists
SPECIFICATION Spec
INVARIANTS
  TypeOK
  TopoOrder
  LevelsExact
  CoversReady
CHECK_DEADLOCK FALSE
