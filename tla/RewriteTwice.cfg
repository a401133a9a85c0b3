CONSTANTS
  NumNodes = 9
  NoNode = NoNode
  RemovesNor2xb = FALSE
  Netlists <- LateMergeNetlists
SPECIFICATION Spec
INVARIANT
  NoAssertFails
CHECK_DEADLOCK FALSE
