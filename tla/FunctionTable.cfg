CONSTANTS
  numInputs = 3
  NumCovers = 3
  Functions <- SomeFunctions
SPECIFICATION Spec
INVARIANTS
  TypeOK
  LeavesInRole
  ClassesAreOrbits
CHECK_DEADLOCK FALSE
