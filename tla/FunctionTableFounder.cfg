CONSTANTS
  numInputs = 3
  NumCovers = 3
  Functions <- SomeFunctions
SPECIFICATION Spec
INVARIANT FounderInRole
CHECK_DEADLOCK FALSE
