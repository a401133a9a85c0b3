CONSTANTS
  NumNodes = 6
  kcoverSize = 2
  kcoverTh = 3
  Netlists <- SmallNetlists
SPECIFICATION Spec
INVARIANTS
  TypeOK
  CoversAreCuts
  LeavesAreMet
  InternalsAreExact
  SearchIsComplete
CHECK_DEADLOCK FALSE
