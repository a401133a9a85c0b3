CONSTANTS
  NumNodes = 34
  MinChain = 3
  Netlists <- AggregateNetlists
  Searches <- AggregateSearches
SPECIFICATION Aggregate
INVARIANTS
  AggregateTypeOK
  EveryChainInAnAdder
  AddersAreSound
  EqualsGrouped
PROPERTIES
  MergingAddsNoOverlap
  MergingKeepsNodes
CHECK_DEADLOCK FALSE
