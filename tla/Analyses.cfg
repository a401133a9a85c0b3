CONSTANTS
  NumNodes = 14
  NoNode = NoNode
  HeadDiff = 3
  ChainDiff = 2
  CounterDiff = 3
  MaxCounterSize = 8
  Netlists <- SmallNetlists
SPECIFICATION FairAnalyses
INVARIANTS
  AnalysesTypeOK
  ConnectionsAgree
  SpIsTheOnlyPath
  EveryChainInARegister
  RegistersAreClasses
  EveryCounterReported
PROPERTY AnalysesEnd
CHECK_DEADLOCK FALSE
