CONSTANTS
  NumNodes = 6
  NoNode = NoNode
  RemovesNor2xb = TRUE
  Netlists <- SmallNetlists
SPECIFICATION Spec
INVARIANTS
  TypeOK
  SignalsPreserved
  FanoutsTrackReaders
  NoLiveReaderOfDead
PROPERTIES
  NothingLeftToRewrite
  Terminates
CHECK_DEADLOCK FALSE
