CONSTANTS
  NumNodes = 6
  Types = {"MX", "ND", "INV", "RAM"}
  NoType = NoType
  isSymmetric <- Symmetries
  Netlists <- SmallNetlists
  WordTables <- Tables
SPECIFICATION FairSpec
INVARIANTS
  TypeOK
  InputsDealtWith
PROPERTIES
  Implements
  Terminates
CHECK_DEADLOCK FALSE
