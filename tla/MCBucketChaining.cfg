SPECIFICATION FairSpec
CONSTANTS
  CacheTuples = 2
  MaxPassBits = 13
  ForceTwoPasses = FALSE
  SmallPadding = 2
  RelationsR <- MCRelationsR
  RelationsS <- MCRelationsS
  Partitions = 2
  TableSize <- NextPow2
INVARIANTS
  IInv
PROPERTIES
  ImplementsJoin
  Termination
