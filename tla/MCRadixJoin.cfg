SPECIFICATION FairSpec
CONSTANTS
  CacheTuples = 1
  MaxPassBits = 2
  ForceTwoPasses = FALSE
  SmallPadding = 1
  NThreads = 3
  RelationsR <- MCRelationsR
  RelationsS <- MCRelationsS
INVARIANTS
  CollisionFree
  ClustersComplete
  QueuesSound
  NothingLost
PROPERTIES
  ImplementsJoin
  Termination
