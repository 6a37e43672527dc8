SPECIFICATION Spec
CONSTANTS
  CacheTuples = 2
  MaxPassBits = 1
  ForceTwoPasses = TRUE
  SmallPadding = 2
  Clusters1 <- MCClusters1
  R = 1
  D = 2
  StaleKeys <- MCFilledKeys
  Unroll = FALSE
INVARIANTS
  PartitionSound
  ReadsSound
PROPERTIES
  ImplementsJoin
