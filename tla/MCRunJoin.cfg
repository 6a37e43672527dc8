SPECIFICATION FairSpec
CONSTANTS
  NThreads = 2
  Levels = 1
  Workload <- MCWorkload
  BucketCounts <- MCNumBuckets
  BUCKET_SIZE = 2
  PHT_UNROLL_FACTOR = 2
  NParts = 2
  W = 2
  L = 4
  Batch = 2
  Chunk = 4
  Garbage <- MCGarbage
  NUM_BITS = 2
INVARIANTS
  Exclusive
  NoUseAfterFree
  PartitionsComplete
  TablesSound
  ReportsSound
  ResultCorrect
PROPERTIES
  ImplementsJoin
  Termination
