SPECIFICATION Spec
CONSTANTS
  NThreads = 3
  Align = 2
  Lanes = 2
  WideLanes = 2
  ChunkTuples = 2
  FirstCapacity = 1
  Prealloc = {TRUE, FALSE}
  Databases <- MCDatabases
  ResultKinds <- MCResultKinds
INVARIANTS
  RowsExclusive
  ResultIsFilter
  ChunksSound
  ResultComplete
  
