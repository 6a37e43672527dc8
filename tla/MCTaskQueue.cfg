SPECIFICATION FairSpec
CONSTANTS
  t1 = t1
  t2 = t2
  t3 = t3
  NoThread = NoThread
  NoTask = 0
  Threads <- MCThreads
  Tasks <- MCTasks
  Owner <- MCOwner
  alloc_size = 2
INVARIANTS
  TasksConserved
  StopsWhenEmpty
PROPERTIES
  Drained
