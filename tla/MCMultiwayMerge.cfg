SPECIFICATION FairSpec
CONSTANTS
  Runs <- MCRuns
  FifoSizes = {2, 3, 4}
INVARIANTS
  RingsSound
PROPERTIES
  ImplementsMerge
  Termination
