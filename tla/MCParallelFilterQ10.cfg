SPECIFICATION Spec
CONSTANTS
  NThreads = 3
  Inputs <- MCQ10
  Align = 2
  Lanes = 2
  WideLanes = 2
INVARIANTS
  ResultIsFilter
