SPECIFICATION Spec
CONSTANTS
  NThreads = 2
  NReruns = 3
  Configs <- MCConfigs
  Block = 4
  Lanes = 2
  Period = 16
  Entries <- MCEntries
  Highs <- MCHighs
INVARIANTS
  RerunsExact
  VectorsSuffice
  MergedComplete
