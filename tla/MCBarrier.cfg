SPECIFICATION FairSpec
CONSTANTS
  t1 = t1
  t2 = t2
  t3 = t3
  t4 = t4
  Threads <- MCThreads
  Rounds = 6
  RoundMod = 2
  CntrMod = 6
INVARIANTS
  FinalizerRunsAlone
  NoOvertaking
  IInv
PROPERTIES
  ImplementsBarrier
  EveryWaitReturns
