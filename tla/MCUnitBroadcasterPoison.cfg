CONSTANTS
  t1 = t1
  t2 = t2
  NoThread = NoThread
  Threads <- MCThreads
  MaxSubs = 3
  MaxBroadcasts = 2
  StderrFails = TRUE
  StderrBlocks = FALSE
SPECIFICATION Spec
INVARIANT
  NoCollateralPanic
