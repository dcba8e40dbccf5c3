CONSTANTS
  t1 = t1
  t2 = t2
  NoThread = NoThread
  Threads <- MCThreads
  MaxSubs = 3
  MaxBroadcasts = 2
  StderrFails = TRUE
  StderrBlocks = FALSE
SPECIFICATION Spec
INVARIANTS
  TypeOK
  FanOutComplete
  NoHalfRegistered
  LiveNeverPruned
  SomeDeadPruned
  ConsistentOrder
PROPERTY
  MutexReleased
PROPERTY
  SendersEdits
