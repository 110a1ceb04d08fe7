SPECIFICATION Spec
CONSTANTS
  f1 = f1
  f2 = f2
  w1 = w1
  w2 = w2
  r1 = r1
  none = none
  NoRequest = none
  Feed <- MCFeed
  Worker <- MCWorker
  Request <- MCNone
  MaxBatchSize = 2
INVARIANT NoPendingWritesAtEnd
