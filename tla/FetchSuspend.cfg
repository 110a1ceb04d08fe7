SPECIFICATION Spec
CONSTANTS
  f1 = f1
  w1 = w1
  r1 = r1
  none = none
  NoRequest = none
  Feed <- MCOneFeed
  Worker <- MCOneWorker
  Request <- MCNone
  MaxBatchSize = 2
  MaxVersion = 1
  Suspendable <- MCOneFeed
  Deletable <- MCNone
  Windowed <- MCNone
  Truncation = FALSE
  Contention = FALSE
PROPERTY SuspendsTakePrecedence
