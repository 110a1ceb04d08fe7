SPECIFICATION FairSpec
CONSTANTS
  f1 = f1
  w1 = w1
  r1 = r1
  none = none
  NoRequest = none
  Feed <- MCOneFeed
  Worker <- MCNone
  Request <- MCOneRequest
  MaxBatchSize = 2
  MaxVersion = 1
  Suspendable <- MCNone
  Deletable <- MCOneFeed
  Windowed <- MCOneFeed
  Truncation = TRUE
  Contention = TRUE
PROPERTY ClaimsReleased
