SPECIFICATION Spec
CONSTANTS
  f1 = f1
  w1 = w1
  r1 = r1
  none = none
  NoRequest = none
  Feed <- MCOneFeed
  Worker <- MCOneWorker
  Request <- MCOneRequest
  MaxBatchSize = 2
  MaxVersion = 2
  Suspendable <- MCOneFeed
  Deletable <- MCOneFeed
  Windowed <- MCNone
  Truncation = FALSE
  Contention = FALSE
INVARIANTS
  TypeOK
  FetchingExact
  LastFetchedMeansSaved
  ValidatorsCovered
  SuccessIsNotLost
