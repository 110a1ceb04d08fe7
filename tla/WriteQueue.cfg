SPECIFICATION FairSpec
CONSTANTS
  j1 = j1
  j2 = j2
  j3 = j3
  j4 = j4
  Job <- MCJob4
  SyncJob <- MCSync
  MaxBatchSize = 2
  MaxRetries = 3
  MaxBusy = 3
INVARIANTS
  TypeOK
  AppliedOnce
  NothingForgotten
  CommittedIsAnswered
  AnswerOnlyAfterExecution
PROPERTIES
  BatchesAreAtomic
  EveryJobSettles
  StopEndsWorker
  AnsweredUnlessLost
\* StuckForGood is a deadlock, which the properties allow for.
CHECK_DEADLOCK FALSE
