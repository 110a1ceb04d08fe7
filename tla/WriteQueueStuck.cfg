SPECIFICATION FairSpec
CONSTANTS
  j1 = j1
  j2 = j2
  j3 = j3
  j4 = j4
  Job <- MCJob3
  SyncJob <- MCSync
  MaxBatchSize = 2
  MaxRetries = 3
  MaxBusy = 2
PROPERTY FinalFlushEnds
CHECK_DEADLOCK FALSE
