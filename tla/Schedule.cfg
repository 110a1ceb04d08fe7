SPECIFICATION MCSpec
CONSTANTS
  Window <- MCWindow
  Instant <- MCInstant
  MaxIterations = 15
  Clock = {0, 540}
  Zone <- MCZone
  MaxId = 2
  MaxActs = 3
  Item <- MCItem
  Dated <- MCDated
  DefaultInterval = 8
  MinInterval = 1
  MaxInterval = 2
  LastItems = 3
  Week = 3
  Horizon = 2
  MaxTime = 3
INVARIANTS
  IntervalInRange
  MeanOfGaps
  OnlyCoveredSkipped
  LeavesAtFreeInstant
  FreeWhenWeekHasFree
  WindowShownAsEnforced
PROPERTIES
  LoopEnds
  NewestItemCounts
CHECK_DEADLOCK FALSE
