SPECIFICATION IntervalSpec
CONSTANTS
  i1 = i1
  i2 = i2
  i3 = i3
  Item <- MCItem
  Dated <- MCDated
  DefaultInterval = 8
  MinInterval = 1
  MaxInterval = 2
  LastItems = 3
  Week = 3
  Horizon = 2
  MaxTime = 3
PROPERTY HybridTimestamp
CHECK_DEADLOCK FALSE
