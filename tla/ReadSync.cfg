SPECIFICATION Spec
CONSTANTS
  p1 = p1
  p2 = p2
  o1 = o1
  Item <- MCItem
  CreatedAt <- MCCreatedAt
  Poll <- MCPoll
  Op <- MCOp
  Marked <- MCMarked
  PageSize = 1
  Overlap = 1
  MaxTime = 1
SYMMETRY MCSymmetry
INVARIANTS
  TypeOK
  NothingMissed
