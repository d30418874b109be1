SPECIFICATION LinkFairSpec
CONSTANTS
  None = None
  Conns = {1, 2}
  Tasks = {1, 2, 3}
  Plans <- MCPlans
  MaxStream = 2
  MaxReads = 1
  MaxFrame = 2
  Depth = 2
  MaxDrops = 1
CHECK_DEADLOCK FALSE
INVARIANTS LinkInv TransfersWhole
PROPERTY TasksEnd
