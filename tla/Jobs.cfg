SPECIFICATION FairSpec
CONSTANTS
  x = x
  y = y
  None = None
  JobCount = 2
  JobLimit = 2
  Through = 4
  Sessions = {x, y}
  StageOf <- MCStage
  WidthOf <- MCWidth
  StemOf <- MCStem
  Capacity <- MCCapacity
INVARIANTS OneOwner ExactGrant
PROPERTIES AllEnd
CHECK_DEADLOCK FALSE
