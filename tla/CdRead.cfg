SPECIFICATION FairSpec
CONSTANTS
  Total <- MCTotal
  StageAt = 4
  CdcDepth = 3
  LossAt <- MCInterior
  MaxLost = 5
  FileMsf = 150
INVARIANTS
  TypeOK
  ExactFile
  RemainingExact
PROPERTY ReadCompletes
