SPECIFICATION Spec
CONSTANTS
  VBudget = 6
  Cost = 1
  Bundle = 3
  Guard = 1
  CramCost = 2
  DebtMax = 255
  LastFrame = 4
  Switches <- MCSwitches
  RunSets <- MCShortLoad
  Range = 7
  MaxStall = 9
  MaxLate = 4
  Ring = 48
  Lead = 12
  SyncMin = 0
  SyncMax = 22
  Page = 2
  Samples = 5
  Rate = 2
  PreFrames = 2
  Dropped = {}
INVARIANT LatenessBecomesDebt
