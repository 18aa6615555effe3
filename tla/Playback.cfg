SPECIFICATION FairSpec
CONSTANTS
  VBudget = 6
  Cost = 1
  Bundle = 3
  Guard = 1
  CramCost = 2
  DebtMax = 2
  LastFrame = 3
  Switches <- MCSwitches
  RunSets <- MCRunSets
  Range = 4
  MaxStall = 5
  MaxLate = 2
  Ring = 48
  Lead = 12
  SyncMin = 0
  SyncMax = 22
  Page = 2
  Samples = 5
  Rate = 2
  PreFrames = 2
  Dropped = {2}
INVARIANTS BlankFits DebtIsLateness PaletteFollows
PROPERTIES OnTime SoundAhead MovieEnds
