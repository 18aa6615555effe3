SPECIFICATION FairSpec
CONSTANTS
  Frames = 7
  Candidates <- Candidates24
  Period = 2
  SecBase <- Base24
  SecRem <- Rem24
  SecMod = 4
  ApplySize = 8
  RingSize = 10
  WordCap = 8
  PrgCap = 6
  PreBuf = 2
  WordBoot <- Boot
INVARIANTS
  NoUnderrun
  RingsBounded
  WordBounded
  PendingOwned
  SlotLayout
PROPERTY MovieCompletes
