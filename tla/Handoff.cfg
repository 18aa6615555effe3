SPECIFICATION FairSpec
CONSTANT FrameCounts <- MCFrameCounts
INVARIANTS
  TypeOK
  FrameCoherent
  WordBufOfParity
  SoundOnlyWithPicture
  StageIntact
  Inv
PROPERTIES
  BankQuiet
  ImplementsRelay
