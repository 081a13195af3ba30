SPECIFICATION SpecAll
CONSTANTS
  NumMiners = 2
  Keep = 1
  CommandCap = 2
  MaxBlocks = 2
  ActivationHeight = 1
  V2GradingActivation = 3
  FloatingPegPriceActivation = 4
  V4HeightActivation = 5
  V20HeightActivation = 6
  SprSignatureActivation = 2
  V202EnhanceActivation = 3
  WinnersV1 = 1
  WinnersV2 = 2
  Failed = Failed
  BandParts = 4
  Cutoff = 3
  OPRMiners <- MCOPRMiners
  Stakers <- MCStakers
  Defects = {"extids", "diffbytes", "verbytes", "version", "junk", "height", "winners", "zero", "missing",
             "identity", "address", "extra", "fewer"}
  StakeDefects = {"signature", "height", "version"}
  MaxHeight = 6
  MaxEntries = 4
  MaxStakes = 4
  StakeHeights = {1, 2, 3}
CHECK_DEADLOCK FALSE
INVARIANTS
  NoncesMatchOPR BlocksDoNotOverlap LeftOutAreLate
  OwnRecordsAreAccepted GradersGradeAlike GradingPeelsTheFurthest StakersArePaidOnce
PROPERTIES SubmittedListIsFrozen EveryBlockIsWritten
