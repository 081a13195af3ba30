\* Records of version 3 on, of which some list a winner less.
CONSTANTS
  ActivationHeight = 1
  V2GradingActivation = 1
  FloatingPegPriceActivation = 1
  V4HeightActivation = 2
  V20HeightActivation = 3
  SprSignatureActivation = 1
  V202EnhanceActivation = 1
  WinnersV1 = 1
  WinnersV2 = 2
  Failed = Failed
  BandParts = 4
  Cutoff = 3
  OPRMiners <- MCOPRMiners
  Stakers <- MCStakers
  Defects = {"fewer"}
  StakeDefects = {}
  MaxHeight = 3
  MaxEntries = 4
  MaxStakes = 1
  StakeHeights = {}
SPECIFICATION ChainSpec
INVARIANT GradersAgree
CHECK_DEADLOCK FALSE
