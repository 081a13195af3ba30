SPECIFICATION SpecAll
CONSTANTS
  Keep = 2
  Miners = {m1, m2}
  Difficulties = {0, 1, 2}
  MaxNonces = 4
  Txids <- SomeTxids
  Amounts = {1, 3, 7}
  Rates = {1, 3}
  PegRates = {1, 2}
  Banks = {0, 4, 9}
  MaxInt64 = 20
  MaxRequests = 3
  Burners = {alice, bob}
  Chain <- SomeChain
  StartBlock = 2
  Network = "Test"
  MaxUpdates = 5
  Base = 3
  MinerIDs = {0, 1, 4}
  Space = 1024
  Precision = 7
  MiningPeriod = 3
  SortedLists <- SomeLists
  Spots = 3
  Cutoffs = {1, 3, 4, 6}
  MaxTries = 10
  Dollar = 100
  RateUnit = 3150000
  Configs <- MCConfigs
  Views <- MCViews
  MaxOff = 2
  MaxPulls = 2
  MaxExpired = 1
  None = None
CHECK_DEADLOCK FALSE
INVARIANTS
  WorstIsWorst WritesTheBest
  PayoutsSpendTheBank ConversionsCreateNoValue BurnsCreditedOnce
  MinersSearchApart FloorFollowsTheCutoff
  OneFreshAnswerPerPull OneOutlierDoesNotWin EveryAssetIsPriced
