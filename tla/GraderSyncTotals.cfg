SPECIFICATION Spec
CONSTANTS
  Heights <- MCHeights
  Hashes <- MCHashes
  Addrs = {"a", "b", "z"}
  MinV1 = 1
  MinV2 = 2
  V2GradingActivation = 3
  GradeMinimum <- MCGrade
  GetRewardFromPlace <- MCReward
  NoBlock = NoBlock
  Chains <- MCChains
  MaxHeight = 5
  HeadLag = 1
  AlertCap = 2
INVARIANT TotalNumberRecordsKept
