\* The polling part of Algorithms.cfg, with what a comment of PullBestPrice says.
CONSTANTS
  Dollar = 100
  RateUnit = 3150000
  Configs <- MCConfigs
  Views <- MCViews
  MaxOff = 2
  MaxPulls = 2
  MaxExpired = 1
  None = None
SPECIFICATION PollingSpec
INVARIANT PriorityOrderIsKept
CHECK_DEADLOCK FALSE
