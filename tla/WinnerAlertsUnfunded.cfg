SPECIFICATION FairSpec
CONSTANTS
  LastMinute = 2
  EventCap = 3
  AlertCap = 2
  MaxHeight = 4
  FaultSets = {{"balance"}}
CHECK_DEADLOCK FALSE
INVARIANT OPRListsPriorWinners
