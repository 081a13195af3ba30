\* Three miners and room for one list that nobody reads any more.
SPECIFICATION FairSpec
CONSTANTS
  NumMiners = 3
  Keep = 1
  CommandCap = 2
  MaxBlocks = 1
CHECK_DEADLOCK FALSE
PROPERTY MinuteNineEnds
