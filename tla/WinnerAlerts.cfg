SPECIFICATION FairSpec
CONSTANTS
  LastMinute = 2
  EventCap = 3
  AlertCap = 2
  MaxHeight = 4
  FaultSets = {{}, {"balance"}, {"balance", "late grader"}, {"balance", "missed minute", "late grader", "overflow"}}
CHECK_DEADLOCK FALSE
INVARIANTS WinnersFromPriorBlock SubmittedAtItsHeight
PROPERTIES NewOPREnds WinnersAdvance
