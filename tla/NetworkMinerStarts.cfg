\* The network part of Processes.cfg, with what the README of networkMiner says.
CONSTANTS
  MaxHeight = 3
  MaxFaults = 1
  MaxGlobalStatsBuckets = 2
  MonitorCapacity = 2
  MakerCapacity = 2
  None = None
SPECIFICATION Spec
PROPERTY StartsOnEverySignal
CHECK_DEADLOCK FALSE
