\* Network: three blocks and one fault. Staking: two payout addresses, two
\* blocks, minutes missed and notified twice. Fetch: four entries, two workers.
CONSTANTS
  MaxHeight = 3
  MaxFaults = 1
  MaxGlobalStatsBuckets = 2
  MonitorCapacity = 2
  MakerCapacity = 2
  None = None
  Addresses <- MCAddresses
  MaxStaked = 2
  AlertCap = 2
  CommandCap = 1
  MaxTries = 2
  MaxErrors = 1
  Nothing = Nothing
  Count = 4
  Workers = {w1, w2}
  Buffer = 2
SPECIFICATION SpecAll
INVARIANTS
  MinedOPRIsCurrent StatsKeepTheNewest OneWriterPerBlock FetchIsSequential NoUseAfterClose
PROPERTIES DeliveredIsMined WritersEnd FetchEnds
CHECK_DEADLOCK FALSE
