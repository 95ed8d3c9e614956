SPECIFICATION FairSpec
CONSTANTS
  MaxRows = 3
  NTables = 2
  TableOf <- MCTableOf
  Scoped = {1}
  BatchSize = 2
  MaxFaults = 1
PROPERTIES FlipIsComplete SkipIsHonest RetrySucceeds NoteTakesEffect
CHECK_DEADLOCK FALSE
