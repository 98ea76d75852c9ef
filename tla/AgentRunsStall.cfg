SPECIFICATION FairSpec
CONSTANTS
  w1 = w1
  w2 = w2
  Workers <- TwoWorkers
  MaxInvocations = 2
  RefusalIsConflict = FALSE
  MaxFaults = 2
PROPERTIES
  EveryRunEnds
CHECK_DEADLOCK FALSE
