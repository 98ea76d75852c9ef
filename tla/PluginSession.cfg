SPECIFICATION FairSpec
CONSTANTS
  host = host
  runtime = runtime
  Ends <- Both
  MaxClosed = 1
  MaxMessages = 4
  MaxRequests <- TwoAndOne
  MaxFaults = 1
INVARIANTS
  OwnQuestion
  NoSequenceViolation
  LateAnswerIsHarmless
PROPERTIES
  AbandonedWorkStops
CHECK_DEADLOCK FALSE
