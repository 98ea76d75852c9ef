SPECIFICATION FairSpec
CONSTANTS
  r1 = r1
  k1 = k1
  k2 = k2
  c1 = c1
  h1 = h1
  h2 = h2
  w1 = w1
  w2 = w2
  Nobody = Nobody
  Requests <- OneRequest
  Keys <- TwoKeys
  Cancellations <- OneCancellation
  Handlers <- TwoHandlers
  Workers <- TwoWorkers
  ClientAdds <- Nothing
  Results <- AnyResult
  MaxAttempts = 2
  MaxEvents = 6
  MaxActive = 1
  MaxFaults = 3
INVARIANTS
  RequestsAreIdempotent
  AttemptsInOrder
  SuccessIsComplete
  RecoveryIsValid
PROPERTIES
  ImplementsExecutionJob
  EveryExecutionEnds
CHECK_DEADLOCK FALSE
