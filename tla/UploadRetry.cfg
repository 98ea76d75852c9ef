SPECIFICATION Spec
CONSTANTS
  r1 = r1
  k1 = k1
  k2 = k2
  c1 = c1
  h1 = h1
  h2 = h2
  w1 = w1
  w2 = w2
  Nobody = Nobody
  Requests <- OneRequest
  Keys <- OneKey
  Cancellations <- NoCancellation
  Handlers <- OneHandler
  Workers <- TwoWorkers
  ClientAdds <- Nothing
  Results <- Success
  MaxAttempts = 2
  MaxEvents = 10
  MaxActive = 1
  MaxFaults = 1
INVARIANTS
  UploadsAreIdempotent
CHECK_DEADLOCK FALSE
