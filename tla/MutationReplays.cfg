SPECIFICATION FairSpec
CONSTANTS
  retried = retried
  once = once
  in1 = in1
  in2 = in2
  call1 = call1
  call2 = call2
  key1 = key1
  h1 = h1
  h2 = h2
  Invocations <- Both
  Maximum <- MaximumOfBoth
  Idempotent <- Retried
  Inputs = {in1, in2}
  Capacity = 1
  Calls = {call1, call2}
  Keys = {key1}
  CallCapacity = 2
  Handlers = {h1, h2}
  MaxRequests = 4
  MaxFaults = 2
INVARIANTS
  SentAgainOnlyAfterRetryable
  AnswersAgree
  RevisionsCountCalls
PROPERTIES
  SettledRowsStay
  EveryClaimIsResolved
CHECK_DEADLOCK FALSE
