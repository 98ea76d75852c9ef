SPECIFICATION Spec
CONSTANTS
  w1 = w1
  w2 = w2
  Workers <- TwoWorkers
  MaxInvocations = 2
  RefusalIsConflict = TRUE
  MaxFaults = 2
INVARIANTS
  OldOperationsAreFenced
  CancelIsFinal
  SuccessIsItsOwn
  InvocationsWithinBudget
PROPERTIES
  ChargedBeforeGoingOn
CHECK_DEADLOCK FALSE
