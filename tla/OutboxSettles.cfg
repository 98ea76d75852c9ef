SPECIFICATION FairSpec
CONSTANTS
  docA = docA
  docB = docB
  title = title
  body = body
  v0 = v0
  v1 = v1
  v2 = v2
  tab1 = tab1
  tab2 = tab2
  w1 = w1
  w2 = w2
  Docs <- OneDoc
  Fields <- OneField
  Vals <- ThreeVals
  Initial = v0
  RemoteVals <- NewVal
  Tabs <- OneTab
  Workers <- TwoWorkers
  MaxAttempts = 2
  MaxRebases = 1
  MaxIntents = 2
  MaxRemoteWrites = 1
  MaxFaults = 1
  MaxRejections = 0
INVARIANTS
  CommittedOnceInOrder
  OverwritesOnlySeen
  NothingForgotten
  AcknowledgedStaysVisible
PROPERTIES
  LeaseHolderOnly
  SettledUnlessReverted
