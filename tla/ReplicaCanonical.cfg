SPECIFICATION Spec
CONSTANTS
  docA = docA
  docB = docB
  title = title
  body = body
  v0 = v0
  v1 = v1
  v2 = v2
  tab1 = tab1
  tab2 = tab2
  w1 = w1
  w2 = w2
  Docs <- TwoDocs
  Fields <- OneField
  Vals <- TwoVals
  Initial = v0
  RemoteVals <- TwoVals
  Tabs <- TwoTabs
  Workers <- OneWorker
  MaxAttempts = 2
  MaxRebases = 1
  MaxIntents = 2
  MaxRemoteWrites = 0
  MaxFaults = 0
  MaxRejections = 1
INVARIANTS
  ReplicaIsCommitted
