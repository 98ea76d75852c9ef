SPECIFICATION Spec
CONSTANTS
  d1 = d1
  d2 = d2
  x = x
  y = y
  v1 = v1
  v2 = v2
  v3 = v3
  p1 = p1
  p2 = p2
  p3 = p3
  c1 = c1
  c2 = c2
  c3 = c3
  c4 = c4
  h1 = h1
  h2 = h2
  DocIds = {d1, d2}
  Fields = {x}
  Vals = {v1, v2}
  Paths = {p1, p2, p3}
  MaxRev = 3
  CommitIds = {c1, c2}
  Handlers = {h1, h2}
  Shapes <- AllShapes
  MaxRequests = 2
  Touched = {d1, d2}
  Seeds <- TwoDocs
SYMMETRY Symmetry
INVARIANTS
  ValidWorkspace
  OneRecordPerCommit
  GuardedStructureIsBaseline
  PlannerAgreesWithServer
PROPERTIES
  CountersFollowValues
  ImplementsCommitLog
