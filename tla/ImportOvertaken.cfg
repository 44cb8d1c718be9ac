\* A claim that read the run before it was published takes it over after.
SPECIFICATION Spec
CONSTANTS
  j1 = j1
  j2 = j2
  p1 = p1
  p2 = p2
  w1 = w1
  w2 = w2
  id1 = id1
  a = a
  b = b
  None = None
  NoSum = NoSum
  Jobs = {j1, j2}
  Executions = {w1, w2}
  Parts = {p1, p2}
  Sums = {a, b}
  Manifest <- OverlapManifest
  Level <- TwoLevels
  Scope <- OneScope
  WorkerIds = {id1}
  IdOf <- OneId
  MaxAttempts = 2
  FaultKinds = {"crash", "lapse", "storage", "db"}
  MaxFaults = 2
SYMMETRY Interchangeable
INVARIANT LostLeaseKeepsCurrentData
CHECK_DEADLOCK FALSE
