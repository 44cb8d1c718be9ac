\* Packages under crashes, lapsed leases, aborted builds and late writes,
\* with republished sources, changing access and the operator's cleanup.
SPECIFICATION FairSpec
CONSTANTS
  e1 = e1
  r1 = r1
  p1 = p1
  w1 = w1
  w2 = w2
  None = None
  Requests = {r1}
  Requesters = {e1}
  OwnerOf <- OneOwner
  ScopeOf <- AllParts
  Parts = {p1}
  CleanupScope = {p1}
  Executions = {w1, w2}
  MaxAttempts = 2
  MaxEntries = 2
  MaxActive = 1
  MaxActiveOrg = 2
  MaxVersion = 2
  FaultKinds = {"crash", "lapse", "storage", "invalid", "abort"}
  MaxFaults = 1
INVARIANT LinkServes
PROPERTIES CleanupIsExact PackagesAreCollected
CHECK_DEADLOCK FALSE
