\* One cell through changes, faults, daily scans and a ZIP request, or an operator's refresh.
SPECIFICATION LedgerSpec
CONSTANTS
  c1 = c1
  z1 = z1
  k1 = k1
  k2 = k2
  w1 = w1
  None = None
  Cells <- OneCell
  Zips = {z1}
  Clis = {k1, k2}
  Executions = {w1}
  MaxAttempts = 2
  PageSize = 1
  MaxChanges = 1
  MaxGen = 3
  FaultKinds = {"crash", "lapse", "storage", "render"}
  MaxFaults = 1
INVARIANTS UnmarkedIsCurrent ObjectsAccounted
PROPERTY MarkedCellsAreRendered
CHECK_DEADLOCK FALSE
