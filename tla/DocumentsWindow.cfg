\* Imports competing for a window, one of them sent twice.
SPECIFICATION Spec
CONSTANTS
  s1 = s1
  s2 = s2
  s3 = s3
  e1 = e1
  v1 = v1
  w1 = w1
  w2 = w2
  None = None
  Windows = {v1}
  Executions = {w1, w2}
  FaultKinds = {"crash", "lapse", "storage", "db", "model"}
  Docs = {s1, s2, s3}
  Evidence = {}
  KeyOf <- RepeatedKey
  PrintOf <- RepeatedPrint
  ReceiptOf <- NoReceipt
  WindowOf <- OneWindow
  Invalid = {s3}
  MaxAttempts = 2
  MaxFaults = 2
SYMMETRY Interchangeable
INVARIANTS AcceptedIsKept ArchivedIsNotActive
CHECK_DEADLOCK FALSE
