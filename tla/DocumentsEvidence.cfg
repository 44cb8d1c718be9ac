\* Evidence, indexed once and again.
SPECIFICATION FairSpec
CONSTANTS
  s1 = s1
  s2 = s2
  s3 = s3
  e1 = e1
  v1 = v1
  w1 = w1
  w2 = w2
  None = None
  Windows = {v1}
  Executions = {w1, w2}
  FaultKinds = {"crash", "lapse", "storage", "db", "model"}
  Docs = {e1}
  Evidence = {e1}
  KeyOf <- Nothings
  PrintOf <- Nothings
  ReceiptOf <- Nothings
  WindowOf <- NoWindow
  Invalid = {}
  MaxAttempts = 3
  MaxFaults = 3
INVARIANTS PublishGate
PROPERTIES ServiceIsKept AnsweredSettles
CHECK_DEADLOCK FALSE
