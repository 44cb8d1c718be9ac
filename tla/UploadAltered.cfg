\* One source of the declared length with other bytes.
SPECIFICATION Spec
CONSTANTS
  u1 = u1
  u2 = u2
  key1 = key1
  c1 = c1
  c2 = c2
  k1 = k1
  None = None
  Uploads = {u1, u2}
  KeyOf <- SameKey
  Completions = {c1, c2}
  Cancels = {k1}
  Resized = {}
  Altered = {u2}
  FaultKinds = {"storage", "crash", "refusal"}
  MaxFaults = 2
INVARIANT CorruptNeverQueued
CHECK_DEADLOCK FALSE
