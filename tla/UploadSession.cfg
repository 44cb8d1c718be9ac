\* A replayed create call, two complete calls and a cancel call at once.
SPECIFICATION FairSpec
CONSTANTS
  u1 = u1
  u2 = u2
  key1 = key1
  c1 = c1
  c2 = c2
  k1 = k1
  None = None
  Uploads = {u1, u2}
  KeyOf <- SameKey
  Completions = {c1, c2}
  Cancels = {k1}
  Resized = {u2}
  Altered = {}
  FaultKinds = {"storage", "crash", "refusal"}
  MaxFaults = 2
INVARIANT WrongSizeNeverQueued
PROPERTIES AcceptanceIsFinal SessionEnds
CHECK_DEADLOCK FALSE
