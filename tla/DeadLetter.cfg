SPECIFICATION Spec
CONSTANTS
  t1 = t1
  t2 = t2
  t3 = t3
  t4 = t4
  e1 = e1
  e2 = e2
  e3 = e3
  e4 = e4
  f1 = f1
  f2 = f2
  NoTask = NoTask
  Tasks = {t1, t2}
  Events = {e1, e2}
  EventOf <- OneEach2
  Fingerprints = {f1}
  FingerprintOf <- OneFingerprint2
  Poison = {}
  Measured = {}
  Bands = {"loud"}
  InitialCells = {"present"}
  MaxRetries = 3
  Faults = {"db"}
CHECK_DEADLOCK FALSE
INVARIANT
  NoEventDropped
