SPECIFICATION Spec
CONSTANTS
  t1 = t1
  t2 = t2
  t3 = t3
  t4 = t4
  e1 = e1
  e2 = e2
  e3 = e3
  e4 = e4
  f1 = f1
  f2 = f2
  NoTask = NoTask
  Tasks = {t1, t2, t3, t4}
  Events = {e1, e2, e3, e4}
  EventOf <- OneEach4
  Fingerprints = {f1}
  FingerprintOf <- OneFingerprint4
  Poison = {e4}
  Measured = {}
  Bands = {"quiet", "loud"}
  InitialCells = {"present"}
  MaxRetries = 0
  Faults = {"expiry", "operator", "matcher"}
CHECK_DEADLOCK FALSE
INVARIANTS
  OneOpenIncident
  DeliveredNeverFailed
  OneAlertPerIncident
  AlertIsRecorded
PROPERTIES
  ImplementsBenchmark
