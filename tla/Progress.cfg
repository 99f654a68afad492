SPECIFICATION FairSpec
CONSTANTS
  t1 = t1
  t2 = t2
  t3 = t3
  t4 = t4
  e1 = e1
  e2 = e2
  e3 = e3
  e4 = e4
  f1 = f1
  f2 = f2
  NoTask = NoTask
  Tasks = {t1, t2, t3}
  Events = {e1, e2, e3}
  EventOf <- OneEach3
  Fingerprints = {f1, f2}
  FingerprintOf <- TwoFingerprints3
  Poison = {}
  Measured = {e1, e2}
  Bands = {"loud"}
  InitialCells = {"absent", "present"}
  MaxRetries = 1
  Faults = {"redis"}
CHECK_DEADLOCK FALSE
INVARIANTS
  EnrichedOnlyIfDelivered
  WinCommittedBeforeEnrichment
  ProcessedIffLinked
PROPERTIES
  EveryTaskEnds
