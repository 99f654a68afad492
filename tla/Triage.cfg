SPECIFICATION Spec
CONSTANTS
  Mentions <- Words
  IntOf <- Integral
  Identifiers = {"42"}
  MetricNames <- Metrics
  ActionGroups <- Groups
  Fingerprints <- MixedFingerprints
  Kinds <- MixedKinds
  EndpointScore <- Endpoints
  ActionScore <- Settled
  KeyMarkets = {"MX"}
  Actions <- Withdrawals
  NoAction <- NoBusinessAction
  CriticalActions <- Withdrawals
  Countries = {"MX", "US"}
  NoCountry = ""
  NoUser = ""
  Minutes = {0, 1, 2}
  CurrentMinutes = 2
  BaselineMinutes = 2
  BaselineMinTotal = 2
  BaselineCriticalMinTotal = 1
  MinSampleSize = 2
  CriticalMinSampleSize = 1
  VelocityMinutes = 2
  MaxEvents = 3
  MaxRetries = 1
  MaxFaults = 1
CHECK_DEADLOCK FALSE
INVARIANTS
  TypeOK
  BucketsAreOfTheLog
  RegionalOutageAlerts
  UrgentIsAlerted
  CriticalLogIsUrgent
  EvidenceIsShown
PROPERTIES
  VelocityIsTheWindow
