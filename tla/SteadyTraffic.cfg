SPECIFICATION Spec
CONSTANTS
  Mentions <- Words
  IntOf <- Integral
  Identifiers = {"42"}
  MetricNames <- Metrics
  ActionGroups <- Groups
  Fingerprints <- HealthyFingerprint
  Kinds <- HealthyOnly
  EndpointScore <- Endpoints
  ActionScore <- Settled
  KeyMarkets = {"MX"}
  Actions <- Withdrawals
  NoAction <- NoBusinessAction
  CriticalActions <- Withdrawals
  Countries = {"MX", "US"}
  NoCountry = ""
  NoUser = ""
  Minutes = {0, 1, 2, 3}
  CurrentMinutes = 2
  BaselineMinutes = 2
  BaselineMinTotal = 2
  BaselineCriticalMinTotal = 1
  MinSampleSize = 2
  CriticalMinSampleSize = 1
  VelocityMinutes = 2
  MaxEvents = 4
  MaxRetries = 1
  MaxFaults = 0
CHECK_DEADLOCK FALSE
INVARIANTS
  QuietWhenStable
