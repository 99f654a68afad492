SPECIFICATION FairSpec
\* One unit of time is the replay window.
CONSTANTS
  e1 = e1
  e2 = e2
  n = n
  NoNonce = NoNonce
  Nonces = {n}
  Events = {e1, e2}
  Sources = {"sentry", "datadog"}
  SourceOf <- Receivers
  Offered <- Requested
  Skew <- Clocks
  Window = 1
  MaxCopies = 2
  MaxClock = 2
  Faults = {"redis", "crash", "secret", "worker"}
CHECK_DEADLOCK FALSE
INVARIANTS
  TypeOK
  OneCopyPerWindow
  RefusedCopyWasSpent
PROPERTIES
  AcceptedReachesWorker
