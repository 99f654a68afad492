SPECIFICATION Spec
\* Times in half-seconds.
CONSTANTS
  MaxAttempts = 3
  SlackTime = 20
  Pause <- DefaultPause
  PagerDutyTime = 20
  EmailTime = 90
  LockTtl = 600
  SlackId = "C0123"
  MaxRuns = 2
CHECK_DEADLOCK FALSE
INVARIANTS
  TypeOK
  OneConfirmationPerWin
  FallbackOnlyAfterFailure
  FailureKeepsSlackAttempts
  RepliesFollowTheAlert
  DeliveryFitsTheLock
PROPERTIES
  ImplementsBenchmark
