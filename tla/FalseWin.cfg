SPECIFICATION Spec
CONSTANTS
  s1 = s1
  s2 = s2
  h1 = h1
  h2 = h2
  i1 = i1
  i2 = i2
  k1 = k1
  k2 = k2
  k3 = k3
  NoRun = NoRun
  Syncs = {s1}
  Hooks = {h1, h2}
  HookTicket <- TwoHooks
  Incidents = {i1}
  Tickets = {k1, k3}
  AlertAt <- OneAlert
  Created <- EarlyAndLate
  Confidence <- Explained
  Terms <- AllTerms
  KeywordGroups <- Keywords
  Moments <- TwoMoments
  Threshold = 50
  LookBack <- MinuteLookBack
  Window <- DayWindow
  TieGrace = 30
  Lookup <- TwoHours
  PageSize <- HundredPerPage
  MaxRetries = 2
  Faults = {}
CHECK_DEADLOCK FALSE
INVARIANTS
  WinBeatsFirstTicket
