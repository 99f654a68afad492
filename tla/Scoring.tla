------------------------------ MODULE Scoring ------------------------------
(***************************************************************************)
(* app/incidents/scoring.py: the criticality of an event, from its own     *)
(* attributes and the incident it joined.  An event is a record with       *)
(*   endpoint, action   what it is about (NoEndpoint, NoAction for None)   *)
(*   status             HTTP status, 0 for None                            *)
(*   level              log level, "none" when not reported                *)
(*   attempts, wedged   retry count; "retried too many times" in message   *)
(***************************************************************************)
EXTENDS Integers

CONSTANTS EndpointScore,   \* config/critical_paths.yaml: endpoint |-> points
          ActionScore,     \* _BUSINESS_ACTION_PATHS: action |-> points
          KeyMarkets       \* countries that weigh more

ASSUME ScoringAssumption ==
  /\ \A path \in DOMAIN EndpointScore : EndpointScore[path] \in Nat
  /\ \A action \in DOMAIN ActionScore : ActionScore[action] \in Nat

ScoreAffectedUsers(n) ==
  CASE n >= 100     -> 60
    [] n \in 21..99 -> 45
    [] n \in 6..20  -> 30
    [] n \in 2..5   -> 15
    [] n = 1        -> 5
    [] n <= 0       -> 0

\* Twenty, ten, five and two errors a minute over five minutes.
ScoreErrorVelocity(n) ==
  CASE n >= 100     -> 60
    [] n \in 50..99 -> 40
    [] n \in 25..49 -> 20
    [] n \in 10..24 -> 10
    [] n < 10       -> 0

ScoreHttpStatus(s) ==
  CASE s \in 500..599                              -> 30
    [] s \in {401, 403, 408}                       -> 30
    [] s = 402                                     -> 35
    [] s \in (400..499) \ {401, 402, 403, 408}     -> 10
    [] s \notin 400..599                           -> 0

ScoreCountryConcentration(countries) ==
  CASE countries = {}                               -> 0
    [] countries \cap KeyMarkets # {}               -> 20
    [] countries # {} /\ countries \cap KeyMarkets = {} -> 10

\* Mutant: the bonus goes to the incidents that have tickets.
FreshdeskAwarenessSwapped(hasExistingTickets) == IF hasExistingTickets THEN 20 ELSE 5

ScoreFreshdeskAwareness(hasExistingTickets) == IF hasExistingTickets THEN 5 ELSE 20

ScoreLogLevel(level) ==
  IF level \in {"critical", "fatal", "emergency", "alert"} THEN 40 ELSE 0

AttemptScore(a) ==
  CASE a >= 500      -> 35
    [] a \in 100..499 -> 25
    [] a \in 25..99  -> 15
    [] a \in 10..24  -> 10
    [] a < 10        -> 0

ScoreRetryStorm(a, wedged) ==
  IF wedged /\ AttemptScore(a) < 30 THEN 30 ELSE AttemptScore(a)

\* The endpoint first; the business action only when no endpoint matched.
PathScore(e) ==
  IF EndpointScore[e.endpoint] # 0 THEN EndpointScore[e.endpoint]
                                   ELSE ActionScore[e.action]

IsCriticalPath(e) == PathScore(e) > 0

\* total_score.  The worker never asks whether tickets exist already.
Criticality(e, users, window, countries) ==
    PathScore(e)
  + ScoreAffectedUsers(users)
  + ScoreErrorVelocity(window)
  + ScoreHttpStatus(e.status)
  + ScoreCountryConcentration(countries)
  + ScoreFreshdeskAwareness(FALSE)
  + ScoreLogLevel(e.level)
  + ScoreRetryStorm(e.attempts, e.wedged)

ScoreToSeverity(score) ==
  CASE score >= 100     -> "critical"
    [] score \in 80..99 -> "high"
    [] score \in 60..79 -> "medium"
    [] score \in 40..59 -> "low"
    [] score < 40       -> "observe"

Urgent == {"critical", "high"}

\* A critical or fatal log line is at least high, whatever the total.
Severity(e, score) ==
  IF e.level \in {"critical", "fatal"} /\ ScoreToSeverity(score) \notin Urgent
  THEN "high" ELSE ScoreToSeverity(score)

\* INCIDENT_ALERT_THRESHOLD and CRITICAL_BUSINESS_ACTION_THRESHOLD.
Threshold(e) == IF IsCriticalPath(e) THEN 40 ELSE 60
=============================================================================
