----------------------------- MODULE Normalizer -----------------------------
(***************************************************************************)
(* app/normalizers/base.py, the business actions of app/taxonomy.py and    *)
(* what app/incidents/metrics.py reads from the payload: how a webhook's   *)
(* payload becomes the event that Scoring and MetricSeries reason about.   *)
(*                                                                         *)
(* A payload is a record with                                              *)
(*   source       "sentry", "datadog" or "product"                         *)
(*   fields       its text fields, by the dotted path of their JSON key    *)
(*   tags         its tags, whatever the shape they came in                *)
(*   url, endpoint  paths, sequences of segments without host and query    *)
(*   action       business action it gives itself, a sequence of words     *)
(*   blocks       which of its nested objects dd and error it has          *)
(*   counts, latency  aggregated counts by name, and milliseconds          *)
(* A missing, null or empty value is Absent, a missing path <<>>.  Texts   *)
(* are known by the words that occur in them.  Titles, the audit metadata  *)
(* and the columns no decision reads (platform, release, times) are left   *)
(* out.                                                                    *)
(***************************************************************************)
EXTENDS Integers, SequencesExt

CONSTANTS Mentions,     \* text |-> the words that occur in it
          IntOf,        \* int() of the texts that are numbers
          Identifiers,  \* path segments that are UUIDs or numbers
          MetricNames,  \* texts that hold a dotted metric name |-> that name
          ActionGroups  \* ACTION_GROUPS, as sequences of words

ASSUME NormalizerAssumption ==
  /\ \A v \in DOMAIN IntOf : IntOf[v] \in Int
  /\ \A g \in ActionGroups : g # <<>>

Absent   == ""
NoNumber == 0

Get(fields, key) == IF key \in DOMAIN fields THEN fields[key] ELSE Absent

\* The first value that is present: Python's "or" over texts.
Or(values) == Head(SelectSeq(values, LAMBDA v : v # Absent) \o <<Absent>>)

OrPath(paths) == Head(SelectSeq(paths, LAMBDA s : s # <<>>) \o << <<>> >>)

SafeInt(v) == IF v \in DOMAIN IntOf THEN IntOf[v] ELSE NoNumber

AsPath(v) == IF v = Absent THEN <<>> ELSE <<v>>

WordsOf(v) == IF v \in DOMAIN Mentions THEN Mentions[v] ELSE {}
Said(texts) == UNION {WordsOf(v) : v \in texts}

\* _lookup: the payload first, then the tags, in the order of the keys.
Lookup(p, keys) ==
  Or([k \in DOMAIN keys |-> Get(p.fields, keys[k])]
       \o [k \in DOMAIN keys |-> Get(p.tags, keys[k])])

\* _extract_endpoint.
ExtractEndpoint(url) ==
  [k \in DOMAIN url |-> IF url[k] \in Identifiers THEN ":id" ELSE url[k]]

\* _build_fingerprint: equal exactly when what is hashed is.
BuildFingerprint(service, endpoint, status, exception) ==
  <<service, endpoint, status, exception>>

(***************************************************************************)
(* Business actions.                                                       *)
(***************************************************************************)
NoBusinessAction == <<>>

\* The longest action that the name begins with, or else its first word.
BaseAction(action) ==
  LET prefixes == {g \in ActionGroups : IsPrefix(g, action)}
  IN  CASE action = NoBusinessAction -> NoBusinessAction
        [] action # NoBusinessAction /\ prefixes = {} -> <<action[1]>>
        [] prefixes # {} ->
             CHOOSE g \in prefixes : \A h \in prefixes : Len(h) <= Len(g)

\* Most specific first: an endpoint is of the first action all of whose hints
\* it contains.
EndpointHints ==
  << [hints |-> << {"virtual"}, {"card"} >>,              action |-> <<"virtual", "card">>],
     [hints |-> << {"virtual"}, {"account", "wallet"} >>, action |-> <<"virtual", "account">>],
     [hints |-> << {"direct"}, {"withdraw"} >>,           action |-> <<"direct", "withdraw">>],
     [hints |-> << {"withdraw"} >>,                       action |-> <<"withdrawal">>],
     [hints |-> << {"deposit"} >>,                        action |-> <<"deposit">>],
     [hints |-> << {"transfer"} >>,                       action |-> <<"transfer">>],
     [hints |-> << {"p2p"} >>,                            action |-> <<"p2p">>],
     [hints |-> << {"balance"} >>,                        action |-> <<"balance">>],
     [hints |-> << {"signup", "sign-up", "register", "onboard", "kyc"} >>,
                                                          action |-> <<"signup">>],
     [hints |-> << {"login", "auth", "session"} >>,       action |-> <<"login">>],
     [hints |-> << {"pay", "charge"} >>,                  action |-> <<"payment">>] >>

Hit(rule, words) == \A k \in DOMAIN rule.hints : rule.hints[k] \cap words # {}

DeriveBusinessAction(endpoint, status, exception) ==
  LET words  == Said(ToSet(endpoint))
      hit    == SelectSeq(EndpointHints, LAMBDA rule : Hit(rule, words))
      failed == exception # Absent \/ status >= 400
  IN  IF hit = <<>> THEN NoBusinessAction
      ELSE Head(hit).action \o IF failed THEN <<"failed">> ELSE <<>>

StellarSignals == {"stellar", "buildtransaction", "submittransaction", "message store lag"}

LooksStellar(words) == words \cap StellarSignals # {}

\* Lag wins over submit and build.
ClassifyStellarAction(words) ==
  CASE words \cap {"lag", "too many times", "delay", "stuck"} # {} -> <<"stellar", "lag">>
    [] words \cap {"lag", "too many times", "delay", "stuck"} = {} ->
         <<"stellar", "transaction">>
           \o (IF "submit" \in words THEN <<"submit">>
               ELSE IF "build" \in words THEN <<"build">> ELSE <<>>)

(***************************************************************************)
(* The sources.                                                            *)
(***************************************************************************)
Normalized(service, endpoint, status, exception, action) ==
  [fp |-> BuildFingerprint(service, endpoint, status, exception),
   endpoint |-> endpoint, status |-> status, exception |-> exception, action |-> action,
   user |-> Absent, level |-> Absent, attempts |-> 0, message |-> Absent, country |-> Absent]

\* normalize_sentry: the project names the service.
NormalizeSentry(p) ==
  LET endpoint == ExtractEndpoint(p.url)
      status == SafeInt(Or(<<Get(p.fields, "contexts.response.status_code"),
                             Get(p.tags, "http.status_code"),
                             Get(p.tags, "http_status_code"),
                             Get(p.fields, "request.status_code")>>))
      exception == Get(p.fields, "exception.type")
  IN  [Normalized(Or(<<Get(p.fields, "project_slug"), Get(p.fields, "project"), "unknown">>),
                  endpoint, status, exception,
                  DeriveBusinessAction(endpoint, status, exception))
       EXCEPT !.message = Or(<<Get(p.fields, "exception.value"), Get(p.fields, "message"),
                               Get(p.fields, "title"), Get(p.fields, "culprit")>>),
              !.user    = Or(<<Get(p.fields, "user.id"), Get(p.fields, "user.username"),
                               Get(p.fields, "user.email")>>),
              !.country = Or(<<Get(p.tags, "country_code"), Get(p.tags, "country"),
                               Get(p.fields, "user.geo.country_code")>>)]

IsStructuredLogEvent(p) ==
  p.blocks # {} \/ Or(<<Get(p.fields, "streamName"), Get(p.fields, "consumerGroupId")>>) # Absent

\* _normalize_datadog_structured_log: no status, never the stack trace.  The
\* title made of the message always stands before the error's own.
NormalizeStructuredLog(p) ==
  LET F(key) == Get(p.fields, key)
      category  == Or(<<F("category"), Lookup(p, <<"category", "category.name">>)>>)
      consumer  == Lookup(p, <<"consumerGroupId", "consumer_group_id", "consumer_group_id.name">>)
      exception == F("error.name")
      endpoint  == AsPath(Or(<<F("namespace"), category, F("type")>>))
      words == Said({category, F("streamName"), F("type"), F("message"), consumer,
                     F("error.message")})
  IN  [Normalized(Or(<<F("service"), F("dd.service"), Get(p.tags, "service"), "unknown">>),
                  endpoint, NoNumber, exception,
                  IF LooksStellar(words) THEN ClassifyStellarAction(words)
                  ELSE DeriveBusinessAction(endpoint, NoNumber, exception))
       EXCEPT !.level    = F("level"),
              !.attempts = SafeInt(F("attempts")),
              !.message  = F("message"),
              !.country  = Or(<<Get(p.tags, "country"), F("country")>>)]

MonitorMessage(p) ==
  Or([k \in 1..4 |-> Get(p.fields, <<"title", "alert_title", "message", "event_title">>[k])])

\* _stellar_action_from_monitor.
StellarActionFromMonitor(p) ==
  LET words == Said({Or(<<Get(p.fields, "title"), Get(p.fields, "alert_title")>>),
                     Get(p.fields, "monitor_name"), MonitorMessage(p),
                     Lookup(p, <<"consumerGroupId", "consumer_group_id",
                                 "consumer_group_id.name", "consumerGroup", "consumer_group">>),
                     Lookup(p, <<"category", "category.name", "categoryName">>),
                     Lookup(p, <<"type", "type.name">>), Get(p.fields, "namespace")}
                    \cup {p.tags[key] : key \in DOMAIN p.tags})
  IN  IF LooksStellar(words) THEN ClassifyStellarAction(words) ELSE NoBusinessAction

\* The first of the monitor's texts that holds a metric name.
StellarMetricName(p) ==
  LET texts == SelectSeq(<<Get(p.fields, "alert_status"), Get(p.fields, "message"),
                           Get(p.fields, "monitor_name")>>,
                         LAMBDA v : v \in DOMAIN MetricNames)
  IN  IF texts = <<>> THEN Absent ELSE MetricNames[Head(texts)]

\* normalize_datadog: the monitor's transition stands for an exception; the
\* metric and the consumer group stand for a Stellar monitor's endpoint and
\* service.
NormalizeMonitor(p) ==
  LET F(key) == Get(p.fields, key)
      explicit == p.action
      stellar  == IF explicit = NoBusinessAction THEN StellarActionFromMonitor(p) ELSE NoBusinessAction
      status   == SafeInt(Or(<<F("http_status"), Get(p.tags, "http_status_code")>>))
      exception == Or(<<F("alert_type"), F("alert_status")>>)
      group    == IF stellar = NoBusinessAction THEN Absent
                  ELSE Lookup(p, <<"consumer_group_id", "consumerGroupId",
                                   "consumer_group_id.name">>)
      metric   == IF stellar = NoBusinessAction THEN Absent ELSE StellarMetricName(p)
      endpoint == OrPath(<<AsPath(metric), ExtractEndpoint(p.url), p.endpoint>>)
  IN  [Normalized(Or(<<F("service"), group, Get(p.tags, "service"), "unknown">>),
                  endpoint, status, exception,
                  OrPath(<<explicit, stellar,
                           DeriveBusinessAction(endpoint, status, exception)>>))
       EXCEPT !.message = MonitorMessage(p),
              !.country = Or(<<Get(p.tags, "country"), F("country")>>)]

\* normalize_product_event: everything as it comes, the endpoint included.  A
\* status must be a number, or the comparison raises and the event has no result.
NormalizeProductEvent(p) ==
  LET F(key) == Get(p.fields, key)
      status == SafeInt(F("http_status"))
  IN  [Normalized(Or(<<F("service"), "unknown">>), p.endpoint, status, F("error_type"),
                  OrPath(<<p.action, DeriveBusinessAction(p.endpoint, status, F("error_type"))>>))
       EXCEPT !.message = F("message"), !.user = F("user_id"), !.country = F("country")]

Normalize(p) ==
  CASE p.source = "sentry"  -> NormalizeSentry(p)
    [] p.source = "datadog" -> IF IsStructuredLogEvent(p) THEN NormalizeStructuredLog(p)
                                                          ELSE NormalizeMonitor(p)
    [] p.source = "product" -> NormalizeProductEvent(p)

(***************************************************************************)
(* What the metrics read from the payload itself.                          *)
(***************************************************************************)
Signal(p) ==
  LET raw == Or(<<Get(p.fields, "outcome"), Get(p.fields, "status"),
                  Get(p.fields, "alert_status")>>)
  IN  CASE raw \in {"success", "ok", "succeeded", "completed", "settled", "approved",
                    "recovered", "resolved"} -> "success"
        [] raw \in {"pending", "processing", "stuck", "queued", "in_progress", "warn",
                    "warning", "no data"} -> "pending"
        [] raw \in {"failed", "failure", "error", "declined", "rejected", "timeout",
                    "triggered", "alert"} -> "failure"
        [] OTHER -> "none"

\* _aggregate_counts: a missing total is the sum of the rest.
AggregateCounts(counts) ==
  LET Count(name) == IF name \in DOMAIN counts THEN counts[name] ELSE 0
      sum == Count("success") + Count("failure") + Count("pending")
  IN  [total |-> IF "total" \in DOMAIN counts THEN counts["total"] ELSE sum,
       success |-> Count("success"), failure |-> Count("failure"), pending |-> Count("pending")]

\* No counts at all leave the event to count as one; zeroes count as nothing.
Counted(counts) ==
  CASE counts = <<>>            -> "none"
    [] "total" \in DOMAIN counts -> "total"
    [] OTHER                    -> "parts"

\* The event of a payload, as the worker scores and counts it.
Event(p) ==
  LET n == Normalize(p)
  IN  [fp |-> n.fp, user |-> n.user, endpoint |-> n.endpoint,
       action |-> BaseAction(n.action), status |-> n.status, level |-> n.level,
       attempts |-> n.attempts,
       wedged |-> WordsOf(n.message) \cap {"too many times", "max retries"} # {},
       country |-> n.country, exception |-> n.exception # Absent, signal |-> Signal(p),
       counted |-> Counted(p.counts), metrics |-> AggregateCounts(p.counts),
       latency |-> p.latency]
=============================================================================
