------------------------------ MODULE MCTriage ------------------------------
(***************************************************************************)
(* Instances of Triage for TLC: payloads of the three sources, normalized. *)
(* The runs use a money flow that rides no critical endpoint, so that only *)
(* the numbers can raise an alert.                                         *)
(***************************************************************************)
EXTENDS Triage, Normalizer, TLC

Words ==
  "withdraw" :> {"withdraw"} @@ "core.withdraw" :> {"withdraw"} @@
  "Withdrawal success rate dropped in MX" :> {"withdraw"} @@
  "stellarTransaction:command" :> {"stellar"} @@
  "stellarTransaction:command-cdade899" :> {"stellar"} @@
  "BuildTransaction" :> {"buildtransaction", "build"} @@
  "stellar-cosmoem-buildTransaction" :> {"stellar", "buildtransaction", "build"} @@
  "stellar-cosmoem-buildtransaction" :> {"stellar", "buildtransaction", "build"} @@
  "stellartransaction:command" :> {"stellar"} @@
  "Stellar Message Store Lag on stellar-cosmoem-buildtransaction" :>
    {"stellar", "message store lag", "lag", "buildtransaction", "build"} @@
  "message has been retried too many times" :> {"too many times"}

Integral == "200" :> 200 @@ "502" :> 502 @@ "668" :> 668
Metrics  == "airtm.message_store.lag over stellartransaction:command" :>
              "airtm.message_store.lag"
Groups   == {<<"withdrawal">>, <<"direct", "withdraw">>, <<"deposit">>, <<"stellar">>,
             <<"virtual", "card">>, <<"virtual", "account">>}

Empty == [source |-> "product", fields |-> <<>>, tags |-> <<>>, url |-> <<>>,
          endpoint |-> <<>>, action |-> NoBusinessAction, blocks |-> {}, counts |-> <<>>,
          latency |-> NoLatency]

(***************************************************************************)
(* The payloads of the repository's tests come out as the tests say        *)
(* (test_normalizer.py, test_stellar_datadog.py).                          *)
(***************************************************************************)
SentryPayload ==
  [Empty EXCEPT
     !.source = "sentry",
     !.url = <<"api", "v1", "withdraw", "confirm">>,
     !.fields = "project_slug" :> "payments-api" @@ "exception.type" :> "GatewayTimeout" @@
                "exception.value" :> "no response" @@ "user.id" :> "user_mx_001" @@
                "contexts.response.status_code" :> "502",
     !.tags = "country_code" :> "MX"]

WithdrawalMonitor ==
  [Empty EXCEPT
     !.source = "datadog",
     !.url = <<"api", "v1", "withdraw", "confirm">>,
     !.fields = "title" :> "Withdrawal success rate dropped in MX" @@ "alert_type" :> "error",
     !.tags = "service" :> "payments-api" @@ "country" :> "MX" @@ "provider" :> "stripe"]

StellarLag ==
  [Empty EXCEPT
     !.source = "datadog",
     !.url = <<"event", "event">>,
     !.fields = "title" :> "Stellar Message Store Lag on stellar-cosmoem-buildtransaction" @@
                "alert_status" :> "airtm.message_store.lag over stellartransaction:command",
     !.tags = "category" :> "stellartransaction:command" @@
              "consumer_group_id" :> "stellar-cosmoem-buildtransaction"]

StellarCritical ==
  [Empty EXCEPT
     !.source = "datadog",
     !.blocks = {"dd", "error"},
     !.fields = "attempts" :> "668" @@ "category" :> "stellarTransaction:command" @@
                "consumerGroupId" :> "stellar-cosmoem-buildTransaction" @@
                "error.name" :> "Error" @@ "level" :> "critical" @@
                "message" :> "message has been retried too many times" @@
                "namespace" :> "subscriber:processMessage" @@
                "service" :> "stellar-cosmoem-build-events-handler" @@
                "streamName" :> "stellarTransaction:command-cdade899" @@
                "type" :> "BuildTransaction"]

ASSUME NormalizerTests ==
  LET sentry  == Normalize(SentryPayload)
      monitor == Normalize(WithdrawalMonitor)
      lag     == Normalize(StellarLag)
      entry   == Normalize(StellarCritical)
  IN  /\ sentry.fp[1] = "payments-api" /\ sentry.status = 502 /\ sentry.country = "MX"
      /\ sentry.endpoint = <<"api", "v1", "withdraw", "confirm">>
      /\ sentry.exception = "GatewayTimeout" /\ sentry.user = "user_mx_001"
      /\ Normalize([Empty EXCEPT !.source = "sentry"]).fp = <<"unknown", <<>>, NoNumber, Absent>>
      /\ monitor.action = <<"withdrawal", "failed">> /\ monitor.country = "MX"
      /\ lag.action = <<"stellar", "lag">> /\ lag.endpoint = <<"airtm.message_store.lag">>
      /\ lag.fp[1] = "stellar-cosmoem-buildtransaction"
      /\ lag.country = Absent /\ lag.user = Absent
      /\ entry.level = "critical" /\ entry.attempts = 668
      /\ Event(StellarCritical).wedged
      /\ BaseAction(entry.action) = <<"stellar">>
      /\ BaseAction(<<"direct", "withdraw", "failed">>) = <<"direct", "withdraw">>
      /\ BaseAction(<<"deposit", "not", "credited">>) = <<"deposit">>
      /\ ExtractEndpoint(<<"withdraw", "42">>) = <<"withdraw", ":id">>

(***************************************************************************)
(* The events of the runs.                                                 *)
(***************************************************************************)
HealthyPayload ==
  [Empty EXCEPT
     !.endpoint = <<"flows">>, !.action = <<"withdrawal", "settled">>,
     !.fields = "service" :> "core" @@ "user_id" :> "u1" @@ "http_status" :> "200" @@
                "country" :> "MX" @@ "outcome" :> "settled"]

\* Four transactions of a key market in one event, all settled.
BatchPayload ==
  [HealthyPayload EXCEPT !.counts = "total" :> 4 @@ "success" :> 4, !.latency = 1]

\* The same flow failing in a market of no weight.
FailingPayload ==
  [HealthyPayload EXCEPT
     !.fields = "country" :> "US" @@ "outcome" :> "failed" @@ "user_id" :> Absent @@ @,
     !.latency = 2]

\* A critical log line with aggregated counts, a quarter of them failures.
LoggedPayload ==
  [Empty EXCEPT
     !.source = "datadog", !.blocks = {"dd"},
     !.fields = "dd.service" :> "core" @@ "namespace" :> "core.withdraw" @@
                "level" :> "critical",
     !.counts = "success" :> 3 @@ "failure" :> 1]

\* What the worker sees of them.
Healthy == [fp |-> <<"core", <<"flows">>, 200, Absent>>, user |-> "u1",
            endpoint |-> <<"flows">>, action |-> <<"withdrawal">>, status |-> 200,
            level |-> Absent, attempts |-> 0, wedged |-> FALSE, country |-> "MX",
            exception |-> FALSE, signal |-> "success", counted |-> "none",
            metrics |-> NoMetrics, latency |-> NoLatency]
Batch   == [Healthy EXCEPT !.counted = "total",
                           !.metrics = [NoMetrics EXCEPT !.total = 4, !.success = 4],
                           !.latency = 1]
Failing == [Healthy EXCEPT !.user = Absent, !.country = "US", !.signal = "failure",
                           !.latency = 2]
Logged  == [Healthy EXCEPT !.fp = <<"core", <<"core.withdraw">>, NoNumber, Absent>>,
                           !.endpoint = <<"core.withdraw">>, !.status = NoNumber,
                           !.user = Absent, !.country = Absent, !.level = "critical",
                           !.signal = "none",
                           !.counted = "parts",
                           !.metrics = [total |-> 4, success |-> 3, failure |-> 1,
                                        pending |-> 0]]

ASSUME EventsOfTheRuns ==
  /\ Event(HealthyPayload) = Healthy /\ Event(BatchPayload) = Batch
  /\ Event(FailingPayload) = Failing /\ Event(LoggedPayload) = Logged

MixedKinds  == {Batch, Failing, Logged}
HealthyOnly == {Healthy}

MixedFingerprints  == {e.fp : e \in MixedKinds}
HealthyFingerprint == {e.fp : e \in HealthyOnly}

Withdrawals == {<<"withdrawal">>}

Endpoints == <<"flows">> :> 0 @@ <<"core.withdraw">> :> 0 @@ <<"withdraw">> :> 50
Settled   == <<"withdrawal">> :> 0 @@ <<"stellar">> :> 45 @@ <<>> :> 0
=============================================================================
