# Earlybird: specifications and proofs

TLA+ models of Earlybird's event pipeline and of its race against Freshdesk,
the TLC runs that check them, and TLAPS proofs of what matters most. Paths are
relative to the repository.

## 1. The system

Earlybird receives monitoring events by webhook, groups them into incidents,
alerts a channel, and compares the moment of the confirmed alert with the
creation time of the first related Freshdesk ticket.

| Component | State | Operations | Talks to |
| --- | --- | --- | --- |
| Webhook ingress (`app/webhooks`, `app/main.py`) | replay nonces in Redis | authenticate, check freshness, consume the nonce, enqueue, answer | Celery queue in the same Redis |
| Normalizers, taxonomy (`app/normalizers`, `app/taxonomy.py`) | none | payload to normalized event, business action and fingerprint; keyword scan | worker, matcher |
| Event worker (`app/workers/process_event.py`) | raw events, alert lock and velocity window in Redis | one Celery task per event | all of the below |
| Incident service (`app/incidents/service.py`) | `incidents`, `normalized_events`, links, audit log | find or create, absorb, score, mark detected / delivered / failed / enriched | called inside the worker's session |
| Metric buckets (`app/incidents/metrics.py`) | `metric_buckets` | upsert a minute's cells, compare with a baseline | same session |
| Scoring, anomaly detection (`scoring.py`, `anomaly.py`) | none | score, severity, anomaly boost | worker |
| Alerting (`app/incidents/alerting.py`, `app/alerts`) | none of its own | Slack, then PagerDuty, then email; LLM enrichment afterwards | channels, LLM |
| Freshdesk ingest, sync, matcher (`app/freshdesk`, `app/workers/freshdesk_sync.py`) | `freshdesk_tickets`, `incident_freshdesk_matches` | save tickets, explain and match them to delivered incidents | Freshdesk API, `incidents` |
| Dashboards (`app/dashboard`, `dashboard.py`) | none | scoreboard and metric cells, read in several statements | database |
| LLM analyst, redaction (`app/llm`, `app/redaction.py`) | none | summary and title of a delivered incident; text without personal data | enrichment |

The hard part is everything between two transactions. Up to four Celery workers,
the web process and beat share the database and Redis. A task reads the incident
once and writes it back seconds later; an alert is delivered by one system and
recorded in another; messages are redelivered; locks expire; and the code rolls
a whole transaction back where a comment speaks of a savepoint.

What makes each part correct:

- *Ingress*: two copies of an event never enter within one window; a request refused
  as a replay is one; what was answered with 200 reaches a worker.
- *Pipeline*: an event counts once; one open incident per fingerprint; one alert
  per incident; a timestamp only for a confirmed alert; the win committed before
  enrichment; no severe event unanswered; every task ends.
- *State machine*: committed statuses follow its edges; closed is terminal.
- *Matcher*: a ticket is matched once; outcomes follow the times to the last
  millisecond; a win is a win against the first related ticket; matches and statuses
  commit together; related tickets get scored.
- *Retries*: an event that fails every retry is kept; a sync survives a bad ticket.
- *Numbers*: buckets count committed events once and windows agree with the attempts; an outage in one market is
  not diluted; steady traffic is quiet; what is shown as urgent was alerted.
- *Dashboards*: no ticket is counted as prevented that was not, none is left out of
  the unmatched ones; the cell behind an alert shows the evidence.
- *Channels*: one confirmation per timestamp; fallbacks only after a failure; a
  delivery ends before its lock does.

`PROJECT.json` lists the hazards, each at its line.

## 2. Modules

| Module | Models |
| --- | --- |
| `WebhookIngress` | the receivers, the nonce store, the queue, the senders' copies, restarts |
| `Normalizer` | payloads of the three sources to events, business actions, fingerprints |
| `IncidentLifecycle` | the incident row and the functions of `service.py` on one in-memory copy |
| `AlertPipeline` | the worker: tasks as processes, sessions, locks, crashes, redelivery (extends `IncidentLifecycle`) |
| `BenchmarkRace` | the abstract promise: confirm, then claim, then enrich |
| `AlertDelivery` | `Deliver`, `Commit` and `Enrich` taken apart: Slack's attempts, the fallbacks, the record, the reply |
| `Scoring` | `scoring.py`: the terms of the score, severity, thresholds |
| `MetricSeries` | `metrics.py`, `anomaly.py` and the metric cells of `visual.py`: buckets, windows, detectors |
| `Triage` | steps 3 to 5 of `_process`, cut where the metric bucket is read and where it is written (extends `Scoring` and `MetricSeries`) |
| `MatchExplanation` | `explain_match`: how surely a ticket is about an incident |
| `FreshdeskRace` | webhook and sync runs, the matcher in their sessions, their failures and retries, and the scoreboard that reads beside them |
| `MC...` | model values, payloads and functions over them for the instances |
| `...Proofs` | the proofs, section 4 |

`WebhookIngress` ends where a message becomes a raw event, `AlertPipeline` begins
there. `Normalizer` makes the events of `Triage`, `Triage` says which of the three
classes of score an event of `AlertPipeline` is in, `AlertDelivery` and
`AlertPipeline` both implement `BenchmarkRace`, and `MatchExplanation` computes the
confidences of `FreshdeskRace`. Events, bands and confidences are constants; the
instances of `Triage` and `FreshdeskRace` take theirs from the other module.

### WebhookIngress

A copy is one request of one event; copies of an event carry the same headers
and are numbered as they arrive. `copy` is how far each got, `expires` the keys in
Redis, `queue` the broker, `rows` the raw events, `gone` the messages the workers gave
up; `spent` is the moment a copy set its nonce.

| Action | Code |
| --- | --- |
| `Send`, `Tick`, `FixSecret` | senders, time, operator |
| `Receive` | secret or signature and the timestamp in `enforce_replay_protection`, up to its first await |
| `ConsumeNonce`, `NonceStoreFails` | SET NX EX, and its failing open |
| `Enqueue`, `EnqueueFails` | parse, `delay()`, the answer |
| `Crash` | a restart of the server |
| `Work`, `GiveUp` | how a task ends after all its retries and redeliveries: its transaction commits, raw event included, or the message is acknowledged without one |

Abstractions: authentication is one question, whether sender and server agree; what
happens inside a task is `AlertPipeline`'s, and only its two ends are here: `"worker"`
in `Faults` lets the last retry fail or the pool's child die with it. Redis keeps what
it acknowledged.

### Normalizer

A payload is a record of texts by JSON path, and a text is known by the words that
occur in it, so that substring tests and regular expressions become membership.
`Normalize` dispatches to the three sources; `Event` adds what the metrics read from
the payload itself. The payloads of `tests/test_normalizer.py` and
`tests/test_stellar_datadog.py` come out as those tests say (`NormalizerTests` in
`MCTriage`, which TLC evaluates), and the events of `Triage` are payloads put
through it: they stand as records in `MCTriage`, which asserts that `Event` makes
them of the payloads (`EventsOfTheRuns`).

### AlertPipeline

A task is a Celery message; `EventOf` says which event it carries, so two tasks
with one event are a duplicate delivery. `pc` is the position in `_process`, one
step between two points where another process can interfere. `sess` is its
SQLAlchemy session:

- `mem` is the in-memory incident, `base` what was loaded. A commit writes only
  the columns that differ (`Flushed`), which is how stale copies lose updates.
- A flush takes the row lock, held to the end of the transaction (`rowLock`).
- An INSERT waits for an uncommitted INSERT of the same key and fails if the key
  is committed. The incident created for event e is row e.
- `rawRow` and `ghost` record what a full `db.rollback()` inside
  `find_or_create_incident` or `_upsert_bucket` destroyed: the session's raw
  event is `"lost"`, an incident inserted by this transaction is a `ghost`.
- `expire_on_commit=False`: the copy survives the first commit and enrichment
  starts from it.

| Action | Code |
| --- | --- |
| `SelectRaw`, `InsertRaw` | steps 1 and 2 of `_process` |
| `FindIncident`, `InsertIncident`, `ReselectIncident` | `find_or_create_incident` |
| `SaveNormalized` | `save_normalized_event` and the flush of the absorbed row |
| `SelectBucket`, `InsertBucket` | `_upsert_bucket`, for events with a business action |
| `Decide` | score, threshold, `already_alerted`, alert lock |
| `Deliver`, `Commit`, `CommitFails`, `ReleaseLock` | steps 6 and 7 |
| `Enrich`, `CommitEnrichment`, `EnrichmentLost` | step 8 |
| `DatabaseError`, `RetryOrDrop` | `process_incoming_event` |
| `Crash`, `Redeliver` | a task that dies: with its whole worker, so that `acks_late` has the message delivered again, or as a child of the pool, so that Celery acknowledges it (`task_reject_on_worker_lost` is not set) |
| `LockExpires`, `RedisFlips`, `OperatorCloses`, `MatcherMatches` | environment |

Abstractions: the score of an event is one of three classes (`band`); one metric
bucket stands for the cells of a minute, which are all taken behind the global
cell; audit rows, countries, users and text are left out; a delivery is confirmed
or not, whatever channel did it. `LockExpires` needs no task of the fingerprint
running: the 300 s lifetime is far longer than a task. A message may be redelivered at
any time, its own lock still held or not. Two history variables follow the lock of a
task that died while it was alerting: `orphans`, the fingerprints it still blocks, and
`silenced`, the events that met it.

### FreshdeskRace

A run is a process. A sync run goes from `idle` through fetch, select, insert,
load candidates, one `CheckTicket` per ticket, and commit. A hook is one webhook
request followed by the background sync it schedules. The candidate list is
loaded once per batch and kept in the session. The existing match is read before
the new row is written, and the status UPDATE waits for the row lock. PostgreSQL
breaks a cycle of waits (`DeadlockVictim`). Time differences are in milliseconds
and truncated toward zero as `int()` does.

Abstractions: the confidence of a pair is a constant of two values, with the
model's summary and without it, read by whether the incident was enriched when the
candidates were loaded; the instances compute both with `MatchExplanation`. A
delivered incident's timestamp is a constant, set when its alert is committed
(`CommitDelivery`); incidents have distinct fingerprints, so the partial index on
open rows plays no part here; `resolved` stands for every closed status; a ticket
created in the last two hours is always returned by Freshdesk, an older one only if
it was updated, which is a choice. A webhook without a usable `created_at`, whose
ticket is saved but not matched by the request, is left out.

`MatchExplanation` knows a ticket by the terms that occur in it. Scores are
hundredths. The code adds floats; four of the sums that make 0.5 come out as
0.49999999999999994 and miss the threshold (section 3), and the instances avoid
them.

`GET /dashboard/summary` runs several statements, each with a snapshot of its own.
`CountAlerted`, `LoadMatches` and `CountTickets` are those whose results are
subtracted from one another; runs commit in between. The other counters come from
one statement each and are left out, as is the audit table. `"reader"` in `Faults`
turns the page on.

### Scoring, MetricSeries, Triage

The functions of `scoring.py`, `metrics.py` and `anomaly.py` are operators;
`Triage` folds events into buckets, velocity windows and incidents with them.
A task is two steps. `SelectBucket` goes to the first SELECT of `_upsert_bucket`, which
locks nothing; `Process` adds to what was loaded (`seen`), writes it back over what
others committed meanwhile, counts, scores, decides and commits. Only the global bucket
is exposed: its UPDATE is flushed by the next SELECT of the session (autoflush) and
holds the row from there, so the other tasks of the minute wait before their next
cell. A task that found no bucket loses the INSERT to one that has committed it
(`LoseBucketRace`): the rollback fails the attempt, or leaves it an incident without a
row. `Fails` is an attempt that was rolled back before or after it wrote to Redis, which
is not rolled back; `KeyExpires` is the TTL of the velocity key. Events are received in the order of the clock and
processed in any order, as four workers and retries do.

`MetricCells` is the page's own cut of the same windows (`visual.py`).

Abstractions: time is in minutes; rates are compared as integer cross products,
where the code divides floats and could differ in the last place; an anomaly is
its boost; the country stands for the four dimensions; the p95 pair and volume
series a payload may bring are left out; `alerted` is the decision to alert, whose
lock and delivery the other modules have; the path tables are constants.

### AlertDelivery

One incident, at most `MaxRuns` executions of its task. `pc` follows
`_deliver_multichannel`, the outcome's commit and `enrich_incident`. A request is
answered (`PostAnswered`), or refused or accepted with its answer lost
(`PostFails`); the history variables `slack`, `paged`, `mailed` say what people
saw, `confirmed` what the code knows. `elapsed` is the time since the alert lock
was taken: a request takes nothing or all it may, where `requests` bounds connect
and read separately (`SlackTime` is twice the timeout) and SMTP every command
(`EmailTime` allows nine). Neither library bounds a server that drips bytes.
`BenchmarkRace` is implemented here with runs as alerts.

## 3. Runs

Every run terminates with its whole state space explored.

| Run | Question |
| --- | --- |
| `Races` | three events and a poison event of one fingerprint, expiry, operator and matcher: open rows, alerts, records, refinement |
| `Redelivery` | three messages for two events, database errors, crashes with and without redelivery, an expiring lock |
| `Progress` | creation and bucket races, their retries, two fingerprints, Redis outages; liveness |
| `Serial` | one sync, three tickets within seconds of two alerts; liveness |
| `Overlap` | a webhook, its background sync, a periodic sync and the summary page; liveness |
| `Triage` | three payloads of three kinds in three minutes, late, retried and overlapping |
| `Delivery` | all twelve configurations of the channels, two runs |
| `Ingress` | two senders that chose the same nonce, one with its clock ahead, two copies each, Redis failures, restarts, failing workers, a wrong secret; liveness |

Bounds. Three tasks are the smallest burst with a winner, a loser holding a stale
copy and one that comes later; two events of one fingerprint make a creation race
or a recurrence; `MaxRetries` 0 or 1 reaches both outcomes of a retry (the real
value 3 is used by `DeadLetter`). Two incidents and three tickets are the
smallest instance in which two batches lock incidents in opposite orders; the
instants of the clock put tickets before, between and after the alerts. The tickets of
`Serial` come half a second before an alert (a delta that truncates to zero), exactly 30 s
before one (the edge of the grace) and half a second after one.

In `Triage` the windows are scaled down: two minutes each, sample minimums of two
and one. Three minutes hold an event in the current window, one in the baseline
and one late for both; a batch of four makes rates of a half and a quarter; one
fault is enough for a retry or an outage. `SteadyTraffic` takes one more minute
and one kind of event. `Delivery` uses the times of `app/config.py` in half
seconds and the real three attempts; a second run is all that a failed commit, a
crash or a failed alert leads to, and a third would repeat it.

In `Ingress` the unit of time is the replay window: two units hold a copy at the
stamp, one at the last instant of the window and one behind it; the second copy is
the resend. The first sender's clock is one window ahead of the server's, so its stamp
outlives its key; the second sends no stamp, a garbled one, no nonce or a body that does
not parse. In `Overlap` a ticket with two match rows occurs between
two statements of the page.

The faults left out of a run are the ones its properties do not survive, as follows.

- *One alert per incident* and *one record per alert* are checked without
  database errors, crashes and Redis outages: a delivery that is not followed by
  its commit is repeated by the retry, and a lock that fails open lets two tasks
  deliver. With Redis down a second delivery replaces the committed timestamp;
  `BenchmarkRace` says so with `ClaimFinal`.
- Both promises end when the fingerprint recurs (`Recurred`). A quiet event creates
  row r; three severe tasks a, c and d load it as new. c fails to deliver and commits
  `notification_failed`; d finds the alert lock taken, stays quiet and commits its stale
  `observing`; c releases the lock; an operator resolves r. a flushes, takes the lock and
  delivers, while a quiet event opens a new row. a's commit writes an open status over r
  and is refused by the partial unique index: the alert has no record and its lock is
  released (`process_event.py:246`-`290`). TLC finds this with five tasks, one more than
  `Races` has, and a second alert for r takes a sixth; the theorems hold for any number.
- `SevereEventAnswered` is checked without operator and Redis outages. A successful
  alert never releases its lock, so an incident closed and recurring within
  300 s is scored above the threshold and stays silent: no property covers that.
- `WinCommittedBeforeEnrichment` is an invariant of `Progress`, which has no crashes;
  `WinSurvivesEnrichment` is proved with them.
- In `Triage` an alert is a decision only: the alert lock and the crash of a task
  between its two steps are `AlertPipeline`'s, a failed attempt is `Fails`.
- `OneMatchPerTicket` needs a single sync at a time. Two that overlap match a
  ticket twice; from then on `scalar_one_or_none` raises `MultipleResultsFound`
  for every batch with it, and a sync of that batch exhausts its retries, cycle
  after cycle, although `freshdesk_sync.py` has a guard against "a single bad
  ticket". `Overlap` has such a ticket, and its sync keeps cycling without it.
- `EveryTaskEnds` is checked without database errors and crashes, which may go on
  for ever. The safety properties under all of these faults at once are theorems.
- `VelocityIsTheWindow` is about events processed as they arrive: for an older one
  the trimmed set still holds the later ones, so its window is too large, and an
  attempt that was rolled back counts again under its new raw id.

Fairness. `AlertPipeline!FairSpec` is weak fairness of each task: a Celery worker
keeps running. `FreshdeskRace!FairSpec` adds strong fairness of the two steps
that wait on PostgreSQL, which queues waiters and grants each its turn; without
it a sync can be overtaken for ever by another that starts anew. `Serial` further
assumes that database errors stop at some time (`RecoveringSpec`). Nothing is
assumed of operators, Redis, the clock or the alerts, and nobody has to look at the
scoreboard. `WebhookIngress!FairSpec` is weak fairness of a message's end, `Work` or
`GiveUp`: the workers keep taking messages. No web request has to be served.

### Disagreements between the code and its own words

| Run | What TLC shows |
| --- | --- |
| `StaleStatus` | alerted goes back to observing; the same property also fails for matched and closed incidents, which enrichment overwrites |
| `DeadLetter` | the dead-letter branch cannot be reached with `retry(exc=exc)` |
| `FalseWin` | a win is recorded although a related ticket preceded the alert |
| `SteadyTraffic` | a flow with the same count every minute is a volume spike, because the total of the window is compared with single minutes |

The properties of the passing runs carry the exceptions below, each one a disagreement
that TLC shows as soon as the exception is taken out of the property.

- *Lost increments* (`BucketsAreOfTheLog` lets the global bucket count a subset).
  `_upsert_bucket` selects without a lock, adds in Python and writes the sum back. Two
  tasks of different fingerprints and one minute load the same global bucket; the
  second waits for the first's commit and then overwrites it. `metrics.py:142` says
  "Increment (or create) one metric cell. Concurrency-safe via a savepoint." Asking
  the global bucket for all of its events fails after ten states. The buckets of a
  country are exact, because their SELECT comes behind the lock on the global one.
- *A win that is never recorded* (`WinCommittedBeforeEnrichment` exempts
  `RowRolledBack`). Two tasks create the first bucket of a minute; the loser's
  `db.rollback()` undoes the incident it inserted in the same transaction, the task goes
  on, alerts, commits an UPDATE of no row and enriches. `process_event.py:275` says a
  crash "can never lose a real, delivered win"; here no crash is needed (21 states
  without the exception). `AlertIsRecorded` fails the same way in `Races` once events
  are `Measured`; `WinAlwaysCommitted` is the proof that nothing else loses the win.
  The same rollback makes the loser of a creation race fail on a foreign key, against
  "no IntegrityError ever surfaces".
- *A lock without an owner* (`SevereEventAnswered` exempts `silenced`). A task dies
  between taking the alert lock and its commit. Until the lock's TTL passes, its
  redelivered message and every other event of the fingerprint find the lock taken, keep
  quiet and are marked processed; the incident stays `pending` unless a later event
  comes (15 states). The handler that releases the lock "so a Celery retry can
  re-attempt" (`process_event.py:269`) does not run for a task that dies.
- *A replay by a sender whose clock is ahead* (`OneCopyPerWindow` speaks of one window,
  `EntersOnce` of senders that are not ahead). The timestamp is good from 300 s before to
  300 s after the stamp, the nonce for 300 s from its first use: the copies of a sender
  that is s seconds ahead may enter again for up to s seconds, both checks passed, and
  the worker takes each for an event of its own. `security.py:81` says "*fresh and used
  once*" and line 90 "sending both gives full replay protection". In `Ingress`, asking
  for one copy while the stamp is fresh fails for the first sender (eight states).
- *An accepted event that no row keeps* (`AcceptedReachesWorker` ends at `rows` or
  `gone`). The raw event is only flushed (`process_event.py:175`) and committed with all
  the rest; a task whose retries are exhausted leaves nothing, as `DeadLetter` shows,
  and one that dies with the pool's child is acknowledged. `celery_app.py:23` says "Only
  ack after task completes (no lost events)".

Read in the code while modelling, and modelled as the code does it unless said
otherwise.

- *Race and matcher.* A delta of exactly -30 s is a tie although the docstring of
  `classify_outcome` counts it as a loss (`matcher.py:199` "<= -tie_grace_seconds"); one
  between -31 s and -30 s truncates to it and is a tie as well; a lead of less than a second truncates to a
  tie. The summary and the title of the model move a score by at most 20, but time
  proximity and the words of the model alone can reach 50. The sync stores the raw
  requester e-mail where the webhook stores a hash. Four combinations of signals worth
  exactly 0.5 stay below the threshold in binary floating point: one keyword with time
  0.3 and provider; with country, provider and time 0.1; with country, provider and
  method; with action and provider (not modelled: scores are exact).
- *Dashboards.* `prevented` subtracts match rows, of which an incident may have two,
  from incidents counted earlier, so it may be negative, though never too large.
  `.limit(1)` shows one match row per incident in the audit although "Nothing is
  filtered". With a bot token `notification_channel` is Slack's channel id, so
  `mark_incident_delivered` does not keep the thread and the count of Slack deliveries
  misses it. `visual.py` cuts incidents and tickets at 30 days separately, so a ticket
  matched to an older incident is counted as unmatched. `_percentile` says "p50 ==
  median", which is so for odd counts only.
- *Normalizers.* A monitor's transition is part of its fingerprint, so a recovery opens
  an incident of its own; its action ends in "_failed" while the metrics count a
  success. The endpoints of product events and of a monitor's payload keep their ids. A
  product event whose `http_status` is a string raises in every attempt, as does a body
  that is JSON but no object.
- *Pipeline.* `event_count` loses concurrent increments; the current window of a late
  event has no upper bound; each event overwrites the score and severity of its
  incident, so both can fall after the alert; a success event on a critical path scores
  above its threshold by path and Freshdesk awareness alone.

## 4. Proofs

Eight modules hold theorems. They hold for every value of the constants that
satisfies the assumption of the module (`PipelineAssumption`, `RaceAssumption`,
`IngressAssumption`, `DeliveryAssumption`, `KeywordAssumption`; for the numbers
`TriageAssumption`, `SeriesAssumption` and `ScoringAssumption`), and for what a
theorem's own ASSUME adds. `PROJECT.json` lists the theorems with the properties
they state.

**The pipeline** (`AlertPipelineProofs`, `BenchmarkProofs`, `AlertProofs`, each
extending the previous one).

1. `TypeCorrect`: `Spec => []TypeOK`, action by action.
2. `CountedOnce` and `Atomic`. Neither property is inductive: that an event is
   linked once depends on which transactions are in flight. `PipelineInv` adds
   that at most one session per event holds an uncommitted raw event, that a
   session past `save` owns a raw event that is not yet processed, and that a
   row lock or a `ghost` belongs to the session that says so.
3. `NoFabricatedWin`, `EnrichedAfterDelivery`, `WinSurvivesEnrichment` (with the
   exception of section 3; `WinAlwaysCommitted` in `AlertProofs` has none and assumes
   `NoBucketRace` instead).
   `WinInv` extends the claim from committed rows to the copies in sessions:
   what a copy holds as timestamp and summary came from a confirmed delivery of
   this task or from a committed row, at load time or since.
4. `Refinement`: `Spec => ImplementsBenchmark`. Without Redis outages a claim is
   final because a task with an uncommitted delivery holds both the row lock and
   the alert lock, and no other copy of that row carries another timestamp
   (`LockInv`); with outages `ClaimFinal` is false and `WinInv` is enough.

5. `OneOpen`: `Spec => []OneOpenIncident`, under every fault. `OpenInv` adds that an
   uncommitted INSERT has its fingerprint to itself: no open row and no other INSERT.
   A commit can open a row only through `Reopens`, where the index answers.
6. `NeverFailed`, without Redis outages. A copy with an alerted status has a timestamp
   (`AlertedInv`), so a task with such a copy does not deliver. `NotifInv` says for rows
   and copies that a timestamp goes with `delivered`, and which columns a commit will
   write over which; `LockInv` that a task about to write a failure holds the
   alert lock of a row without timestamp.
7. `OneAlert` and `AlertRecorded`, without database errors, crashes and Redis outages,
   and without a race for the metric bucket (`NoBucketRace`; section 3 shows the
   incident that loses its row there). `SentInv`: whoever was confirmed for row r is
   its timestamp, or is at its commit with the timestamp in its copy, or the
   fingerprint has recurred. `CopyInv` shows that only a recurrence lets the index
   refuse that commit; `RowInv` that the session has a row to write.
8. `SevereAnswered`, with database errors, crashes, expiry and the matcher, without
   operator and Redis outages, and under `NoBucketRace`. A task keeps quiet because its
   incident is answered or because the lock is taken. `OneDecider`: of a fingerprint,
   one task at a time is past its flush and not committed, because the row lock
   (`RowLockInv`), the one open row (`OpenInv`) and the absence of closed rows
   (`LiveInv`) leave no second. So whoever took the lock has answered for the one open
   row since, or it died while it was alerting and the lock is in `orphans`
   (`AnswerInv`, in `LockMeans`).

**The channels** (`DeliveryProofs`): every property of `Delivery`. `AttemptInv` and
`WinInv` say that a run has no confirmation while it is still trying and that the
outcome it records is the confirmation it has; `ReplyInv` follows the thread.
`FitsTheLock` assumes that the longest delivery (all Slack attempts with their
pauses, then both fallbacks) is shorter than the lock, and shows that at every point
`elapsed` is within what the steps before it may take. `DeliveryRefines` is the
refinement of `BenchmarkRace`, the same abstract specification as the pipeline's.

**The ingress** (`IngressProofs`): types, `EntersOncePerWindow`, `EntersOnce`,
`NoFalseReplay`. The key of a nonce is set by a copy of its event (`KeyInv`), and while
Redis answers it outlives by a window every copy that got past it (`SpentInv`): the
next copy finds it gone only later than that. A sender that is not ahead stamped before
the first copy (`StampInv`), so by then its stamp is too old; that is `EntersOnce`, and
it is claimed of no other sender. Needed: one sender does not use a nonce for two
events.

**The race** (`RaceProofs`).

1. `TypeCorrect`, `MatchesRecorded` (a matched incident has a
   row) and `OutcomesAreOfficial`. What a session is about to commit already has the
   property the database needs; `OutcomeIsEarned` is the arithmetic of the truncation.
2. `WebhookStores`, without database errors: a webhook's ticket is in the table or
   in its session wherever the request may end (`StoredInv`, `HookInv`), an insert
   that fails lost to one that committed, and the request is never a deadlock's
   victim (`HooksDoNotDeadlock`): it holds a row lock only when it is done (`LockInv`),
   so a run that waits for it cannot be one it waits for.
3. `MatchedOnce`, for a single sync process: no row of a ticket appears between its
   check and its commit.
4. The scoreboard: `PreventedIsEarned`, `UnmatchedAreShown`. Delivered incidents, rows and tickets only ever grow
   (`PageInv`), so the earlier count is a lower bound of the later one; the rows name
   delivered incidents and saved tickets; the rest is arithmetic of cardinalities.

**The numbers** (`TriageProofs`): every property of the run `Triage`, for any events,
path scores, windows, sample minimums and number of retries.

1. The operators. A bucket's counts are sums over sets, and no induction is needed for
   them: `MinimalSubset` (the proper-subset order of a finite set is well founded)
   yields a smallest set for which a claim about sums fails, and removing one element
   from it contradicts the recursion of the fold (`SumInt`, `SumSame`, `SumAdd`).
   `MaxIs` is the same argument. From these come the detectors: a boost is 0 or
   between 20 and 60 (`DetectorsAre`, `SpikeIs`, `DropIs`), for counts of either
   sign, since `record_event_metrics` clamps none; and the cell a dashboard shows is
   the cell the worker analysed (`CellsShown`).
2. `BucketsFromTheLog`: `BucketsDrawn` names for each bucket, and for each copy of one in
   a session, the committed events it is the sum of; a copy never counts its own task's
   event (`TasksKept`), so adding it stays a sum over a set. `WindowIsCounted` needs `WindowKept`:
   what left the sorted set of a fingerprint is older than the window, because a late
   event trims at its own minute and the key outlives its youngest member.
3. `LastFollows` keeps what the last task decided next to the buckets it decided from;
   with it `RegionalOutageAlerted` is the chain from one failing cell through the worst
   cell and the worst detector to the alert, and `EvidenceShown` that the maximum of
   the page is the same maximum.
4. `UrgentAlerted` and `CriticalUrgent` rest on two sums: a critical log line and
   Freshdesk awareness make 60, which is the higher threshold, and 60 with the smallest
   boost make 80, which is high.

`Types` alone asks for unsigned payloads (`Unsigned`); the others do not.

**The match** (`MatchProofs`): `SummaryMovesLittle` and `SignalsDecide` say what
`explain_match` claims of the model's words, that they move a confidence by at most
0.20 and never undo a match whose other signals exceed the threshold (at the threshold
itself the float sums decide, section 3).
`ConfidenceTyped` gives `FreshdeskRace` what it assumes of confidences.

Every inductive invariant was checked with TLC on the instances before it was
proved. Model-checked only:

- liveness (`EveryTaskEnds`, `SyncsKeepCycling`, `RelatedTicketIsScored`,
  `AcceptedReachesWorker`): the prover has no rule for fairness here;
- `Normalizer`: `MCTriage` evaluates it on the payloads of the instance, and it has
  no state to be invariant.

## 5. Not modelled

The LLM call (its outcome is a choice) and redaction (text to text, no state); the
dashboards' markup, login and the reports that come from one statement; the demos,
migrations, configuration and health probes. None of them changes a row that a
decision reads. Of the normalizers, titles, audit metadata and the columns that no
decision reads are left out.

## 6. Plan

1. `AlertPipeline!Deliver` and `Commit` as the abstract form of `AlertDelivery`
   (today both implement `BenchmarkRace`).
2. The remaining reports of the dashboards (percentiles, daily series) as operators
   over the tables.
