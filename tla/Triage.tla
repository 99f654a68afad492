------------------------------- MODULE Triage -------------------------------
(***************************************************************************)
(* Steps 3 to 5 of _process: fold the event into its incident and the      *)
(* metric buckets, count it in the velocity window, score it, add the      *)
(* anomaly boost and decide on an alert.  A task is cut in two where the   *)
(* numbers can go wrong: it loads the minute's global bucket (SelectBucket)*)
(* and later adds to the loaded values, writes and commits (Process);      *)
(* tasks of other fingerprints run in between.  The UPDATE of the global   *)
(* bucket is flushed before the next SELECT and locks the row, so the rest *)
(* of a task is one step to the others of its action and minute.           *)
(* AlertPipeline has the other interleavings; here the question is what    *)
(* the numbers decide, for events that are processed at once, late, out of *)
(* order, and again after a rollback.                                      *)
(***************************************************************************)
EXTENDS Scoring, MetricSeries, Sequences

CONSTANTS Kinds,           \* the events of the instance (see the two modules)
          Fingerprints,    \* each kind names its own, and the user
          NoUser,
          VelocityMinutes, \* VELOCITY_WINDOW_SECONDS (5 minutes)
          MaxEvents,       \* bound: events received
          MaxRetries,      \* max_retries of the Celery task
          MaxFaults        \* bound: failed attempts and Redis outages

ASSUME TriageAssumption ==
  /\ {MaxEvents, MaxRetries, MaxFaults} \subseteq Nat
  /\ VelocityMinutes \in Nat \ {0}
  /\ \A e \in Kinds :
       /\ e.fp \in Fingerprints /\ e.country \in Countries \cup {NoCountry}
       /\ e.action \in (Actions \cup {NoAction}) \cap DOMAIN ActionScore
       /\ e.endpoint \in DOMAIN EndpointScore
       /\ {e.status, e.attempts, e.latency} \subseteq Int
       /\ {e.exception, e.wedged} \subseteq BOOLEAN
       /\ e.signal \in {"success", "pending", "failure", "none"}
       /\ e.counted \in {"none", "parts", "total"}
       /\ e.metrics \in [DOMAIN NoMetrics -> Int]

VARIABLES clock,      \* minute
          log,        \* events received: [kind, minute of received_at]
          tries,      \* attempts begun, per event
          done,       \* events whose task committed
          stage,      \* where the task of each event is
          seen,       \* its session's copy of the minute's global bucket
          buckets,    \* metric_buckets
          velocity,   \* Redis sorted set per fingerprint, and its last write
          pushed,     \* history: every member ever added to it
          incident,   \* the open incident per fingerprint
          faults,     \* failed attempts and Redis outages so far
          last        \* what the last committed task decided, and on which event (0:
              \* one whose incident lost its row)

task == <<stage, seen>>
vars == <<clock, log, tries, done, stage, seen, buckets, velocity, pushed, incident,
          faults, last>>

Ids     == 1..MaxEvents
Users   == {e.user : e \in Kinds} \ {NoUser}
Members == Ids \X (0..MaxRetries)

NewIncident == [count |-> 0, users |-> {}, countries |-> {}, score |-> 0,
                severity |-> "observe", alerted |-> FALSE]

Nothing == [id |-> 0, window |-> 0, base |-> 0, anomaly |-> 0]

Init ==
  /\ clock = Min(Minutes)
  /\ log = <<>>
  /\ tries = [i \in Ids |-> 0]
  /\ done = {}
  /\ stage = [i \in Ids |-> "idle"]
  /\ seen = [i \in Ids |-> NoBucket]
  /\ buckets = [k \in Keys |-> NoBucket]
  /\ velocity = [f \in Fingerprints |-> [members |-> {}, touched |-> clock]]
  /\ pushed = [f \in Fingerprints |-> {}]
  /\ incident = [f \in Fingerprints |-> NewIncident]
  /\ faults = 0
  /\ last = Nothing

(***************************************************************************)
(* Incident and velocity window                                            *)
(***************************************************************************)

Absorb(inc, e) ==
  [inc EXCEPT !.count = @ + 1,
              !.users = @ \cup ({e.user} \ {NoUser}),
              !.countries = @ \cup ({e.country} \ {NoCountry})]

\* Mutant: the minute on the edge of the window is kept.
TrimKeepingEdge(members, now) ==
  {m \in members : log[m[1]].minute >= now - VelocityMinutes}

\* zremrangebyscore(key, 0, now - window) is inclusive.
Trim(members, now) ==
  {m \in members : log[m[1]].minute > now - VelocityMinutes}

\* _record_and_count_velocity: the raw event of an attempt that is rolled back
\* has its id in Redis all the same, and the next attempt has another.
RecordVelocity(i) ==
  LET f == log[i].kind.fp
      member == <<i, tries[i]>>
  IN  /\ velocity' = [velocity EXCEPT ![f] =
           [members |-> Trim(@.members \cup {member}, log[i].minute),
            touched |-> clock]]
      /\ pushed' = [pushed EXCEPT ![f] = @ \cup {member}]

CountVelocity(i) == Cardinality(velocity'[log[i].kind.fp].members)

(***************************************************************************)
(* Actions                                                                 *)
(***************************************************************************)

Receive(e) ==
  /\ Len(log) < MaxEvents
  /\ log' = Append(log, [kind |-> e, minute |-> clock])
  /\ UNCHANGED <<clock, tries, done, task, buckets, velocity, pushed, incident, faults, last>>

Fault == faults < MaxFaults /\ faults' = faults + 1

Pending(i) == i \in DOMAIN log /\ i \notin done /\ tries[i] <= MaxRetries

Enter(i, to) == stage' = [stage EXCEPT ![i] = to]

\* The session of an attempt is gone.
Leave(i) == Enter(i, "idle") /\ seen' = [seen EXCEPT ![i] = NoBucket]

\* The global cell of the event's minute, as it is committed.
Committed(i) ==
  IF log[i].kind.action = NoAction THEN NoBucket
  ELSE buckets[log[i].kind.action, "global", log[i].minute]

\* The task up to the first SELECT of _upsert_bucket.  It holds the row of its
\* incident, which keeps the other tasks of the fingerprint waiting.
SelectBucket(i) ==
  /\ Pending(i) /\ stage[i] = "idle"
  /\ \A j \in DOMAIN log : stage[j] = "loaded" => log[j].kind.fp # log[i].kind.fp
  /\ Enter(i, "loaded")
  /\ seen' = [seen EXCEPT ![i] = Committed(i)]
  /\ UNCHANGED <<clock, log, tries, done, buckets, velocity, pushed, incident, faults, last>>

\* It found no row, and another task has committed one since: the INSERT fails.
BucketIsTaken(i) == seen[i].rows = 0 /\ Committed(i).rows > 0

\* The rollback undoes the whole transaction.  An incident that existed before
\* is expired and the attempt fails on it; one that this task inserted goes on
\* as an object without a row, and the winner's bucket is loaded.
LoseBucketRace(i) ==
  /\ stage[i] = "loaded" /\ BucketIsTaken(i)
  /\ \/ /\ incident[log[i].kind.fp].count > 0
        /\ tries' = [tries EXCEPT ![i] = @ + 1]
        /\ Leave(i)
     \/ /\ incident[log[i].kind.fp].count = 0
        /\ Enter(i, "rowless")
        /\ seen' = [seen EXCEPT ![i] = Committed(i)]
        /\ UNCHANGED tries
  /\ UNCHANGED <<clock, log, done, buckets, velocity, pushed, incident, faults, last>>

\* An anomaly is added to the score and the severity is derived again, without
\* the floor of critical log lines.  update_incident_score overwrites both.
Decided(inc, e, base, anomaly) ==
  [inc EXCEPT !.score = base + anomaly,
              !.severity = IF anomaly > 0 THEN ScoreToSeverity(base + anomaly)
                                          ELSE Severity(e, base),
              !.alerted = @ \/ base + anomaly >= Threshold(e) \/ anomaly > 0]

\* The rest of the task, to its commit.  Without Redis the cumulative count
\* stands in for the velocity window.  What is decided for an incident that lost
\* its row is written nowhere.
Process(i) ==
  LET e == log[i].kind
      now == log[i].minute
      rowless == stage[i] = "rowless"
      inc == Absorb(IF rowless THEN NewIncident ELSE incident[e.fp], e)
  IN
  /\ stage[i] \in {"loaded", "rowless"} /\ ~BucketIsTaken(i)
  /\ buckets' = RecordEventMetrics(buckets, seen[i], e, now)
  /\ \/ RecordVelocity(i) /\ UNCHANGED faults
     \/ Fault /\ UNCHANGED <<velocity, pushed>>
  /\ LET window == IF <<i, tries[i]>> \in pushed'[e.fp] THEN CountVelocity(i)
                                                       ELSE inc.count
         base == Criticality(e, Cardinality(inc.users), window, inc.countries)
         anomaly == Max({DetectAnomaly(e), DetectBaselineAnomaly(buckets', e, now)})
     IN  /\ incident' = IF rowless THEN incident
                        ELSE [incident EXCEPT ![e.fp] = Decided(inc, e, base, anomaly)]
         /\ last' = [id |-> IF rowless THEN 0 ELSE i, window |-> window, base |-> base,
                     anomaly |-> anomaly]
  /\ done' = done \cup {i}
  /\ tries' = [tries EXCEPT ![i] = @ + 1]
  /\ Leave(i)
  /\ UNCHANGED <<clock, log>>

\* Mutant: the buckets of a failed task survive it.
FailsKeepingBuckets(i) ==
  /\ Pending(i)
  /\ tries' = [tries EXCEPT ![i] = @ + 1]
  /\ Fault
  /\ Leave(i)
  /\ buckets' = RecordEventMetrics(buckets, Committed(i), log[i].kind, log[i].minute)
  /\ UNCHANGED <<clock, log, done, velocity, pushed, incident, last>>

\* The task fails and is rolled back, before it reached Redis or after.
Fails(i) ==
  /\ Pending(i)
  /\ tries' = [tries EXCEPT ![i] = @ + 1]
  /\ Fault
  /\ Leave(i)
  /\ RecordVelocity(i) \/ UNCHANGED <<velocity, pushed>>
  /\ UNCHANGED <<clock, log, done, buckets, incident, last>>

\* The key expires a window after its last write.
KeyExpires(f) ==
  /\ velocity[f].members # {}
  /\ clock - velocity[f].touched >= VelocityMinutes
  /\ velocity' = [velocity EXCEPT ![f].members = {}]
  /\ UNCHANGED <<clock, log, tries, done, task, buckets, pushed, incident, faults, last>>

Tick ==
  /\ clock + 1 \in Minutes
  /\ clock' = clock + 1
  /\ UNCHANGED <<log, tries, done, task, buckets, velocity, pushed, incident, faults, last>>

Next ==
  \/ \E e \in Kinds : Receive(e)
  \/ \E i \in Ids : SelectBucket(i) \/ LoseBucketRace(i) \/ Process(i) \/ Fails(i)
  \/ \E f \in Fingerprints : KeyExpires(f)
  \/ Tick

Spec == Init /\ [][Next]_vars

(***************************************************************************)
(* Properties                                                              *)
(***************************************************************************)

\* Types.
TypeOK ==
  /\ clock \in Minutes
  /\ log \in Seq([kind : Kinds, minute : Minutes]) /\ Len(log) <= MaxEvents
  /\ tries \in [Ids -> 0..MaxRetries + 1]
  /\ done \subseteq DOMAIN log
  /\ stage \in [Ids -> {"idle", "loaded", "rowless"}]
  /\ seen \in [Ids -> [DOMAIN NoBucket -> Nat]]
  /\ buckets \in [Keys -> [DOMAIN NoBucket -> Nat]]
  /\ velocity \in [Fingerprints -> [members : SUBSET Members, touched : Minutes]]
  /\ pushed \in [Fingerprints -> SUBSET Members]
  /\ incident \in [Fingerprints ->
       [count : Nat, users : SUBSET Users, countries : SUBSET Countries, score : Nat,
        severity : {"critical", "high", "medium", "low", "observe"}, alerted : BOOLEAN]]
  /\ faults \in 0..MaxFaults
  /\ last \in [id : 0..MaxEvents, window : Nat, base : Nat, anomaly : Nat]

\* The committed events that belong into a cell.
EventsOf(a, c, m) ==
  {i \in done : /\ log[i].kind.action = a
                /\ c \in DimensionCells(log[i].kind)
                /\ log[i].minute = m}

IsSumOf(bucket, S) ==
  \A field \in {"total", "success", "failure", "pending"} :
    bucket[field] = SumFunctionOnSet([i \in S |-> Counts(log[i].kind)[field]], S)

\* No bucket counts an event twice, or one that was rolled back, whatever the
\* order, the retries and the overlaps of the tasks; and the bucket of a country
\* counts every event, because its SELECT waits behind the lock on the global
\* one.  The global bucket itself may lack events: of two tasks that loaded it
\* together, the later overwrites what the earlier added (_upsert_bucket, which
\* calls itself "Concurrency-safe").
BucketsAreOfTheLog ==
  \A a \in Actions, c \in Cells, m \in Minutes :
    \E S \in SUBSET EventsOf(a, c, m) :
      /\ IsSumOf(buckets[a, c, m], S)
      /\ c # "global" => S = EventsOf(a, c, m)

\* An event that is processed as it arrives, and is the newest so far, gets the
\* number of attempts in the sliding window that ends with it, neither more
\* (late events, the edge of the window) nor less (the key's expiry).
VelocityIsTheWindow ==
  [][\A i \in done' \ done :
       (log[i].minute = clock /\ pushed # pushed') =>
         last'.window =
           Cardinality({m \in pushed'[log[i].kind.fp] :
                          log[m[1]].minute \in (clock - VelocityMinutes + 1)..clock})]_vars

\* A regional outage is not diluted: when every recent event of a money flow in
\* one cell failed, and they are enough for a critical action, the incident of
\* the event just processed has been alerted, however healthy the rest is.
RegionalOutageAlerts ==
  last.id # 0 =>
    LET e == log[last.id].kind
    IN  \A c \in DimensionCells(e) :
          LET w == Fold(buckets, e.action, c,
                        Current(buckets, e.action, c, log[last.id].minute))
          IN  (/\ e.action \in CriticalActions
               /\ w.total >= CriticalMinSampleSize
               /\ w.failure = w.total)
                => incident[e.fp].alerted

\* A row shown as high or critical has been alerted on.  The floor lifts a
\* critical log line to high whatever its score; the points of the level and
\* of Freshdesk awareness are what carries it over the threshold.
UrgentIsAlerted ==
  \A f \in Fingerprints : incident[f].severity \in Urgent => incident[f].alerted

\* An anomaly never lowers the severity of a critical or fatal log line below
\* high, although the worker derives the severity again without the floor: the
\* smallest boost still carries the smallest score of such a line to 80.
CriticalLogIsUrgent ==
  last.id # 0 =>
    LET e == log[last.id].kind
    IN  e.level \in {"critical", "fatal"} => incident[e.fp].severity \in Urgent

\* The dashboard has the evidence for what the worker decided: as long as the
\* event processed last is of the current minute, its cells are on the page, and
\* the worst of them is the anomaly the worker found in the buckets, although
\* the page cuts the windows with code of its own (visual.py, "exactly like
\* /dashboard/metrics").
EvidenceIsShown ==
  (last.id # 0 /\ log[last.id].minute = clock) =>
    LET e == log[last.id].kind
        shown == MetricCells(buckets, clock)
        mine == {<<e.action, c>> : c \in DimensionCells(e)}
    IN  e.action \in Actions =>
        /\ mine \subseteq DOMAIN shown
        /\ last.anomaly = Max({DetectAnomaly(e)} \cup {shown[x] : x \in mine})

\* "A flat baseline (stdev == 0) only trips if current exceeds it": a series
\* with the same count in every minute, all of it success, raises no anomaly.
QuietWhenStable ==
  last.id # 0 =>
    LET e == log[last.id].kind
        now == log[last.id].minute
        recent == {m \in Minutes : /\ m <= clock
                                   /\ m > now - CurrentMinutes - BaselineMinutes}
    IN  (\A c \in DimensionCells(e), m \in recent :
           /\ buckets[e.action, c, m].total = buckets[e.action, c, now].total
           /\ buckets[e.action, c, m].success = buckets[e.action, c, m].total
           /\ buckets[e.action, c, m].latencyCount = 0)
          => last.anomaly = 0
=============================================================================
