--------------------------- MODULE AlertPipeline ---------------------------
(***************************************************************************)
(* The event pipeline of app/workers/process_event.py: Celery tasks that   *)
(* each open one database session, resolve the incident for their event,   *)
(* decide whether to alert, deliver, commit, enrich and commit again.      *)
(*                                                                         *)
(* A task is a process.  Between two of its steps other tasks run, and so  *)
(* do the freshdesk matcher, an operator, Redis expiry and crashes.  The   *)
(* database is PostgreSQL at READ COMMITTED seen through SQLAlchemy:       *)
(*   - a SELECT loads the committed row into the session's copy (mem) and  *)
(*     remembers what it loaded (base); later SELECTs keep the copy;       *)
(*   - a flush takes the row lock, held to the end of the transaction;     *)
(*   - a commit writes only the columns that differ from what was loaded;  *)
(*   - an INSERT waits for an uncommitted INSERT of the same key and fails *)
(*     with IntegrityError if the key is committed.                        *)
(*                                                                         *)
(* The incident created for event e is the row e: an event creates at most *)
(* one row that is ever committed.  Confirmed deliveries are kept in sent, *)
(* the outside world's record, whatever the transaction does later.        *)
(***************************************************************************)
EXTENDS IncidentLifecycle, FiniteSets

CONSTANTS Events,         \* distinct (source, received_at, payload) triples
          EventOf,        \* the event a Celery message carries
          FingerprintOf,  \* the fingerprint normalize() gives the event
          Poison,         \* events normalize() raises on
          Measured,       \* events with a business action (metric buckets)
          Bands,          \* score classes explored, see band below
          InitialCells,   \* does the minute's metric bucket exist already
          MaxRetries,     \* max_retries of the Celery task
          Faults          \* environment actions enabled in this instance

ASSUME PipelineAssumption ==
  /\ EventOf \in [Tasks -> Events]
  /\ FingerprintOf \in [Events -> Fingerprints]
  /\ Poison \subseteq Events
  /\ Measured \subseteq Events
  /\ Bands \subseteq {"quiet", "critical_path", "loud"}
  /\ InitialCells \subseteq {"absent", "present"}
  /\ MaxRetries \in Nat
  /\ Faults \subseteq {"db", "crash", "redis", "expiry", "operator", "matcher"}

VARIABLES
  inc,      \* committed incidents table
  raw,      \* committed raw_events row of each event
  links,    \* links[e][r]: committed normalized events of e linked to row r
  cell,     \* committed metric bucket shared by the measured events
  rowLock,  \* row lock of each incident row
  cellLock, \* row or key lock of the metric bucket
  lock,     \* Redis alert lock of each fingerprint (its setter, a ghost)
  orphans,  \* history: fingerprints whose lock was left by a task that died
            \* between taking it and committing what came of it
  silenced, \* history: events kept quiet by such a lock
  redisUp,  \* Redis answers
  sent,     \* tasks whose alert for row r a channel confirmed
  band,     \* score class of each event: loud reaches the medium and alert
            \* thresholds, critical_path alerts below the medium score
  pc,       \* control state of each task
  tries,    \* Celery retries used
  sess      \* the task's SQLAlchemy session

database == <<inc, raw, links, cell>>
locks    == <<rowLock, cellLock>>
redis    == <<lock, orphans, silenced, redisUp>>
vars     == <<inc, raw, links, cell, rowLock, cellLock, lock, orphans, silenced,
              redisUp, sent, band, pc, tries, sess>>

Fp(d) == FingerprintOf[EventOf[d]]

Running == {"insert_raw", "find", "insert", "reselect", "save", "bucket",
            "bucket_insert", "decide", "deliver", "commit", "raise",
            "release", "enrich", "commit_enrich"}
Endings  == {"acked", "dropped", "lost"}
Controls == Running \cup Endings \cup {"queued", "unacked"}

NoSession(d) ==
  [row |-> EventOf[d], mem |-> NoIncident(Fp(d)), base |-> NoIncident(Fp(d)),
   fresh |-> FALSE,    \* the incident row was inserted by this transaction
   rawRow |-> "none",  \* its raw event: inserted here, reused, or rolled back
   ghost |-> FALSE,    \* the incident's INSERT was rolled back
   outcome |-> "none"]

Sessions == [row : Events, mem : Incidents, base : Incidents,
             fresh : BOOLEAN, rawRow : {"none", "new", "reused", "lost"},
             ghost : BOOLEAN,
             outcome : {"none", "quiet", "failed", "delivered"}]

TypeOK ==
  /\ inc \in [Events -> Incidents]
  /\ raw \in [Events -> {"absent", "saved", "processed"}]
  /\ links \in [Events -> [Events -> Nat]]
  /\ cell \in {"absent", "present"}
  /\ rowLock \in [Events -> Tasks \cup {NoTask}]
  /\ cellLock \in Tasks \cup {NoTask}
  /\ lock \in [Fingerprints -> Tasks \cup {NoTask}]
  /\ orphans \subseteq Fingerprints
  /\ silenced \subseteq Events
  /\ redisUp \in BOOLEAN
  /\ sent \in [Events -> SUBSET Tasks]
  /\ band \in [Events -> Bands]
  /\ pc \in [Tasks -> Controls]
  /\ tries \in [Tasks -> 0..MaxRetries]
  /\ sess \in [Tasks -> Sessions]

Init ==
  /\ inc = [e \in Events |-> NoIncident(FingerprintOf[e])]
  /\ raw = [e \in Events |-> "absent"]
  /\ links = [e \in Events |-> [r \in Events |-> 0]]
  /\ cell \in InitialCells
  /\ rowLock = [e \in Events |-> NoTask]
  /\ cellLock = NoTask
  /\ lock = [f \in Fingerprints |-> NoTask]
  /\ orphans = {}
  /\ silenced = {}
  /\ redisUp = TRUE
  /\ sent = [e \in Events |-> {}]
  /\ band \in [Events -> Bands]
  /\ pc = [d \in Tasks |-> "queued"]
  /\ tries = [d \in Tasks |-> 0]
  /\ sess = [d \in Tasks |-> NoSession(d)]

(***************************************************************************)
(* The database a session sees.                                            *)
(***************************************************************************)
OpenRows(f) == {r \in Events : inc[r].fp = f /\ IsOpen(inc[r])}

\* Uncommitted INSERTs another transaction has to wait for.
InsertingIncident(f, d) == \E o \in Tasks \ {d} : sess[o].fresh /\ Fp(o) = f
InsertingRaw(e, d)      == \E o \in Tasks \ {d} : sess[o].rawRow = "new" /\ EventOf[o] = e

RowFree(r, d) == rowLock[r] \in {NoTask, d}
CellFree(d)   == cellLock \in {NoTask, d}

\* Mutant: every column is written, changed or not.
ColumnAlwaysWritten(committed, base, mem) == mem

\* A column the session did not change keeps the value committed meanwhile.
Column(committed, base, mem) == IF mem = base THEN committed ELSE mem

Flushed(committed, base, mem) ==
  [fp       |-> committed.fp,
   status   |-> Column(committed.status, base.status, mem.status),
   ts       |-> Column(committed.ts, base.ts, mem.ts),
   notif    |-> Column(committed.notif, base.notif, mem.notif),
   count    |-> Column(committed.count, base.count, mem.count),
   enriched |-> Column(committed.enriched, base.enriched, mem.enriched)]

RowToWrite(d) ==
  LET s == sess[d]
  IN  IF s.fresh THEN s.mem ELSE Flushed(inc[s.row], s.base, s.mem)

\* Writing an open status over a row closed meanwhile enters it into the
\* partial unique index on open fingerprints again.
Reopens(d) ==
  /\ ~sess[d].fresh /\ ~sess[d].ghost
  /\ ~IsOpen(inc[sess[d].row])
  /\ IsOpen(RowToWrite(d))

\* Mutant: the partial unique index is gone.
NoIndexConflict(d) == FALSE

IndexConflict(d) == Reopens(d) /\ OpenRows(Fp(d)) # {}
IndexWait(d)     == Reopens(d) /\ InsertingIncident(Fp(d), d)

\* Mutant: the bucket stays locked.
FreeLocksButCell(d) ==
  /\ rowLock' = [r \in Events |-> IF rowLock[r] = d THEN NoTask ELSE rowLock[r]]
  /\ cellLock' = cellLock

FreeLocks(d) ==
  /\ rowLock' = [r \in Events |-> IF rowLock[r] = d THEN NoTask ELSE rowLock[r]]
  /\ cellLock' = IF cellLock = d THEN NoTask ELSE cellLock

\* Mutant: a delivered outcome is left to the commit that follows enrichment.
WriteRowLate(d) ==
  inc' = IF sess[d].ghost \/ (pc[d] = "commit" /\ sess[d].outcome = "delivered")
         THEN inc
         ELSE [inc EXCEPT ![sess[d].row] = RowToWrite(d)]

WriteRow(d) ==
  inc' = IF sess[d].ghost THEN inc
         ELSE [inc EXCEPT ![sess[d].row] = RowToWrite(d)]

Goto(d, to)  == pc' = [pc EXCEPT ![d] = to]
Session(d, s) == sess' = [sess EXCEPT ![d] = s]

\* The task returns: Celery acknowledges it and the session is gone.
Finish(d) == Goto(d, "acked") /\ Session(d, NoSession(d))

(***************************************************************************)
(* Step 1: the raw event, idempotent on redelivery.                        *)
(***************************************************************************)

\* Mutant: a processed raw event is reused like an unfinished one.
AfterSelectRawReusing(e) ==
  CASE raw[e] = "absent" -> "insert_raw"
    [] e \in Poison      -> "acked"
    [] OTHER             -> "find"

\* A processed raw event ends the task; an unfinished one is reused, and a
\* poison event fails to normalize again.
AfterSelectRaw(e) ==
  CASE raw[e] = "absent" -> "insert_raw"
    [] raw[e] = "processed" \/ e \in Poison -> "acked"
    [] OTHER -> "find"

\* Find the raw event by its idempotency key.
SelectRaw(d) ==
  LET e == EventOf[d] IN
  /\ pc[d] = "queued"
  /\ Goto(d, AfterSelectRaw(e))
  /\ Session(d, IF raw[e] = "saved" /\ e \notin Poison
                THEN [NoSession(d) EXCEPT !.rawRow = "reused"]
                ELSE NoSession(d))
  /\ UNCHANGED <<database, locks, redis, sent, band, tries>>

\* Insert it.  The unique key lets one transaction in; the others fail.  When
\* normalize() raises, the row is committed unprocessed and the task returns.
InsertRaw(d) ==
  LET e == EventOf[d] IN
  /\ pc[d] = "insert_raw"
  /\ ~InsertingRaw(e, d)
  /\ \/ /\ raw[e] # "absent"
        /\ Goto(d, "raise")
        /\ UNCHANGED <<database, sess>>
     \/ /\ raw[e] = "absent"
        /\ e \in Poison
        /\ raw' = [raw EXCEPT ![e] = "saved"]
        /\ Goto(d, "acked")
        /\ UNCHANGED <<inc, links, cell, sess>>
     \/ /\ raw[e] = "absent"
        /\ e \notin Poison
        /\ Session(d, [sess[d] EXCEPT !.rawRow = "new"])
        /\ Goto(d, "find")
        /\ UNCHANGED database
  /\ UNCHANGED <<locks, redis, sent, band, tries>>

(***************************************************************************)
(* Steps 3 and 4: resolve the incident and link the event to it.           *)
(***************************************************************************)

\* Mutant: the raw event is taken to survive the rollback.
RolledBackKept(rawRow) == rawRow

\* What a full rollback makes of the session's raw event.
RolledBack(rawRow) == IF rawRow = "new" THEN "lost" ELSE rawRow

\* Absorb the event into the session's copy of open row r.
AbsorbInto(d, r) ==
  /\ Session(d, [sess[d] EXCEPT !.row = r, !.base = inc[r],
                                !.mem = Absorb(inc[r])])
  /\ Goto(d, "save")

\* find_or_create_incident up to the INSERT.
FindIncident(d) ==
  /\ pc[d] = "find"
  /\ \/ \E r \in OpenRows(Fp(d)) : AbsorbInto(d, r)
     \/ /\ OpenRows(Fp(d)) = {}
        /\ Goto(d, "insert")
        /\ UNCHANGED sess
  /\ UNCHANGED <<database, locks, redis, sent, band, tries>>

\* The INSERT of a new incident row.  Losing the race to another open row
\* rolls the WHOLE transaction back, the raw event's INSERT included.
InsertIncident(d) ==
  LET r == EventOf[d] IN
  /\ pc[d] = "insert"
  /\ ~InsertingIncident(Fp(d), d)
  /\ \/ /\ OpenRows(Fp(d)) # {}
        /\ Session(d, [sess[d] EXCEPT !.rawRow = RolledBack(@)])
        /\ Goto(d, "reselect")
        /\ UNCHANGED rowLock
     \/ /\ OpenRows(Fp(d)) = {}
        /\ Session(d, [sess[d] EXCEPT !.row = r, !.fresh = TRUE,
                                      !.mem = NewIncident(Fp(d)),
                                      !.base = NoIncident(Fp(d))])
        /\ rowLock' = [rowLock EXCEPT ![r] = d]
        /\ Goto(d, "save")
  /\ UNCHANGED <<database, cellLock, redis, sent, band, tries>>

\* After the lost race: reuse the winner's row, or re-raise if it is gone.
ReselectIncident(d) ==
  /\ pc[d] = "reselect"
  /\ \/ \E r \in OpenRows(Fp(d)) : AbsorbInto(d, r)
     \/ /\ OpenRows(Fp(d)) = {}
        /\ Goto(d, "raise")
        /\ UNCHANGED sess
  /\ UNCHANGED <<database, locks, redis, sent, band, tries>>

\* save_normalized_event flushes: the absorbed row is UPDATEd, which waits for
\* its lock, and the normalized event needs its raw event (foreign key).
SaveNormalized(d) ==
  LET e == EventOf[d] IN
  /\ pc[d] = "save"
  /\ RowFree(sess[d].row, d)
  /\ \/ /\ sess[d].rawRow = "lost"
        /\ Goto(d, "raise")
        /\ UNCHANGED rowLock
     \/ /\ sess[d].rawRow # "lost"
        /\ rowLock' = [rowLock EXCEPT ![sess[d].row] = d]
        /\ Goto(d, IF e \in Measured THEN "bucket" ELSE "decide")
  /\ UNCHANGED <<database, cellLock, redis, sent, band, tries, sess>>

(***************************************************************************)
(* Step 4b: the metric bucket (_upsert_bucket).                            *)
(***************************************************************************)

\* SELECT the cell; an existing one is incremented, which locks its row.
SelectBucket(d) ==
  /\ pc[d] = "bucket"
  /\ \/ /\ cell = "absent"
        /\ Goto(d, "bucket_insert")
        /\ UNCHANGED cellLock
     \/ /\ cell = "present"
        /\ CellFree(d)
        /\ cellLock' = d
        /\ Goto(d, "decide")
  /\ UNCHANGED <<database, rowLock, redis, sent, band, tries, sess>>

\* INSERT the cell.  Losing the race rolls the whole transaction back.  An
\* incident that existed is expired and its next attribute access raises; one
\* this transaction inserted lives on as an object without a row.
InsertBucket(d) ==
  /\ pc[d] = "bucket_insert"
  /\ CellFree(d)
  /\ \/ /\ cell = "absent"
        /\ cellLock' = d
        /\ Goto(d, "decide")
        /\ UNCHANGED <<rowLock, sess>>
     \/ /\ cell = "present"
        /\ ~sess[d].fresh
        /\ Goto(d, "raise")
        /\ UNCHANGED <<locks, sess>>
     \/ /\ cell = "present"
        /\ sess[d].fresh
        /\ rowLock' = [rowLock EXCEPT ![sess[d].row] = NoTask]
        /\ cellLock' = d
        /\ Session(d, [sess[d] EXCEPT !.fresh = FALSE, !.ghost = TRUE,
                                      !.rawRow = RolledBack(@)])
        /\ Goto(d, "decide")
  /\ UNCHANGED <<database, redis, sent, band, tries>>

(***************************************************************************)
(* Step 5: score, decide, take the alert lock (SET NX EX, fail-open).      *)
(***************************************************************************)

\* Mutant: the alert lock is never consulted.
CanAcquireAlways(d) == TRUE

\* SET NX: refused while the key exists, granted when Redis does not answer.
CanAcquire(d) == redisUp => lock[Fp(d)] = NoTask

Decide(d) ==
  LET e      == EventOf[d]
      scored == UpdateScore(sess[d].mem, band[e] = "loud")
      alert  == band[e] # "quiet" /\ ~AlreadyAlerted(scored)
      quiet  == [sess[d] EXCEPT !.mem = scored, !.outcome = "quiet"]
  IN
  /\ pc[d] = "decide"
  /\ \/ /\ ~alert
        /\ Session(d, quiet)
        /\ Goto(d, "commit")
        /\ UNCHANGED <<lock, silenced>>
     \/ /\ alert
        /\ ~CanAcquire(d)
        /\ silenced' = IF Fp(d) \in orphans THEN silenced \cup {e} ELSE silenced
        /\ Session(d, quiet)
        /\ Goto(d, "commit")
        /\ UNCHANGED lock
     \/ /\ alert
        /\ CanAcquire(d)
        /\ lock' = IF redisUp THEN [lock EXCEPT ![Fp(d)] = d] ELSE lock
        /\ Session(d, [sess[d] EXCEPT !.mem = scored])
        /\ Goto(d, "deliver")
        /\ UNCHANGED silenced
  /\ UNCHANGED <<database, locks, orphans, redisUp, sent, band, tries>>

(***************************************************************************)
(* Steps 6 and 7: deliver, record the outcome, commit.                     *)
(***************************************************************************)

\* Mutant: the outcome is recorded as delivered whatever the channels answer.
DeliverUnconfirmed(d) ==
  /\ pc[d] = "deliver"
  /\ \/ sent' = [sent EXCEPT ![sess[d].row] = @ \cup {d}]
     \/ UNCHANGED sent
  /\ Session(d, [sess[d] EXCEPT !.mem = MarkDelivered(MarkDetected(@), d),
                                !.outcome = "delivered"])
  /\ Goto(d, "commit")
  /\ UNCHANGED <<database, locks, redis, band, tries>>

\* deliver_alert: some channel confirms, or every channel fails.
Deliver(d) ==
  LET detected == MarkDetected(sess[d].mem) IN
  /\ pc[d] = "deliver"
  /\ \/ /\ sent' = [sent EXCEPT ![sess[d].row] = @ \cup {d}]
        /\ Session(d, [sess[d] EXCEPT !.mem = MarkDelivered(detected, d),
                                      !.outcome = "delivered"])
     \/ /\ Session(d, [sess[d] EXCEPT !.mem = MarkFailed(detected),
                                      !.outcome = "failed"])
        /\ UNCHANGED sent
  /\ Goto(d, "commit")
  /\ UNCHANGED <<database, locks, redis, band, tries>>

\* Mutant: an undelivered alert is enriched too.
AfterOutcomeEnriching(outcome) == "enrich"

AfterOutcome(outcome) == IF outcome = "delivered" THEN "enrich" ELSE "release"

\* The commit that ends the pipeline's main transaction; the session keeps its
\* copy (expire_on_commit=False).  What was rolled back earlier stays lost.
Commit(d) ==
  LET e == EventOf[d]
      s == sess[d]
  IN
  /\ pc[d] = "commit"
  /\ ~IndexConflict(d) /\ ~IndexWait(d)
  /\ WriteRow(d)
  /\ raw' = IF s.rawRow = "lost" THEN raw ELSE [raw EXCEPT ![e] = "processed"]
  /\ links' = IF s.ghost THEN links ELSE [links EXCEPT ![e][s.row] = @ + 1]
  /\ cell' = IF cellLock = d THEN "present" ELSE cell
  /\ FreeLocks(d)
  /\ \/ /\ s.outcome = "quiet"
        /\ Finish(d)
     \/ /\ s.outcome # "quiet"
        /\ Session(d, [s EXCEPT !.base = s.mem, !.fresh = FALSE,
                                !.rawRow = "none"])
        /\ Goto(d, AfterOutcome(s.outcome))
  /\ UNCHANGED <<redis, sent, band, tries>>

\* Mutant: the lock is left to its TTL.
UnlockedByTtl(d) == lock

\* DEL of the alert lock: nobody checks whose it is.
Unlocked(d) == IF redisUp THEN [lock EXCEPT ![Fp(d)] = NoTask] ELSE lock

\* A lock that is gone is nobody's orphan.
OrphansStay == orphans' = {f \in orphans : lock'[f] # NoTask}

\* The commit raises.  After a delivery attempt the alert lock is released
\* before the exception propagates.
CommitFails(d) ==
  /\ pc[d] = "commit"
  /\ "db" \in Faults \/ IndexConflict(d)
  /\ lock' = IF sess[d].outcome = "quiet" THEN lock ELSE Unlocked(d)
  /\ OrphansStay
  /\ Goto(d, "raise")
  /\ UNCHANGED <<database, locks, silenced, redisUp, sent, band, tries, sess>>

\* Not delivered: release the lock so that a later event can try again.
ReleaseLock(d) ==
  /\ pc[d] = "release"
  /\ lock' = Unlocked(d)
  /\ OrphansStay
  /\ Finish(d)
  /\ UNCHANGED <<database, locks, silenced, redisUp, sent, band, tries>>

(***************************************************************************)
(* Step 8: best-effort enrichment in a second transaction.                 *)
(***************************************************************************)

\* enrich_incident: the LLM gives a summary, or nothing.
Enrich(d) ==
  /\ pc[d] = "enrich"
  /\ \/ Session(d, [sess[d] EXCEPT !.mem = MarkEnriched(@)])
     \/ UNCHANGED sess
  /\ Goto(d, "commit_enrich")
  /\ UNCHANGED <<database, locks, redis, sent, band, tries>>

\* The UPDATE waits for the row lock, then commits at once.
CommitEnrichment(d) ==
  /\ pc[d] = "commit_enrich"
  /\ sess[d].mem = sess[d].base \/ sess[d].ghost
       \/ (RowFree(sess[d].row, d) /\ ~IndexWait(d) /\ ~IndexConflict(d))
  /\ WriteRow(d)
  /\ Finish(d)
  /\ UNCHANGED <<raw, links, cell, locks, redis, sent, band, tries>>

\* Its commit fails: rolled back and swallowed.
EnrichmentLost(d) ==
  /\ pc[d] = "commit_enrich"
  /\ "db" \in Faults \/ IndexConflict(d)
  /\ Finish(d)
  /\ UNCHANGED <<database, locks, redis, sent, band, tries>>

(***************************************************************************)
(* Failure, retry, crash and redelivery.                                   *)
(***************************************************************************)

\* A database call raises before an alert was attempted.
DatabaseError(d) ==
  /\ "db" \in Faults
  /\ pc[d] \in {"insert_raw", "find", "insert", "reselect", "save", "bucket",
                "bucket_insert", "decide"}
  /\ Goto(d, "raise")
  /\ UNCHANGED <<database, locks, redis, sent, band, tries, sess>>

\* Mutant: one retry too many.
RetriesLeftOffByOne(d) == tries[d] <= MaxRetries

RetriesLeft(d) == tries[d] < MaxRetries

\* The exception leaves the session (rollback) and reaches self.retry(exc=exc).
\* Celery re-raises exc itself once max_retries is exceeded: the task ends.
RetryOrDrop(d) ==
  /\ pc[d] = "raise"
  /\ \/ /\ RetriesLeft(d)
        /\ tries' = [tries EXCEPT ![d] = @ + 1]
        /\ Goto(d, "queued")
     \/ /\ ~RetriesLeft(d)
        /\ Goto(d, "dropped")
        /\ UNCHANGED tries
  /\ FreeLocks(d)
  /\ Session(d, NoSession(d))
  /\ UNCHANGED <<database, redis, sent, band>>

\* An alert is under way and its outcome is not committed.
Attempting(d) ==
  \/ pc[d] = "deliver"
  \/ pc[d] = "commit" /\ sess[d].outcome # "quiet"

\* The task dies: PostgreSQL rolls back and Redis keeps the alert lock.  When
\* the whole worker dies with it the message stays unacknowledged (acks_late);
\* when only the pool's child process does, Celery acknowledges it with a
\* WorkerLostError (task_reject_on_worker_lost is not set): the event is lost.
Crash(d) ==
  /\ "crash" \in Faults
  /\ pc[d] \in Running
  /\ orphans' = IF Attempting(d) /\ lock[Fp(d)] = d THEN orphans \cup {Fp(d)} ELSE orphans
  /\ FreeLocks(d)
  /\ Session(d, NoSession(d))
  /\ Goto(d, "unacked") \/ Goto(d, "lost")
  /\ UNCHANGED <<database, lock, silenced, redisUp, sent, band, tries>>

\* The broker delivers an unacknowledged message again.
Redeliver(d) ==
  /\ pc[d] = "unacked"
  /\ Goto(d, "queued")
  /\ UNCHANGED <<database, locks, redis, sent, band, tries, sess>>

(***************************************************************************)
(* The environment.                                                        *)
(***************************************************************************)

\* The lock's TTL passes.  It is far longer than one task's transaction, so no
\* task of the fingerprint spans it.
LockExpires(f) ==
  /\ "expiry" \in Faults
  /\ lock[f] # NoTask
  /\ \A d \in Tasks : pc[d] \in Running => Fp(d) # f
  /\ lock' = [lock EXCEPT ![f] = NoTask]
  /\ OrphansStay
  /\ UNCHANGED <<database, locks, silenced, redisUp, sent, band, pc, tries, sess>>

RedisFlips ==
  /\ "redis" \in Faults
  /\ redisUp' = ~redisUp
  /\ UNCHANGED <<database, locks, lock, orphans, silenced, sent, band, pc, tries, sess>>

\* An operator closes an incident along the state machine.
OperatorCloses(r) ==
  /\ "operator" \in Faults
  /\ rowLock[r] = NoTask
  /\ \E s \in ClosedStatuses :
       /\ IsOpen(inc[r])
       /\ CanTransition(inc[r].status, s)
       /\ inc' = [inc EXCEPT ![r].status = s]
  /\ UNCHANGED <<raw, links, cell, locks, redis, sent, band, pc, tries, sess>>

\* The freshdesk matcher records a match for a delivered, unmatched incident.
\* It assigns the status without consulting the state machine.
MatcherMatches(r) ==
  /\ "matcher" \in Faults
  /\ rowLock[r] = NoTask
  /\ inc[r].ts # NoTask
  /\ IsOpen(inc[r])
  /\ inc[r].status \notin {"matched_to_freshdesk", "ignored"}
  /\ inc' = [inc EXCEPT ![r].status = "matched_to_freshdesk"]
  /\ UNCHANGED <<raw, links, cell, locks, redis, sent, band, pc, tries, sess>>

(***************************************************************************)
(* The specification.                                                      *)
(***************************************************************************)
TaskStep(d) ==
  \/ SelectRaw(d) \/ InsertRaw(d)
  \/ FindIncident(d) \/ InsertIncident(d) \/ ReselectIncident(d)
  \/ SaveNormalized(d) \/ SelectBucket(d) \/ InsertBucket(d)
  \/ Decide(d) \/ Deliver(d) \/ Commit(d) \/ CommitFails(d) \/ ReleaseLock(d)
  \/ Enrich(d) \/ CommitEnrichment(d) \/ EnrichmentLost(d)
  \/ DatabaseError(d) \/ RetryOrDrop(d)

Environment ==
  \/ \E d \in Tasks : Crash(d) \/ Redeliver(d)
  \/ \E f \in Fingerprints : LockExpires(f)
  \/ RedisFlips
  \/ \E r \in Events : OperatorCloses(r) \/ MatcherMatches(r)

Next == (\E d \in Tasks : TaskStep(d)) \/ Environment

Spec == Init /\ [][Next]_vars

\* Celery keeps every worker running; nothing is promised of the environment.
FairSpec == Spec /\ \A d \in Tasks : WF_vars(TaskStep(d))

(***************************************************************************)
(* Properties.                                                             *)
(***************************************************************************)

\* The abstract benchmark this pipeline implements.  Redis decides whether the
\* first claim is final: without it, the alert lock fails open.
Benchmark ==
  INSTANCE BenchmarkRace WITH
    Incidents <- Events, Alerts <- Tasks, NoAlert <- NoTask,
    ClaimFinal <- "redis" \notin Faults,
    confirmed <- sent,
    claim <- [r \in Events |-> inc[r].ts],
    enriched <- [r \in Events |-> inc[r].enriched]

\* Every step of the pipeline is a step of the abstract benchmark or invisible
\* to it: timestamps come from confirmed alerts only, are final while Redis
\* answers, and precede enrichment (README, core guarantees).
ImplementsBenchmark == Benchmark!Spec

\* A row that claims a benchmark timestamp has had an alert confirmed by a
\* channel, and by the very task the timestamp records: no retry, rollback,
\* crash or stale copy fabricates a win (models.py, agent_alert_timestamp).
TimestampIsADelivery ==
  \A r \in Events : inc[r].ts # NoTask => inc[r].ts \in sent[r]

\* At most one open row per fingerprint, across creation races, recurrences
\* and closed rows that a stale copy writes open again (find_or_create_incident).
OneOpenIncident ==
  \A r, s \in Events :
    IsOpen(inc[r]) /\ IsOpen(inc[s]) /\ inc[r].fp = inc[s].fp => r = s

\* However often the broker delivers an event, and wherever its task fails, it
\* is linked to one incident and once (idempotency_key, acks_late).
EventCountedOnce ==
  \A e, r, s \in Events :
    links[e][r] > 0 => links[e][r] = 1 /\ (links[e][s] > 0 => r = s)

\* Its incident was created by this transaction and rolled back with it by a
\* lost metric-bucket race, after which the task carried on.
RowRolledBack(d) == sess[d].ghost

\* When a task starts to enrich, the delivered win is already committed, so a
\* crash during enrichment cannot lose it (process_event.py, Step 6+7).  That is
\* not so where the incident's row was rolled back: the alert has been sent, and
\* there is no row its commit could have written the win to.
WinCommittedBeforeEnrichment ==
  \A d \in Tasks :
    pc[d] \in {"enrich", "commit_enrich"} =>
      inc[sess[d].row].ts # NoTask \/ RowRolledBack(d)

\* Only an incident with a delivered alert is enriched, in the committed table.
EnrichedOnlyIfDelivered ==
  \A r \in Events : inc[r].enriched => inc[r].ts # NoTask

\* An incident of the fingerprint was closed, and another one took its place.
Recurred(f) ==
  \E r, s \in Events : /\ r # s /\ FingerprintOf[r] = f /\ FingerprintOf[s] = f
                       /\ inc[r].status # "absent" /\ inc[s].status # "absent"

\* While Redis answers, a burst fires one alert per incident: the losers of the
\* alert lock, and tasks holding a copy from before the first commit, stay quiet.
\* After a recurrence that is not so: the index refuses the commit of an alert
\* sent for a copy of the closed incident, and its lock is released.
OneAlertPerIncident ==
  \A r \in Events : Recurred(FingerprintOf[r]) \/ \A c, d \in sent[r] : c = d

\* A delivered incident is not turned into a failed one by a concurrent task.
DeliveredNeverFailed ==
  \A r \in Events : inc[r].ts # NoTask => inc[r].notif = "delivered"

Ended == \A d \in Tasks : pc[d] \in Endings

\* An incident holding a committed event above the alert threshold has been
\* alerted, or every channel failed for it: the alert lock never swallows an
\* alert that no other task makes, whatever commits fail and locks expire.  The
\* one exception is the lock of a task that died while it was alerting: until
\* its TTL passes, it keeps other events quiet and nobody alerts for them.
SevereEventAnswered ==
  \A e, r \in Events :
    links[e][r] > 0 /\ band[e] # "quiet" =>
      inc[r].ts # NoTask \/ inc[r].notif = "failed" \/ e \in silenced

\* A confirmed alert leaves a record: once every task has ended, the incident
\* it was sent for exists with a benchmark timestamp, unless it has recurred.
AlertIsRecorded ==
  Ended => \A r \in Events :
             sent[r] # {} => inc[r].ts # NoTask \/ Recurred(FingerprintOf[r])

\* The main transaction is atomic: an event is marked processed exactly when it
\* is linked to an incident, even when a lost race rolls it back half way.
ProcessedIffLinked ==
  \A e \in Events \ Poison :
    raw[e] = "processed" <=> \E r \in Events : links[e][r] > 0

\* Every task ends, through every wait for a row lock or an uncommitted key.
EveryTaskEnds == \A d \in Tasks : <>(pc[d] \in Endings)

\* models.py: an event that fails every retry lands in the dead-letter table,
\* "the 'no event is dropped' guarantee".
NoEventDropped == \A d \in Tasks : pc[d] # "dropped"

Successors(S) == S \cup UNION {StateTransitions[status] : status \in S \cap LiveStatuses}

\* A committed status follows from the previous one along the edges of the
\* state machine, of which one commit may take several, and the closed statuses
\* are terminal (service.py, STATE_TRANSITIONS and CLOSED_STATUSES).
StatusFollowsTransitions ==
  [][\A r \in Events :
       inc[r].status # "absent" =>
         inc'[r].status \in Successors(Successors(Successors({inc[r].status})))]_vars
=============================================================================
