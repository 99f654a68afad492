---------------------------- MODULE AlertProofs ----------------------------
(***************************************************************************)
(* What the alerts of the pipeline promise: one open incident for each     *)
(* fingerprint, one alert for each incident, a record for each alert, no   *)
(* delivered incident turned into a failed one and no severe event left    *)
(* unanswered.  Each theorem names the faults it needs to be absent;       *)
(* everything else (tasks, events, retries, interleavings) is arbitrary.   *)
(***************************************************************************)
EXTENDS BenchmarkProofs

(***************************************************************************)
(* What the lifecycle operators do to the notification and the status.     *)
(***************************************************************************)
AlertedStatuses == {"alerted", "enriched", "matched_to_freshdesk"}

LEMMA TransitionStatus ==
  ASSUME NEW i \in Incidents, NEW s \in Statuses
  PROVE  /\ Transition(i, s).notif = i.notif
         /\ Transition(i, s).status \in {i.status, s}
  BY DEF Transition, Incidents, Statuses, LiveStatuses, ClosedStatuses

LEMMA FreshStatus ==
  ASSUME NEW f \in Fingerprints
  PROVE  /\ NewIncident(f).notif = "pending" /\ NewIncident(f).status = "new"
         /\ NoIncident(f).notif = "pending" /\ NoIncident(f).status = "absent"
  BY DEF NewIncident, NoIncident

LEMMA AbsorbStatus ==
  ASSUME NEW i \in Incidents
  PROVE  Absorb(i).notif = i.notif /\ Absorb(i).status = i.status
  BY DEF Absorb, Incidents

LEMMA UpdateScoreStatus ==
  ASSUME NEW i \in Incidents, NEW m \in BOOLEAN
  PROVE  /\ UpdateScore(i, m).notif = i.notif
         /\ UpdateScore(i, m).status \in {i.status, "observing"}
  BY DEF UpdateScore, Incidents

LEMMA MarkDetectedStatus ==
  ASSUME NEW i \in Incidents
  PROVE  /\ MarkDetected(i).notif = i.notif
         /\ MarkDetected(i).status \in {i.status, "detected"}
  BY TransitionStatus DEF MarkDetected, Statuses, LiveStatuses

LEMMA MarkDeliveredStatus ==
  ASSUME NEW i \in Incidents, NEW d \in Tasks
  PROVE  /\ MarkDelivered(i, d).notif = "delivered"
         /\ MarkDelivered(i, d).status \in {i.status, "alerted"}
  <1> DEFINE j == [i EXCEPT !.ts = d, !.notif = "delivered"]
  <1>1. j \in Incidents /\ j.notif = "delivered" /\ j.status = i.status
    BY DEF Incidents
  <1> QED
    BY <1>1, TransitionStatus DEF MarkDelivered, Statuses, LiveStatuses

LEMMA MarkFailedStatus ==
  ASSUME NEW i \in Incidents
  PROVE  /\ MarkFailed(i).notif = "failed"
         /\ MarkFailed(i).status \in {i.status, "notification_failed"}
  <1> DEFINE j == [i EXCEPT !.notif = "failed"]
  <1>1. j \in Incidents /\ j.notif = "failed" /\ j.status = i.status
    BY DEF Incidents
  <1> QED
    BY <1>1, TransitionStatus DEF MarkFailed, Statuses, LiveStatuses

LEMMA MarkEnrichedStatus ==
  ASSUME NEW i \in Incidents
  PROVE  /\ MarkEnriched(i).notif = i.notif
         /\ MarkEnriched(i).status \in {i.status, "enriched"}
  <1> DEFINE j == [i EXCEPT !.enriched = TRUE]
  <1>1. j \in Incidents /\ j.notif = i.notif /\ j.status = i.status
    BY DEF Incidents
  <1> QED
    BY <1>1, TransitionStatus DEF MarkEnriched, Statuses, LiveStatuses

(***************************************************************************)
(* The shapes of a task's step: what it does to its own session and where  *)
(* it goes.  Every step has one of them or commits.                        *)
(***************************************************************************)
SameCopy(d) ==
  LET s == sess[d]
      t == sess'[d]
  IN  /\ t.row = s.row /\ t.base = s.base /\ t.mem = s.mem
      /\ t.fresh = s.fresh /\ t.ghost = s.ghost

\* The session is gone; the task waits, starts over or has ended.
Leaves(d) == sess'[d] = NoSession(d) /\ pc'[d] \in Idle

\* The copy goes on unchanged.
Keeps(d) ==
  /\ SameCopy(d)
  /\ \/ pc'[d] \in {"raise", "find", "insert", "reselect"}
     \/ pc[d] \in Recording /\ pc'[d] \in Recording \cup {"decide"}
     \/ pc[d] = "enrich" /\ pc'[d] = "commit_enrich"

\* A copy of an open row is loaded and absorbs the event.
Loads(d) ==
  /\ pc'[d] = "save"
  /\ \E r \in OpenRows(Fp(d)) :
       LET t == sess'[d] IN
       /\ t.row = r /\ t.base = inc[r] /\ t.mem = Absorb(inc[r])
       /\ ~t.fresh /\ ~t.ghost

\* A row is inserted.
Creates(d) ==
  LET t == sess'[d] IN
  /\ pc'[d] = "save"
  /\ OpenRows(Fp(d)) = {} /\ ~InsertingIncident(Fp(d), d)
  /\ t.row = EventOf[d] /\ t.base = NoIncident(Fp(d)) /\ t.mem = NewIncident(Fp(d))
  /\ t.fresh /\ ~t.ghost

\* The inserted row is rolled back and its object lives on.
Haunts(d) ==
  LET s == sess[d]
      t == sess'[d]
  IN  /\ pc[d] = "bucket_insert" /\ pc'[d] = "decide"
      /\ cell = "present"
      /\ t.row = s.row /\ t.base = s.base /\ t.mem = s.mem /\ ~t.fresh /\ t.ghost

\* The copy changes to m and nothing else of the session but its outcome.
Marks(d, m) ==
  LET s == sess[d]
      t == sess'[d]
  IN  /\ t.row = s.row /\ t.base = s.base /\ t.fresh = s.fresh /\ t.ghost = s.ghost
      /\ t.mem = m

Decides(d) ==
  /\ pc[d] = "decide"
  /\ Marks(d, UpdateScore(sess[d].mem, band[EventOf[d]] = "loud"))
  /\ \/ pc'[d] = "commit" /\ sess'[d].outcome = "quiet"
     \/ pc'[d] = "deliver"

Delivers(d) ==
  /\ pc[d] = "deliver" /\ pc'[d] = "commit"
  /\ \/ /\ Marks(d, MarkDelivered(MarkDetected(sess[d].mem), d))
        /\ sess'[d].outcome = "delivered"
     \/ /\ Marks(d, MarkFailed(MarkDetected(sess[d].mem)))
        /\ sess'[d].outcome = "failed"

Enriches(d) ==
  /\ pc[d] = "enrich" /\ pc'[d] = "commit_enrich"
  /\ Marks(d, MarkEnriched(sess[d].mem))

Shape(d) ==
  \/ Leaves(d) \/ Keeps(d) \/ Loads(d) \/ Creates(d) \/ Haunts(d)
  \/ Decides(d) \/ Delivers(d) \/ Enriches(d)

LEMMA SelectRawShape ==
  ASSUME TypeOK, PipelineInv, NEW d \in Tasks, SelectRaw(d)
  PROVE  Leaves(d) /\ Others(d)
  <1>1. EventOf[d] \in Events /\ RecordInv(EventOf[d])
    BY PipelineAssumption DEF PipelineInv
  <1>2. Session(d, NoSession(d)) /\ Goto(d, AfterSelectRaw(EventOf[d]))
    BY <1>1 DEF SelectRaw, RecordInv
  <1>3. AfterSelectRaw(EventOf[d]) \in Idle
    BY <1>1 DEF AfterSelectRaw, RecordInv, TypeOK, Idle
  <1> QED
    BY <1>2, <1>3, SessionIs, GotoIs DEF Leaves, Others

LEMMA InsertRawShape ==
  ASSUME TypeOK, PipelineInv, NEW d \in Tasks, InsertRaw(d)
  PROVE  (Leaves(d) \/ Keeps(d)) /\ Others(d)
  <1>1. sess[d] \in Sessions /\ sess[d] = NoSession(d)
    BY DEF InsertRaw, PipelineInv, SessionInv, Idle, TypeOK
  <1>2. CASE Goto(d, "raise") /\ UNCHANGED sess
    BY <1>2, GotoIs DEF Keeps, SameCopy, Others
  <1>3. CASE Goto(d, "acked") /\ UNCHANGED sess
    BY <1>1, <1>3, GotoIs DEF Leaves, Idle, Others
  <1>4. CASE Session(d, [sess[d] EXCEPT !.rawRow = "new"]) /\ Goto(d, "find")
    <2>1. /\ sess'[d] = [sess[d] EXCEPT !.rawRow = "new"]
          /\ pc'[d] = "find" /\ Others(d)
      BY <1>4, SessionIs, GotoIs DEF Others
    <2> QED
      BY <1>1, <2>1 DEF Keeps, SameCopy, Sessions
  <1> QED
    BY <1>2, <1>3, <1>4 DEF InsertRaw

LEMMA AbsorbShape ==
  ASSUME TypeOK, PipelineInv, NEW d \in Tasks, pc[d] \in Resolving,
         NEW r \in OpenRows(Fp(d)), AbsorbInto(d, r)
  PROVE  Loads(d) /\ Others(d)
  <1>1. sess[d] \in Sessions /\ ~sess[d].fresh /\ ~sess[d].ghost
    BY DEF TypeOK, PipelineInv, SessionInv
  <1> DEFINE s == [sess[d] EXCEPT !.row = r, !.base = inc[r], !.mem = Absorb(inc[r])]
  <1>2. /\ s.row = r /\ s.base = inc[r] /\ s.mem = Absorb(inc[r])
        /\ ~s.fresh /\ ~s.ghost
    BY <1>1 DEF Sessions
  <1> HIDE DEF s
  <1>3. sess'[d] = s /\ pc'[d] = "save" /\ Others(d)
    BY SessionIs, GotoIs DEF AbsorbInto, Others, s
  <1> QED
    BY <1>2, <1>3 DEF Loads

LEMMA InsertIncidentShape ==
  ASSUME TypeOK, PipelineInv, NEW d \in Tasks, InsertIncident(d)
  PROVE  (Keeps(d) \/ Creates(d)) /\ Others(d)
  <1>1. sess[d] \in Sessions /\ ~sess[d].ghost
    BY DEF InsertIncident, TypeOK, PipelineInv, SessionInv, Resolving
  <1>2. CASE /\ Session(d, [sess[d] EXCEPT !.rawRow = RolledBack(@)])
             /\ Goto(d, "reselect")
    <2> DEFINE s == [sess[d] EXCEPT !.rawRow = RolledBack(@)]
    <2>1. /\ s.row = sess[d].row /\ s.mem = sess[d].mem /\ s.base = sess[d].base
          /\ s.fresh = sess[d].fresh /\ s.ghost = sess[d].ghost
      BY <1>1 DEF Sessions
    <2> HIDE DEF s
    <2>2. sess'[d] = s /\ pc'[d] = "reselect" /\ Others(d)
      BY <1>2, SessionIs, GotoIs DEF Others, s
    <2> QED
      BY <2>1, <2>2 DEF Keeps, SameCopy
  <1>3. CASE /\ OpenRows(Fp(d)) = {}
             /\ Session(d, [sess[d] EXCEPT !.row = EventOf[d], !.fresh = TRUE,
                                          !.mem = NewIncident(Fp(d)),
                                          !.base = NoIncident(Fp(d))])
             /\ Goto(d, "save")
    <2> DEFINE s == [sess[d] EXCEPT !.row = EventOf[d], !.fresh = TRUE,
                                    !.mem = NewIncident(Fp(d)),
                                    !.base = NoIncident(Fp(d))]
    <2>1. /\ s.row = EventOf[d] /\ s.mem = NewIncident(Fp(d))
          /\ s.base = NoIncident(Fp(d)) /\ s.fresh /\ ~s.ghost
      BY <1>1 DEF Sessions
    <2> HIDE DEF s
    <2>2. sess'[d] = s /\ pc'[d] = "save" /\ Others(d)
      BY <1>3, SessionIs, GotoIs DEF Others, s
    <2> QED
      BY <1>3, <2>1, <2>2 DEF Creates, InsertIncident
  <1> QED
    BY <1>2, <1>3 DEF InsertIncident

LEMMA InsertBucketShape ==
  ASSUME TypeOK, NEW d \in Tasks, InsertBucket(d)
  PROVE  (Keeps(d) \/ Haunts(d)) /\ Others(d)
  <1>1. sess[d] \in Sessions /\ pc[d] = "bucket_insert"
    BY DEF InsertBucket, TypeOK
  <1>2. CASE (Goto(d, "decide") \/ Goto(d, "raise")) /\ UNCHANGED sess
    BY <1>1, <1>2, GotoIs DEF Keeps, SameCopy, Others, Recording
  <1>3. CASE /\ Goto(d, "decide") /\ cell = "present"
             /\ Session(d, [sess[d] EXCEPT !.fresh = FALSE, !.ghost = TRUE,
                                           !.rawRow = RolledBack(@)])
    <2> DEFINE s == [sess[d] EXCEPT !.fresh = FALSE, !.ghost = TRUE,
                                    !.rawRow = RolledBack(@)]
    <2>1. /\ s.row = sess[d].row /\ s.mem = sess[d].mem /\ s.base = sess[d].base
          /\ ~s.fresh /\ s.ghost
      BY <1>1 DEF Sessions
    <2> HIDE DEF s
    <2>2. sess'[d] = s /\ pc'[d] = "decide" /\ Others(d)
      BY <1>3, SessionIs, GotoIs DEF Others, s
    <2> QED
      BY <1>1, <1>3, <2>1, <2>2 DEF Haunts
  <1> QED
    BY <1>2, <1>3 DEF InsertBucket

LEMMA DecideShape ==
  ASSUME TypeOK, NEW d \in Tasks, Decide(d)
  PROVE  Decides(d) /\ Others(d)
  <1> DEFINE scored == UpdateScore(sess[d].mem, band[EventOf[d]] = "loud")
             quiet  == [sess[d] EXCEPT !.mem = scored, !.outcome = "quiet"]
             loud   == [sess[d] EXCEPT !.mem = scored]
  <1>1. sess[d] \in Sessions /\ pc[d] = "decide"
    BY DEF Decide, TypeOK
  <1> HIDE DEF scored
  <1>2. /\ quiet.mem = scored /\ loud.mem = scored /\ quiet.outcome = "quiet"
        /\ quiet.row = sess[d].row /\ loud.row = sess[d].row
        /\ quiet.base = sess[d].base /\ loud.base = sess[d].base
        /\ quiet.fresh = sess[d].fresh /\ loud.fresh = sess[d].fresh
        /\ quiet.ghost = sess[d].ghost /\ loud.ghost = sess[d].ghost
    BY <1>1 DEF Sessions
  <1>3. \/ Session(d, quiet) /\ Goto(d, "commit")
        \/ Session(d, loud) /\ Goto(d, "deliver")
    BY DEF Decide, scored
  <1> HIDE DEF quiet, loud
  <1>4. \/ sess'[d] = quiet /\ pc'[d] = "commit"
        \/ sess'[d] = loud /\ pc'[d] = "deliver"
    BY <1>3, SessionIs, GotoIs
  <1>5. Others(d)
    BY <1>3, SessionIs, GotoIs DEF Others
  <1> QED
    BY <1>1, <1>2, <1>4, <1>5 DEF Decides, Marks, scored

LEMMA DeliverShape ==
  ASSUME TypeOK, NEW d \in Tasks, Deliver(d)
  PROVE  Delivers(d) /\ Others(d)
  <1> DEFINE won    == MarkDelivered(MarkDetected(sess[d].mem), d)
             missed == MarkFailed(MarkDetected(sess[d].mem))
             winner == [sess[d] EXCEPT !.mem = won, !.outcome = "delivered"]
             loser  == [sess[d] EXCEPT !.mem = missed, !.outcome = "failed"]
  <1>1. sess[d] \in Sessions /\ pc[d] = "deliver"
    BY DEF Deliver, TypeOK
  <1> HIDE DEF won, missed
  <1>2. /\ winner.mem = won /\ winner.outcome = "delivered"
        /\ winner.row = sess[d].row /\ winner.base = sess[d].base
        /\ winner.fresh = sess[d].fresh /\ winner.ghost = sess[d].ghost
        /\ loser.mem = missed /\ loser.outcome = "failed"
        /\ loser.row = sess[d].row /\ loser.base = sess[d].base
        /\ loser.fresh = sess[d].fresh /\ loser.ghost = sess[d].ghost
    BY <1>1 DEF Sessions
  <1>3. (Session(d, winner) \/ Session(d, loser)) /\ Goto(d, "commit")
    BY DEF Deliver, won, missed
  <1> HIDE DEF winner, loser
  <1>4. (sess'[d] = winner \/ sess'[d] = loser) /\ pc'[d] = "commit" /\ Others(d)
    BY <1>3, SessionIs, GotoIs DEF Others
  <1> QED
    BY <1>1, <1>2, <1>4 DEF Delivers, Marks, won, missed

LEMMA EnrichShape ==
  ASSUME TypeOK, NEW d \in Tasks, Enrich(d)
  PROVE  (Keeps(d) \/ Enriches(d)) /\ Others(d)
  <1> DEFINE rich == MarkEnriched(sess[d].mem)
             s    == [sess[d] EXCEPT !.mem = rich]
  <1>1. sess[d] \in Sessions /\ pc[d] = "enrich"
    BY DEF Enrich, TypeOK
  <1>2. CASE Session(d, s) /\ Goto(d, "commit_enrich")
    <2> HIDE DEF rich
    <2>1. /\ s.mem = rich /\ s.row = sess[d].row /\ s.base = sess[d].base
          /\ s.fresh = sess[d].fresh /\ s.ghost = sess[d].ghost
      BY <1>1 DEF Sessions
    <2> HIDE DEF s
    <2>2. sess'[d] = s /\ pc'[d] = "commit_enrich" /\ Others(d)
      BY <1>2, SessionIs, GotoIs DEF Others
    <2> QED
      BY <1>1, <2>1, <2>2 DEF Enriches, Marks, rich
  <1>3. CASE UNCHANGED sess /\ Goto(d, "commit_enrich")
    BY <1>1, <1>3, GotoIs DEF Keeps, SameCopy, Others
  <1> QED
    BY <1>2, <1>3 DEF Enrich

\* A step other than the two commits leaves the incident rows alone and has one
\* of the shapes.
LEMMA StepShape ==
  ASSUME TypeOK, PipelineInv, NEW d \in Tasks, TaskStep(d)
  PROVE  \/ Commit(d)
         \/ CommitEnrichment(d)
         \/ inc' = inc /\ band' = band /\ Shape(d) /\ Others(d)
  <1> USE DEF database, Shape
  <1>1. CASE SelectRaw(d) \/ InsertRaw(d)
    BY <1>1, SelectRawShape, InsertRawShape DEF SelectRaw, InsertRaw
  <1>2. CASE FindIncident(d) \/ ReselectIncident(d)
    <2>1. CASE \E r \in OpenRows(Fp(d)) : AbsorbInto(d, r)
      BY <1>2, <2>1, AbsorbShape DEF FindIncident, ReselectIncident, Resolving
    <2>2. CASE (Goto(d, "insert") \/ Goto(d, "raise")) /\ UNCHANGED sess
      BY <1>2, <2>2, GotoIs
      DEF FindIncident, ReselectIncident, Keeps, SameCopy, Others
    <2> QED
      BY <1>2, <2>1, <2>2 DEF FindIncident, ReselectIncident
  <1>3. CASE InsertIncident(d) \/ InsertBucket(d)
    BY <1>3, InsertIncidentShape, InsertBucketShape DEF InsertIncident, InsertBucket
  <1>4. CASE SaveNormalized(d) \/ SelectBucket(d) \/ CommitFails(d) \/ DatabaseError(d)
    BY <1>4, GotoIs
    DEF SaveNormalized, SelectBucket, CommitFails, DatabaseError, Keeps, SameCopy,
        Others, Recording
  <1>5. CASE Decide(d) \/ Deliver(d) \/ Enrich(d)
    BY <1>5, DecideShape, DeliverShape, EnrichShape DEF Decide, Deliver, Enrich
  <1>6. CASE ReleaseLock(d) \/ EnrichmentLost(d) \/ RetryOrDrop(d)
    BY <1>6, SessionIs, GotoIs
    DEF ReleaseLock, EnrichmentLost, RetryOrDrop, Finish, Leaves, Others, Idle
  <1> QED
    BY <1>1, <1>2, <1>3, <1>4, <1>5, <1>6 DEF TaskStep

\* A crash and a redelivery take the session away too.
LEMMA CrashShape ==
  ASSUME TypeOK, PipelineInv, NEW d \in Tasks, Crash(d) \/ Redeliver(d)
  PROVE  inc' = inc /\ band' = band /\ Leaves(d) /\ Others(d)
  <1>1. CASE Crash(d)
    BY <1>1, SessionIs, GotoIs DEF Crash, Leaves, Others, Idle, database
  <1>2. CASE Redeliver(d)
    <2>1. sess[d] = NoSession(d)
      BY <1>2 DEF Redeliver, PipelineInv, SessionInv, Idle
    <2> QED
      BY <1>2, <2>1, GotoIs DEF Redeliver, Leaves, Others, Idle, database
  <1> QED
    BY <1>1, <1>2

\* After a commit the copy is the new base, unless the task has ended.
Settles(d) ==
  LET s == sess[d]
      t == sess'[d]
  IN  /\ s.outcome # "quiet"
      /\ pc'[d] \in {"release", "enrich"}
      /\ pc'[d] = "enrich" <=> s.outcome = "delivered"
      /\ t.row = s.row /\ t.base = s.mem /\ t.mem = s.mem
      /\ ~t.fresh /\ t.ghost = s.ghost

Writes(d) ==
  LET r == sess[d].row IN
  /\ r \in Events
  /\ sess[d].ghost => inc' = inc
  /\ ~sess[d].ghost => /\ inc' = [inc EXCEPT ![r] = RowToWrite(d)]
                       /\ inc'[r] = RowToWrite(d)
                       /\ \A q \in Events \ {r} : inc'[q] = inc[q]

LEMMA CommitShape ==
  ASSUME TypeOK, NEW d \in Tasks, Commit(d)
  PROVE  /\ pc[d] = "commit" /\ Writes(d) /\ Others(d) /\ band' = band
         /\ (Leaves(d) /\ sess[d].outcome = "quiet") \/ Settles(d)
  <1> DEFINE s == sess[d]
             t == [s EXCEPT !.base = s.mem, !.fresh = FALSE, !.rawRow = "none"]
             x == RowToWrite(d)
  <1>1. s \in Sessions /\ s.row \in Events /\ pc[d] = "commit" /\ band' = band
    BY DEF Commit, TypeOK, Sessions
  <1>2. /\ t.row = s.row /\ t.mem = s.mem /\ t.base = s.mem /\ t.fresh = FALSE
        /\ t.ghost = s.ghost
    BY <1>1 DEF Sessions
  <1> HIDE DEF t
  <1>3. Writes(d)
    <2>1. s.ghost => inc' = inc
      BY DEF Commit, WriteRow
    <2>2. ~s.ghost => inc' = [inc EXCEPT ![s.row] = x]
      BY DEF Commit, WriteRow
    <2> HIDE DEF x
    <2>3. ~s.ghost => inc'[s.row] = x /\ \A q \in Events \ {s.row} : inc'[q] = inc[q]
      BY <1>1, <2>2 DEF TypeOK
    <2> QED
      BY <1>1, <2>1, <2>2, <2>3 DEF Writes, x
  <1>4. Others(d)
    BY SessionIs, GotoIs DEF Commit, Finish, Others
  <1>5. CASE s.outcome = "quiet" /\ Finish(d)
    BY <1>1, <1>3, <1>4, <1>5, SessionIs, GotoIs DEF Finish, Leaves, Idle
  <1>6. CASE /\ s.outcome # "quiet" /\ Session(d, t)
             /\ Goto(d, AfterOutcome(s.outcome))
    <2>1. sess'[d] = t /\ pc'[d] = AfterOutcome(s.outcome)
      BY <1>6, SessionIs, GotoIs
    <2> QED
      BY <1>1, <1>2, <1>3, <1>4, <1>6, <2>1 DEF Settles, AfterOutcome
  <1> QED
    BY <1>5, <1>6 DEF Commit, t

LEMMA CommitEnrichmentShape ==
  ASSUME TypeOK, NEW d \in Tasks, CommitEnrichment(d)
  PROVE  pc[d] = "commit_enrich" /\ Writes(d) /\ Others(d) /\ band' = band /\ Leaves(d)
  <1> DEFINE s == sess[d]
             x == RowToWrite(d)
  <1>1. s.row \in Events /\ pc[d] = "commit_enrich" /\ band' = band
    BY DEF CommitEnrichment, TypeOK, Sessions
  <1>2. Leaves(d) /\ Others(d)
    BY SessionIs, GotoIs DEF CommitEnrichment, Finish, Leaves, Others, Idle
  <1>3. s.ghost => inc' = inc
    BY DEF CommitEnrichment, WriteRow
  <1>4. ~s.ghost => inc' = [inc EXCEPT ![s.row] = x]
    BY DEF CommitEnrichment, WriteRow
  <1> HIDE DEF x
  <1>5. ~s.ghost => inc'[s.row] = x /\ \A q \in Events \ {s.row} : inc'[q] = inc[q]
    BY <1>1, <1>4 DEF TypeOK
  <1> QED
    BY <1>1, <1>2, <1>3, <1>4, <1>5 DEF Writes, x

(***************************************************************************)
(* One open incident for each fingerprint.  The partial unique index sees  *)
(* committed rows; what keeps it from being violated is that at most one   *)
(* uncommitted INSERT of a fingerprint exists, and only while no open row  *)
(* of it does.                                                             *)
(***************************************************************************)
OpenInv ==
  /\ OneOpenIncident
  /\ \A c, d \in Tasks : sess[c].fresh /\ sess[d].fresh /\ Fp(c) = Fp(d) => c = d
  /\ \A d \in Tasks : sess[d].fresh => OpenRows(Fp(d)) = {}

\* A step that opens no row and inserts none.
LEMMA OpenKept ==
  ASSUME OpenInv,
         \A q \in Events : /\ inc'[q].fp = inc[q].fp
                           /\ IsOpen(inc'[q]) => IsOpen(inc[q]),
         \A c \in Tasks : sess'[c].fresh => sess[c].fresh
  PROVE  OpenInv'
  <1>1. OneOpenIncident'
    BY DEF OpenInv, OneOpenIncident
  <1>2. \A f : OpenRows(f)' \subseteq OpenRows(f)
    BY DEF OpenRows
  <1> QED
    BY <1>1, <1>2 DEF OpenInv, Fp

LEMMA ShapeOpen ==
  ASSUME TypeOK, OpenInv, NEW d \in Tasks, inc' = inc, Shape(d), Others(d)
  PROVE  OpenInv'
  <1>1. ASSUME sess'[d].fresh => sess[d].fresh
        PROVE  OpenInv'
    BY <1>1, OpenKept DEF Others
  <1>2. CASE Creates(d)
    <2>1. \A f : OpenRows(f)' = OpenRows(f)
      BY DEF OpenRows
    <2>2. \A c \in Tasks \ {d} : sess'[c].fresh => sess[c].fresh /\ Fp(c) # Fp(d)
      BY <1>2 DEF Creates, InsertingIncident, Others
    <2>3. OneOpenIncident'
      BY DEF OpenInv, OneOpenIncident
    <2> QED
      BY <1>2, <2>1, <2>2, <2>3 DEF OpenInv, Creates, Fp
  <1>3. CASE Leaves(d)
    BY <1>1, <1>3 DEF Leaves, NoSession
  <1> QED
    BY <1>1, <1>2, <1>3
    DEF Shape, Keeps, SameCopy, Loads, Haunts, Decides, Delivers, Enriches, Marks

\* A row that a commit opens had no rival: neither an open row nor another
\* uncommitted one.
LEMMA RowOpens ==
  ASSUME TypeOK, WinInv, OpenInv, NEW d \in Tasks, Others(d), Writes(d), ~sess[d].ghost,
         RowToWrite(d).fp = FingerprintOf[sess[d].row],
         OpenRows(Fp(d)) = {}, ~InsertingIncident(Fp(d), d), ~sess'[d].fresh
  PROVE  OpenInv'
  <1> DEFINE r == sess[d].row
  <1>1. FingerprintOf[r] = Fp(d) /\ r \in Events /\ inc[r].fp = FingerprintOf[r]
    BY DEF WinInv, SessionWin, RowWin, Writes
  <1>2. /\ inc'[r].fp = Fp(d)
        /\ \A q \in Events \ {r} : inc'[q] = inc[q]
    BY <1>1 DEF Writes
  <1>3. \A q \in Events : IsOpen(inc'[q]) /\ inc'[q].fp = Fp(d) => q = r
    BY <1>2 DEF OpenRows
  <1>4. OneOpenIncident'
    BY <1>1, <1>2, <1>3 DEF OneOpenIncident, OpenInv
  <1>5. \A c \in Tasks : sess'[c].fresh => sess[c].fresh /\ Fp(c) # Fp(d)
    BY DEF Others, InsertingIncident
  <1>6. \A f : f # Fp(d) => OpenRows(f)' \subseteq OpenRows(f)
    BY <1>1, <1>2 DEF OpenRows
  <1> QED
    BY <1>4, <1>5, <1>6 DEF OpenInv, Fp

LEMMA CommitOpen ==
  ASSUME TypeOK, PipelineInv, WinInv, OpenInv, NEW d \in Tasks,
         Commit(d) \/ CommitEnrichment(d)
  PROVE  OpenInv'
  <1> DEFINE r == sess[d].row
             x == RowToWrite(d)
  <1>1. /\ pc[d] \in {"commit", "commit_enrich"} /\ Writes(d) /\ Others(d)
        /\ Leaves(d) \/ Settles(d)
    BY CommitShape, CommitEnrichmentShape
  <1>2. ~sess'[d].fresh
    BY <1>1 DEF Leaves, Settles, NoSession
  <1>3. CASE sess[d].ghost
    BY <1>1, <1>2, <1>3, OpenKept DEF Writes, Others
  <1>4. CASE ~sess[d].ghost
    <2>1. x.fp = FingerprintOf[r] /\ inc[r].fp = FingerprintOf[r] /\ r \in Events
      BY <1>1, <1>4, RowToWriteWin DEF Writes, WinInv, RowWin
    <2>2. CASE IsOpen(x) => IsOpen(inc[r])
      <3>1. \A q \in Events : /\ inc'[q].fp = inc[q].fp
                              /\ IsOpen(inc'[q]) => IsOpen(inc[q])
        BY <1>1, <1>4, <2>1, <2>2 DEF Writes
      <3> QED
        BY <1>1, <1>2, <3>1, OpenKept DEF Others
    <2>3. CASE IsOpen(x) /\ ~IsOpen(inc[r])
      <3>1. OpenRows(Fp(d)) = {} /\ ~InsertingIncident(Fp(d), d)
        <4>1. CASE sess[d].fresh
          BY <4>1 DEF OpenInv, InsertingIncident
        <4>2. CASE ~sess[d].fresh
          <5>1. Reopens(d)
            BY <1>4, <2>3, <4>2 DEF Reopens
          <5>2. ~(pc[d] = "commit_enrich" /\ sess[d].mem = sess[d].base)
            <6>1. sess[d].mem = sess[d].base => x.status = inc[r].status
              BY <4>2 DEF RowToWrite, Flushed, Column
            <6> QED
              BY <2>3, <6>1 DEF IsOpen
          <5>3. ~IndexConflict(d) /\ ~IndexWait(d)
            BY <1>1, <1>4, <5>2 DEF Commit, CommitEnrichment
          <5> QED
            BY <5>1, <5>3 DEF IndexConflict, IndexWait
        <4> QED
          BY <4>1, <4>2
      <3> HIDE DEF x
      <3> QED
        BY <1>1, <1>2, <1>4, <2>1, <3>1, RowOpens DEF x
    <2> QED
      BY <2>2, <2>3
  <1> QED
    BY <1>3, <1>4

LEMMA EnvironmentOpen ==
  ASSUME TypeOK, PipelineInv, OpenInv, Environment
  PROVE  OpenInv'
  <1>1. ASSUME NEW d \in Tasks, Crash(d) \/ Redeliver(d)
        PROVE  OpenInv'
    BY <1>1, CrashShape, ShapeOpen DEF Shape
  <1>2. ASSUME (\E f \in Fingerprints : LockExpires(f)) \/ RedisFlips
        PROVE  OpenInv'
    BY <1>2, OpenKept DEF LockExpires, RedisFlips, database
  <1>3. ASSUME NEW r \in Events, OperatorCloses(r) \/ MatcherMatches(r)
        PROVE  OpenInv'
    <2>1. sess' = sess /\ IsOpen(inc[r])
      BY <1>3 DEF OperatorCloses, MatcherMatches
    <2>2. PICK st : inc' = [inc EXCEPT ![r].status = st]
      BY <1>3 DEF OperatorCloses, MatcherMatches
    <2>3. \A q \in Events : inc'[q].fp = inc[q].fp /\ (q # r => inc'[q] = inc[q])
      BY <2>2 DEF TypeOK, Incidents
    <2> QED
      BY <2>1, <2>3, OpenKept
  <1> QED
    BY <1>1, <1>2, <1>3 DEF Environment

LEMMA OpenInvariance == Spec => []OpenInv
  <1>1. Init => OpenInv
    <2> SUFFICES ASSUME Init PROVE OpenInv
      OBVIOUS
    <2>1. \A e \in Events : ~IsOpen(inc[e])
      BY DEF Init, NoIncident, NewIncident, IsOpen, LiveStatuses
    <2>2. \A d \in Tasks : ~sess[d].fresh
      BY DEF Init, NoSession
    <2> QED
      BY <2>1, <2>2 DEF OpenInv, OneOpenIncident
  <1>2. TypeOK /\ PipelineInv /\ WinInv /\ OpenInv /\ [Next]_vars => OpenInv'
    <2> SUFFICES ASSUME TypeOK, PipelineInv, WinInv, OpenInv, [Next]_vars
                 PROVE  OpenInv'
      OBVIOUS
    <2>1. CASE UNCHANGED vars
      BY <2>1, OpenKept DEF vars
    <2>2. ASSUME NEW d \in Tasks, TaskStep(d)
          PROVE  OpenInv'
      BY <2>2, StepShape, ShapeOpen, CommitOpen
    <2> QED
      BY <2>1, <2>2, EnvironmentOpen DEF Next
  <1> QED
    BY <1>1, <1>2, WinInvariance, PTL DEF Spec

\* At most one open row per fingerprint, across creation races, recurrences and
\* closed rows that a stale copy writes open again, under any faults.
THEOREM OneOpen == Spec => []OneOpenIncident
  <1>1. OpenInv => OneOpenIncident
    BY DEF OpenInv
  <1> QED
    BY <1>1, OpenInvariance, PTL

(***************************************************************************)
(* What the shapes make of the copy's columns.                             *)
(***************************************************************************)
LEMMA CopyTypes ==
  ASSUME TypeOK, NEW d \in Tasks
  PROVE  /\ sess[d] \in Sessions /\ sess[d].row \in Events
         /\ sess[d].mem \in Incidents /\ sess[d].base \in Incidents
         /\ Fp(d) \in Fingerprints /\ EventOf[d] \in Events
         /\ \A q \in Events : inc[q] \in Incidents
  BY PipelineAssumption DEF TypeOK, Sessions, Fp

LEMMA LeftCopy ==
  ASSUME TypeOK, NEW d \in Tasks, Leaves(d)
  PROVE  LET t == sess'[d] IN
         /\ t.base.notif = "pending" /\ t.mem.status = "absent" /\ ~t.fresh
         /\ pc'[d] \notin Recording \cup Deciding \cup Committed
  <1>1. /\ sess'[d].base = NoIncident(Fp(d)) /\ sess'[d].mem = NoIncident(Fp(d))
        /\ ~sess'[d].fresh
    BY DEF Leaves, NoSession
  <1> QED
    BY <1>1, CopyTypes, FreshStatus DEF Leaves, Idle, Recording, Deciding, Committed

LEMMA CreatedCopy ==
  ASSUME TypeOK, NEW d \in Tasks, Creates(d)
  PROVE  LET t == sess'[d] IN
         /\ t.base.notif = "pending" /\ t.base.ts = NoTask
         /\ t.mem.notif = "pending" /\ t.mem.ts = NoTask /\ t.mem.status = "new"
  <1>1. /\ sess'[d].base = NoIncident(Fp(d)) /\ sess'[d].mem = NewIncident(Fp(d))
        /\ Fp(d) \in Fingerprints
    BY CopyTypes DEF Creates
  <1> QED
    BY <1>1, FreshStatus, FreshRows

LEMMA LoadedCopy ==
  ASSUME TypeOK, NEW d \in Tasks, Loads(d)
  PROVE  LET t == sess'[d] IN
         /\ t.row \in Events /\ t.base = inc[t.row] /\ IsOpen(inc[t.row])
         /\ inc[t.row].fp = Fp(d)
         /\ t.mem.notif = inc[t.row].notif /\ t.mem.ts = inc[t.row].ts
         /\ t.mem.status = inc[t.row].status
  BY CopyTypes, AbsorbStatus, AbsorbKeeps DEF Loads, OpenRows

LEMMA DecidedCopy ==
  ASSUME TypeOK, NEW d \in Tasks, Decides(d)
  PROVE  LET m == sess[d].mem
             n == sess'[d].mem
         IN  n.notif = m.notif /\ n.ts = m.ts /\ n.status \in {m.status, "observing"}
  <1> DEFINE medium == band[EventOf[d]] = "loud"
  <1>1. medium \in BOOLEAN /\ sess[d].mem \in Incidents
    BY CopyTypes
  <1>2. sess'[d].mem = UpdateScore(sess[d].mem, medium)
    BY DEF Decides, Marks
  <1> HIDE DEF medium
  <1> QED
    BY <1>1, <1>2, UpdateScoreStatus, UpdateScoreKeeps

LEMMA DeliveredCopy ==
  ASSUME TypeOK, NEW d \in Tasks, Delivers(d)
  PROVE  LET m == sess[d].mem
             n == sess'[d].mem
         IN  \/ /\ sess'[d].outcome = "delivered"
                /\ n.notif = "delivered" /\ n.ts = d
                /\ n.status \in {m.status, "detected", "alerted"}
             \/ /\ sess'[d].outcome = "failed"
                /\ n.notif = "failed" /\ n.ts = m.ts
                /\ n.status \in {m.status, "detected", "notification_failed"}
  <1> DEFINE m == sess[d].mem
             t == MarkDetected(m)
  <1>1. m \in Incidents
    BY CopyTypes
  <1>2. t \in Incidents /\ t.ts = m.ts /\ t.status \in {m.status, "detected"}
    BY <1>1, MarkDetectedKeeps, MarkDetectedStatus
  <1> HIDE DEF t
  <1>3. /\ MarkDelivered(t, d).notif = "delivered" /\ MarkDelivered(t, d).ts = d
        /\ MarkDelivered(t, d).status \in {t.status, "alerted"}
    BY <1>2, MarkDeliveredStatus, MarkDeliveredSets
  <1>4. /\ MarkFailed(t).notif = "failed" /\ MarkFailed(t).ts = t.ts
        /\ MarkFailed(t).status \in {t.status, "notification_failed"}
    BY <1>2, MarkFailedStatus, MarkFailedKeeps
  <1> QED
    BY <1>2, <1>3, <1>4 DEF Delivers, Marks, t

LEMMA EnrichedCopy ==
  ASSUME TypeOK, NEW d \in Tasks, Enriches(d)
  PROVE  LET m == sess[d].mem
             n == sess'[d].mem
         IN  n.notif = m.notif /\ n.ts = m.ts /\ n.status \in {m.status, "enriched"}
  BY CopyTypes, MarkEnrichedStatus, MarkEnrichedSets DEF Enriches, Marks

\* What a commit makes of the three columns.
LEMMA WrittenColumns ==
  ASSUME NEW d \in Tasks
  PROVE  LET s == sess[d]
             x == RowToWrite(d)
         IN  /\ s.fresh => x = s.mem
             /\ ~s.fresh =>
                  /\ x.ts = IF s.mem.ts = s.base.ts THEN inc[s.row].ts ELSE s.mem.ts
                  /\ x.notif = IF s.mem.notif = s.base.notif
                               THEN inc[s.row].notif ELSE s.mem.notif
                  /\ x.status = IF s.mem.status = s.base.status
                                THEN inc[s.row].status ELSE s.mem.status
  BY DEF RowToWrite, Flushed, Column

(***************************************************************************)
(* An alerted status comes with a timestamp, so the worker's test for an   *)
(* alerted incident means a recorded win.                                  *)
(***************************************************************************)
AlertedInv ==
  /\ \A r \in Events : inc[r].status \in AlertedStatuses => inc[r].ts # NoTask
  /\ \A d \in Tasks : sess[d].mem.status \in AlertedStatuses => sess[d].mem.ts # NoTask

LEMMA ShapeAlerted ==
  ASSUME TypeOK, WinInv, AlertedInv, NEW d \in Tasks, inc' = inc, Shape(d), Others(d)
  PROVE  AlertedInv'
  <1> DEFINE m == sess[d].mem
             n == sess'[d].mem
  <1>1. m.status \in AlertedStatuses => m.ts # NoTask
    BY DEF AlertedInv
  <1>2. n.status \in AlertedStatuses => n.ts # NoTask
    <2>1. CASE Leaves(d)
      BY <2>1, LeftCopy DEF AlertedStatuses
    <2>2. CASE Keeps(d) \/ Haunts(d)
      BY <1>1, <2>2 DEF Keeps, SameCopy, Haunts
    <2>3. CASE Loads(d)
      BY <2>3, LoadedCopy DEF AlertedInv
    <2>4. CASE Creates(d)
      BY <2>4, CreatedCopy DEF AlertedStatuses
    <2>5. CASE Decides(d)
      BY <1>1, <2>5, DecidedCopy DEF AlertedStatuses
    <2>6. CASE Delivers(d)
      BY <1>1, <2>6, DeliveredCopy, NoTaskAssumption DEF AlertedStatuses
    <2>7. CASE Enriches(d)
      <3>1. m.ts # NoTask
        BY <2>7 DEF Enriches, WinInv, SessionWin, Committed
      <3> QED
        BY <2>7, <3>1, EnrichedCopy
    <2> QED
      BY <2>1, <2>2, <2>3, <2>4, <2>5, <2>6, <2>7 DEF Shape
  <1> QED
    BY <1>2 DEF AlertedInv, Others

LEMMA CommitAlerted ==
  ASSUME TypeOK, PipelineInv, WinInv, AlertedInv, NEW d \in Tasks,
         Commit(d) \/ CommitEnrichment(d)
  PROVE  AlertedInv'
  <1> DEFINE r == sess[d].row
             x == RowToWrite(d)
  <1>1. /\ pc[d] \in {"commit", "commit_enrich"} /\ Writes(d) /\ Others(d)
        /\ Leaves(d) \/ Settles(d)
    BY CommitShape, CommitEnrichmentShape
  <1>2. \A c \in Tasks : sess'[c].mem.status \in AlertedStatuses => sess'[c].mem.ts # NoTask
    BY <1>1, LeftCopy DEF Settles, Others, AlertedInv, AlertedStatuses
  <1>3. CASE sess[d].ghost
    BY <1>1, <1>2, <1>3 DEF Writes, AlertedInv
  <1>4. CASE ~sess[d].ghost
    <2>1. inc[r].ts # NoTask \/ sess[d].mem.ts # NoTask => x.ts # NoTask
      BY <1>1, <1>4, RowToWriteWin
    <2>2. x.status = sess[d].mem.status \/ x.status = inc[r].status
      BY WrittenColumns
    <2>3. x.status \in AlertedStatuses => x.ts # NoTask
      BY <1>1, <2>1, <2>2 DEF AlertedInv, Writes
    <2> QED
      BY <1>1, <1>2, <1>4, <2>3 DEF Writes, AlertedInv
  <1> QED
    BY <1>3, <1>4

LEMMA EnvironmentAlerted ==
  ASSUME TypeOK, PipelineInv, WinInv, AlertedInv, Environment
  PROVE  AlertedInv'
  <1>1. ASSUME NEW d \in Tasks, Crash(d) \/ Redeliver(d)
        PROVE  AlertedInv'
    BY <1>1, CrashShape, ShapeAlerted DEF Shape
  <1>2. ASSUME (\E f \in Fingerprints : LockExpires(f)) \/ RedisFlips
        PROVE  AlertedInv'
    BY <1>2 DEF AlertedInv, LockExpires, RedisFlips, database
  <1>3. ASSUME NEW r \in Events, OperatorCloses(r) \/ MatcherMatches(r)
        PROVE  AlertedInv'
    <2>1. sess' = sess
      BY <1>3 DEF OperatorCloses, MatcherMatches
    <2>2. PICK st : /\ inc' = [inc EXCEPT ![r].status = st]
                    /\ st \in AlertedStatuses => inc[r].ts # NoTask
      BY <1>3 DEF OperatorCloses, MatcherMatches, AlertedStatuses, ClosedStatuses
    <2>3. /\ inc[r] \in Incidents
          /\ \A q \in Events : q # r => inc'[q] = inc[q]
          /\ inc'[r] = [inc[r] EXCEPT !.status = st]
      BY <2>2 DEF TypeOK
    <2>4. inc'[r].status = st /\ inc'[r].ts = inc[r].ts
      BY <2>3 DEF Incidents
    <2> QED
      BY <2>1, <2>2, <2>3, <2>4 DEF AlertedInv
  <1> QED
    BY <1>1, <1>2, <1>3 DEF Environment

LEMMA AlertedInvariance == Spec => []AlertedInv
  <1>1. Init => AlertedInv
    <2> SUFFICES ASSUME Init PROVE AlertedInv
      OBVIOUS
    <2>1. \A f \in Fingerprints : NoIncident(f).status \notin AlertedStatuses
      BY FreshStatus DEF AlertedStatuses
    <2>2. \A e \in Events : inc[e] = NoIncident(FingerprintOf[e])
      BY DEF Init
    <2>3. \A d \in Tasks : sess[d].mem = NoIncident(Fp(d))
      BY DEF Init, NoSession
    <2> QED
      BY <2>1, <2>2, <2>3, PipelineAssumption DEF AlertedInv, Fp
  <1>2. TypeOK /\ PipelineInv /\ WinInv /\ AlertedInv /\ [Next]_vars => AlertedInv'
    <2> SUFFICES ASSUME TypeOK, PipelineInv, WinInv, AlertedInv, [Next]_vars
                 PROVE  AlertedInv'
      OBVIOUS
    <2>1. CASE UNCHANGED vars
      BY <2>1 DEF vars, AlertedInv
    <2>2. ASSUME NEW d \in Tasks, TaskStep(d)
          PROVE  AlertedInv'
      BY <2>2, StepShape, ShapeAlerted, CommitAlerted
    <2> QED
      BY <2>1, <2>2, EnvironmentAlerted DEF Next
  <1> QED
    BY <1>1, <1>2, WinInvariance, PTL DEF Spec

(***************************************************************************)
(* A delivered incident stays delivered.  The notification and the         *)
(* timestamp are two columns, written by whoever changed his copy of them: *)
(* that they agree rests on the alert lock, under which nobody holds a     *)
(* copy from before another task's delivery and goes on to fail.           *)
(***************************************************************************)
RowNotif(r) == inc[r].notif = "delivered" <=> inc[r].ts # NoTask

SessionNotif(d) ==
  LET s == sess[d] IN
  /\ pc[d] \in Recording \cup Deciding =>
       (s.base.notif = "delivered" <=> s.base.ts # NoTask)
  /\ pc[d] \in Recording \cup {"decide", "deliver"} \cup Committed =>
       s.mem.notif = s.base.notif
  /\ pc[d] = "commit" => \/ s.outcome = "quiet" /\ s.mem.notif = s.base.notif
                         \/ s.outcome = "failed" /\ s.mem.notif = "failed"
                         \/ s.outcome = "delivered" /\ s.mem.notif = "delivered"
  /\ ~s.ghost /\ s.base.notif # "pending" => inc[s.row].notif # "pending"

NotifInv == (\A r \in Events : RowNotif(r)) /\ (\A d \in Tasks : SessionNotif(d))

LEMMA NotifLocal ==
  ASSUME TypeOK, NotifInv, NEW d \in Tasks, Others(d),
         \A q \in Events : RowNotif(q)',
         \A q \in Events : inc[q].notif # "pending" => inc'[q].notif # "pending",
         SessionNotif(d)'
  PROVE  NotifInv'
  <1>1. ASSUME NEW o \in Tasks \ {d}
        PROVE  SessionNotif(o)'
    <2>1. SessionNotif(o) /\ sess[o].row \in Events
      BY CopyTypes DEF NotifInv
    <2>2. sess'[o] = sess[o] /\ pc'[o] = pc[o]
      BY DEF Others
    <2> QED
      BY <2>1, <2>2 DEF SessionNotif
  <1> QED
    BY <1>1 DEF NotifInv

LEMMA ShapeNotif ==
  ASSUME TypeOK, NotifInv, NEW d \in Tasks, inc' = inc, Shape(d), Others(d)
  PROVE  NotifInv'
  <1> DEFINE s == sess[d]
             t == sess'[d]
  <1>1. SessionNotif(d)
    BY DEF NotifInv
  <1>2. SessionNotif(d)'
    <2>1. CASE Leaves(d)
      BY <2>1, LeftCopy DEF SessionNotif, Recording, Deciding, Committed
    <2>2. CASE Keeps(d)
      BY <1>1, <2>2 DEF Keeps, SameCopy, SessionNotif, Recording, Deciding, Committed
    <2>3. CASE Loads(d)
      <3>1. pc'[d] = "save"
        BY <2>3 DEF Loads
      <3> QED
        BY <2>3, <3>1, LoadedCopy
        DEF NotifInv, RowNotif, SessionNotif, Recording, Deciding, Committed
    <2>4. CASE Creates(d)
      <3>1. pc'[d] = "save"
        BY <2>4 DEF Creates
      <3> QED
        BY <2>4, <3>1, CreatedCopy
        DEF SessionNotif, Recording, Deciding, Committed
    <2>5. CASE Haunts(d)
      BY <1>1, <2>5 DEF Haunts, SessionNotif, Recording, Deciding, Committed
    <2>6. CASE Decides(d)
      BY <1>1, <2>6, DecidedCopy
      DEF Decides, Marks, SessionNotif, Recording, Deciding, Committed
    <2>7. CASE Delivers(d)
      BY <1>1, <2>7, DeliveredCopy
      DEF Delivers, Marks, SessionNotif, Recording, Deciding, Committed
    <2>8. CASE Enriches(d)
      BY <1>1, <2>8, EnrichedCopy
      DEF Enriches, Marks, SessionNotif, Recording, Deciding, Committed
    <2> QED
      BY <2>1, <2>2, <2>3, <2>4, <2>5, <2>6, <2>7, <2>8 DEF Shape
  <1>3. \A q \in Events : RowNotif(q)'
    BY DEF NotifInv, RowNotif
  <1> QED
    BY <1>2, <1>3, NotifLocal

\* What a commit makes of a row whose two columns agree: they agree again, and
\* an outcome, once recorded, stays recorded.
LEMMA RowToWriteNotif ==
  ASSUME TypeOK, PipelineInv, WinInv, LockInv, NotifInv, NEW d \in Tasks,
         pc[d] \in {"commit", "commit_enrich"}, ~sess[d].ghost
  PROVE  LET r == sess[d].row
             x == RowToWrite(d)
         IN  /\ x.notif = "delivered" <=> x.ts # NoTask
             /\ inc[r].notif # "pending" => x.notif # "pending"
             /\ sess[d].mem.notif # "pending" => x.notif # "pending"
  <1> DEFINE s == sess[d]
             r == s.row
             x == RowToWrite(d)
  <1>1. /\ SessionWin(d) /\ SessionInv(d) /\ SessionLock(d) /\ SessionNotif(d)
        /\ RowNotif(r) /\ RecordInv(r) /\ r \in Events
    BY CopyTypes DEF WinInv, PipelineInv, LockInv, NotifInv
  <1>2. CASE pc[d] = "commit_enrich"
    <2>1. /\ ~s.fresh /\ s.mem.notif = s.base.notif /\ s.mem.ts = s.base.ts
      BY <1>1, <1>2 DEF SessionInv, SessionNotif, SessionWin, Committed
    <2>2. x.notif = inc[r].notif /\ x.ts = inc[r].ts
      BY <2>1, WrittenColumns
    <2> QED
      BY <1>1, <2>1, <2>2 DEF RowNotif, SessionNotif
  <1>3. CASE pc[d] = "commit"
    <2>1. /\ s.base.notif = "delivered" <=> s.base.ts # NoTask
          /\ s.base.ts # NoTask => inc[r].ts # NoTask
          /\ s.mem.ts # s.base.ts => s.outcome = "delivered"
          /\ s.outcome = "delivered" => s.mem.ts # NoTask
          /\ s.outcome # "quiet" => inc[r].ts = NoTask
          /\ \/ s.outcome = "quiet" /\ s.mem.notif = s.base.notif
             \/ s.outcome = "failed" /\ s.mem.notif = "failed"
             \/ s.outcome = "delivered" /\ s.mem.notif = "delivered"
      BY <1>1, <1>3
      DEF SessionWin, SessionLock, SessionNotif, Holding, Deciding
    <2>2. CASE s.fresh
      <3>1. inc[r] = NoIncident(FingerprintOf[r]) /\ FingerprintOf[r] \in Fingerprints
        BY <1>1, <2>2, PipelineAssumption DEF SessionInv, RecordInv
      <3>2. inc[r].ts = NoTask /\ inc[r].notif = "pending"
        BY <3>1, FreshRows, FreshStatus
      <3>3. x = s.mem
        BY <2>2, WrittenColumns
      <3> QED
        BY <1>1, <2>1, <3>2, <3>3 DEF SessionNotif
    <2>3. CASE ~s.fresh
      <3>1. /\ x.ts = IF s.mem.ts = s.base.ts THEN inc[r].ts ELSE s.mem.ts
            /\ x.notif = IF s.mem.notif = s.base.notif THEN inc[r].notif ELSE s.mem.notif
        BY <2>3, WrittenColumns
      <3>2. /\ inc[r].notif = "delivered" <=> inc[r].ts # NoTask
            /\ s.base.notif # "pending" => inc[r].notif # "pending"
        BY <1>1 DEF RowNotif, SessionNotif
      <3>3. CASE s.outcome = "quiet"
        BY <2>1, <3>1, <3>2, <3>3
      <3>4. CASE s.outcome = "failed"
        BY <2>1, <3>1, <3>2, <3>4
      <3>5. CASE s.outcome = "delivered"
        BY <2>1, <3>1, <3>2, <3>5
      <3> QED
        BY <2>1, <3>3, <3>4, <3>5
    <2> QED
      BY <2>2, <2>3
  <1> QED
    BY <1>2, <1>3

LEMMA CommitNotif ==
  ASSUME TypeOK, PipelineInv, WinInv, LockInv, NotifInv, NEW d \in Tasks,
         Commit(d) \/ CommitEnrichment(d)
  PROVE  NotifInv'
  <1> DEFINE s == sess[d]
             r == s.row
             x == RowToWrite(d)
  <1>1. /\ pc[d] \in {"commit", "commit_enrich"} /\ Writes(d) /\ Others(d)
        /\ Leaves(d) \/ Settles(d)
    BY CommitShape, CommitEnrichmentShape
  <1>2. ~s.ghost => /\ x.notif = "delivered" <=> x.ts # NoTask
                    /\ inc[r].notif # "pending" => x.notif # "pending"
                    /\ s.mem.notif # "pending" => x.notif # "pending"
    BY <1>1, RowToWriteNotif
  <1> HIDE DEF x
  <1>3. /\ \A q \in Events : RowNotif(q)'
        /\ \A q \in Events : inc[q].notif # "pending" => inc'[q].notif # "pending"
        /\ ~s.ghost /\ s.mem.notif # "pending" => inc'[r].notif # "pending"
    BY <1>1, <1>2 DEF Writes, NotifInv, RowNotif, x
  <1>4. SessionNotif(d)'
    <2>1. CASE Leaves(d)
      BY <2>1, LeftCopy DEF SessionNotif, Recording, Deciding, Committed
    <2>2. CASE Settles(d)
      BY <1>3, <2>2 DEF Settles, SessionNotif, Recording, Deciding, Committed
    <2> QED
      BY <1>1, <2>1, <2>2
  <1> QED
    BY <1>1, <1>3, <1>4, NotifLocal

\* The environment's writes touch the status only.
LEMMA StatusWritten ==
  ASSUME TypeOK, NEW r \in Events, OperatorCloses(r) \/ MatcherMatches(r)
  PROVE  /\ sess' = sess /\ pc' = pc /\ band' = band
         /\ \A q \in Events : /\ inc'[q].ts = inc[q].ts
                              /\ inc'[q].notif = inc[q].notif
                              /\ inc'[q].fp = inc[q].fp
  <1>1. PICK st : inc' = [inc EXCEPT ![r].status = st]
    BY DEF OperatorCloses, MatcherMatches
  <1>2. /\ inc[r] \in Incidents
        /\ \A q \in Events : q # r => inc'[q] = inc[q]
        /\ inc'[r] = [inc[r] EXCEPT !.status = st]
    BY <1>1 DEF TypeOK
  <1>3. /\ inc'[r].ts = inc[r].ts /\ inc'[r].notif = inc[r].notif
        /\ inc'[r].fp = inc[r].fp
    BY <1>2 DEF Incidents
  <1> QED
    BY <1>2, <1>3 DEF OperatorCloses, MatcherMatches

LEMMA EnvironmentNotif ==
  ASSUME TypeOK, PipelineInv, NotifInv, Environment
  PROVE  NotifInv'
  <1>1. ASSUME NEW d \in Tasks, Crash(d) \/ Redeliver(d)
        PROVE  NotifInv'
    BY <1>1, CrashShape, ShapeNotif DEF Shape
  <1>2. ASSUME (\E f \in Fingerprints : LockExpires(f)) \/ RedisFlips
        PROVE  NotifInv'
    BY <1>2 DEF NotifInv, RowNotif, SessionNotif, LockExpires, RedisFlips, database
  <1>3. ASSUME NEW r \in Events, OperatorCloses(r) \/ MatcherMatches(r)
        PROVE  NotifInv'
    BY <1>3, StatusWritten, CopyTypes DEF NotifInv, RowNotif, SessionNotif
  <1> QED
    BY <1>1, <1>2, <1>3 DEF Environment

LEMMA NotifInvariance ==
  ASSUME "redis" \notin Faults
  PROVE  Spec => []NotifInv
  <1>1. Init => NotifInv
    <2> SUFFICES ASSUME Init PROVE NotifInv
      OBVIOUS
    <2>1. \A e \in Events : inc[e].notif = "pending" /\ inc[e].ts = NoTask
      BY PipelineAssumption, FreshStatus, FreshRows DEF Init
    <2>2. \A d \in Tasks : /\ sess[d].base = NoIncident(Fp(d)) /\ pc[d] = "queued"
                           /\ Fp(d) \in Fingerprints
      BY PipelineAssumption DEF Init, NoSession, Fp
    <2>3. \A d \in Tasks : sess[d].base.notif = "pending"
      BY <2>2, FreshStatus
    <2> QED
      BY <2>1, <2>2, <2>3
      DEF NotifInv, RowNotif, SessionNotif, Recording, Deciding, Committed
  <1>2. /\ TypeOK /\ PipelineInv /\ WinInv /\ LockInv /\ NotifInv /\ [Next]_vars
        => NotifInv'
    <2> SUFFICES ASSUME TypeOK, PipelineInv, WinInv, LockInv, NotifInv, [Next]_vars
                 PROVE  NotifInv'
      OBVIOUS
    <2>1. CASE UNCHANGED vars
      BY <2>1 DEF vars, NotifInv, RowNotif, SessionNotif
    <2>2. ASSUME NEW d \in Tasks, TaskStep(d)
          PROVE  NotifInv'
      BY <2>2, StepShape, ShapeNotif, CommitNotif
    <2> QED
      BY <2>1, <2>2, EnvironmentNotif DEF Next
  <1> QED
    BY <1>1, <1>2, WinInvariance, LockInvariance, PTL DEF Spec

\* While Redis answers, a delivered incident is not turned into a failed one by
\* a concurrent task, whatever else fails.
THEOREM NeverFailed ==
  ASSUME "redis" \notin Faults
  PROVE  Spec => []DeliveredNeverFailed
  <1>1. NotifInv => DeliveredNeverFailed
    BY DEF NotifInv, RowNotif, DeliveredNeverFailed
  <1> QED
    BY <1>1, NotifInvariance, PTL

(***************************************************************************)
(* Which steps lead where, and which touch the alert lock, the confirmed   *)
(* alerts and the links.                                                   *)
(***************************************************************************)
LEMMA StepFrom ==
  ASSUME NEW d \in Tasks, TaskStep(d)
  PROVE  /\ pc[d] = "deliver" => Deliver(d)
         /\ pc[d] = "decide" => Decide(d) \/ DatabaseError(d)
         /\ pc[d] = "commit" => Commit(d) \/ CommitFails(d)
  BY DEF TaskStep, SelectRaw, InsertRaw, FindIncident, InsertIncident,
         ReselectIncident, SaveNormalized, SelectBucket, InsertBucket, Decide,
         Deliver, Commit, CommitFails, ReleaseLock, Enrich, CommitEnrichment,
         EnrichmentLost, DatabaseError, RetryOrDrop

LEMMA StepToBucket ==
  ASSUME TypeOK, NEW d \in Tasks, TaskStep(d)
  PROVE  /\ pc'[d] = "bucket" => EventOf[d] \in Measured
         /\ pc'[d] = "bucket_insert" => cell = "absent" /\ pc[d] = "bucket"
         /\ cell' = cell \/ cell' = "present"
  <1> USE DEF database
  <1>1. CASE SelectRaw(d) \/ InsertRaw(d) \/ FindIncident(d) \/ InsertIncident(d)
               \/ ReselectIncident(d)
    <2>1. \/ Goto(d, AfterSelectRaw(EventOf[d])) \/ Goto(d, "acked")
          \/ Goto(d, "find") \/ Goto(d, "insert") \/ Goto(d, "reselect")
          \/ Goto(d, "save") \/ Goto(d, "raise")
      BY <1>1
      DEF SelectRaw, InsertRaw, FindIncident, InsertIncident, ReselectIncident,
          AbsorbInto
    <2>3. AfterSelectRaw(EventOf[d]) \in {"insert_raw", "acked", "find"}
      BY DEF AfterSelectRaw
    <2>2. cell' = cell
      BY <1>1
      DEF SelectRaw, InsertRaw, FindIncident, InsertIncident, ReselectIncident
    <2> QED
      BY <2>1, <2>2, <2>3, GotoIs
  <1>2. CASE SaveNormalized(d) \/ SelectBucket(d) \/ InsertBucket(d)
    BY <1>2, GotoIs DEF SaveNormalized, SelectBucket, InsertBucket
  <1>3. CASE Decide(d) \/ Deliver(d) \/ Commit(d) \/ CommitFails(d) \/ ReleaseLock(d)
    BY <1>3, GotoIs
    DEF Decide, Deliver, Commit, CommitFails, ReleaseLock, AfterOutcome, Finish
  <1>4. CASE Enrich(d) \/ CommitEnrichment(d) \/ EnrichmentLost(d)
               \/ DatabaseError(d) \/ RetryOrDrop(d)
    BY <1>4, GotoIs
    DEF Enrich, CommitEnrichment, EnrichmentLost, DatabaseError, RetryOrDrop, Finish
  <1> QED
    BY <1>1, <1>2, <1>3, <1>4 DEF TaskStep

\* While Redis answers, the lock is taken free and given back by its holder.
LEMMA StepLocks ==
  ASSUME TypeOK, redisUp, NEW d \in Tasks, TaskStep(d)
  PROVE  \/ lock' = lock
         \/ /\ Decide(d) /\ pc'[d] = "deliver" /\ lock[Fp(d)] = NoTask
            /\ lock' = [lock EXCEPT ![Fp(d)] = d]
         \/ /\ Holding(d) /\ (CommitFails(d) \/ ReleaseLock(d))
            /\ lock' = [lock EXCEPT ![Fp(d)] = NoTask]
  <1> USE DEF redis
  <1>1. CASE Decide(d)
    <2>1. CASE UNCHANGED lock
      BY <2>1
    <2>2. CASE /\ CanAcquire(d) /\ Goto(d, "deliver")
               /\ lock' = IF redisUp THEN [lock EXCEPT ![Fp(d)] = d] ELSE lock
      <3>1. pc'[d] = "deliver"
        BY <2>2, GotoIs
      <3> QED
        BY <1>1, <2>2, <3>1 DEF CanAcquire
    <2> QED
      BY <1>1, <2>1, <2>2 DEF Decide
  <1>2. CASE CommitFails(d) \/ ReleaseLock(d)
    BY <1>2 DEF CommitFails, ReleaseLock, Unlocked, Holding
  <1> QED
    BY <1>1, <1>2
    DEF TaskStep, SelectRaw, InsertRaw, FindIncident, InsertIncident,
        ReselectIncident, SaveNormalized, SelectBucket, InsertBucket, Deliver,
        Commit, Enrich, CommitEnrichment, EnrichmentLost, DatabaseError, RetryOrDrop

LEMMA StepSent ==
  ASSUME TypeOK, NEW d \in Tasks, TaskStep(d)
  PROVE  \/ sent' = sent
         \/ /\ Deliver(d)
            /\ sent' = [sent EXCEPT ![sess[d].row] = @ \cup {d}]
            /\ sess'[d].outcome = "delivered" /\ sess'[d].mem.ts = d
  <1>1. CASE Deliver(d)
    <2> DEFINE won    == MarkDelivered(MarkDetected(sess[d].mem), d)
               winner == [sess[d] EXCEPT !.mem = won, !.outcome = "delivered"]
    <2>1. sess[d] \in Sessions /\ won.ts = d
      BY CopyTypes, MarkDetectedKeeps, MarkDeliveredSets
    <2>2. CASE UNCHANGED sent
      BY <2>2
    <2>3. CASE /\ sent' = [sent EXCEPT ![sess[d].row] = @ \cup {d}]
               /\ Session(d, winner)
      <3> HIDE DEF won
      <3>1. winner.mem = won /\ winner.outcome = "delivered"
        BY <2>1 DEF Sessions
      <3> HIDE DEF winner
      <3>2. sess'[d] = winner
        BY <2>3, SessionIs
      <3> QED
        BY <1>1, <2>1, <2>3, <3>1, <3>2
    <2> QED
      BY <1>1, <2>2, <2>3 DEF Deliver
  <1> QED
    BY <1>1
    DEF TaskStep, SelectRaw, InsertRaw, FindIncident, InsertIncident,
        ReselectIncident, SaveNormalized, SelectBucket, InsertBucket, Decide,
        Commit, CommitFails, ReleaseLock, Enrich, CommitEnrichment,
        EnrichmentLost, DatabaseError, RetryOrDrop

\* Only the main commit links, and it links its own event to its own row.
LEMMA StepLinks ==
  ASSUME TypeOK, NEW d \in Tasks, TaskStep(d)
  PROVE  \/ links' = links
         \/ /\ Commit(d)
            /\ \A e, r \in Events :
                 links'[e][r] # links[e][r] => e = EventOf[d] /\ r = sess[d].row
  <1> USE DEF database
  <1>1. CASE Commit(d)
    <2>1. links' = links \/ links' = [links EXCEPT ![EventOf[d]][sess[d].row] = @ + 1]
      BY <1>1 DEF Commit
    <2> QED
      BY <1>1, <2>1, CopyTypes DEF TypeOK
  <1> QED
    BY <1>1
    DEF TaskStep, SelectRaw, InsertRaw, FindIncident, InsertIncident,
        ReselectIncident, SaveNormalized, SelectBucket, InsertBucket, Decide,
        Deliver, CommitFails, ReleaseLock, Enrich, CommitEnrichment,
        EnrichmentLost, DatabaseError, RetryOrDrop

(***************************************************************************)
(* No lost race for the metric bucket: the minute's bucket exists already, *)
(* or no event is measured.  Then no incident loses its row to the         *)
(* rollback of that race.                                                  *)
(***************************************************************************)
NoBucketRace == Measured = {} \/ "absent" \notin InitialCells

RowInv ==
  /\ Measured = {} \/ cell = "present"
  /\ \A d \in Tasks : /\ ~sess[d].ghost /\ pc[d] # "bucket_insert"
                      /\ pc[d] = "bucket" => Measured # {}

LEMMA TaskStepRow ==
  ASSUME TypeOK, PipelineInv, RowInv, NEW d \in Tasks, TaskStep(d)
  PROVE  RowInv'
  <1>1. Others(d)
    BY StepShape, CommitShape, CommitEnrichmentShape
  <1>2. Leaves(d) \/ Settles(d) \/ Shape(d)
    BY StepShape, CommitShape, CommitEnrichmentShape
  <1>3. ~sess'[d].ghost
    BY <1>2
    DEF RowInv, Shape, Leaves, NoSession, Settles, Keeps, SameCopy, Loads, Creates,
        Haunts, Decides, Delivers, Enriches, Marks
  <1>4. /\ pc'[d] # "bucket_insert" /\ (pc'[d] = "bucket" => Measured # {})
        /\ Measured = {} \/ cell' = "present"
    BY StepToBucket DEF RowInv
  <1> QED
    BY <1>1, <1>3, <1>4 DEF RowInv, Others

LEMMA RowInvariance ==
  ASSUME NoBucketRace
  PROVE  Spec => []RowInv
  <1>1. Init => RowInv
    BY PipelineAssumption DEF Init, RowInv, NoSession, NoBucketRace
  <1>2. TypeOK /\ PipelineInv /\ RowInv /\ [Next]_vars => RowInv'
    <2> SUFFICES ASSUME TypeOK, PipelineInv, RowInv, [Next]_vars
                 PROVE  RowInv'
      OBVIOUS
    <2>1. CASE UNCHANGED vars
      BY <2>1 DEF vars, RowInv
    <2>2. ASSUME NEW d \in Tasks, Crash(d) \/ Redeliver(d)
          PROVE  RowInv'
      <3>1. cell' = cell
        BY <2>2 DEF Crash, Redeliver, database
      <3>2. Others(d) /\ Leaves(d)
        BY <2>2, CrashShape
      <3>3. /\ ~sess'[d].ghost /\ pc'[d] # "bucket_insert" /\ pc'[d] # "bucket"
        BY <3>2 DEF Leaves, NoSession, Idle
      <3> QED
        BY <3>1, <3>2, <3>3 DEF RowInv, Others
    <2>3. ASSUME \/ \E f \in Fingerprints : LockExpires(f)
                 \/ RedisFlips
                 \/ \E r \in Events : OperatorCloses(r) \/ MatcherMatches(r)
          PROVE  RowInv'
      <3>1. cell' = cell /\ sess' = sess /\ pc' = pc
        BY <2>3 DEF LockExpires, RedisFlips, OperatorCloses, MatcherMatches, database
      <3> QED
        BY <3>1 DEF RowInv
    <2> QED
      BY <2>1, <2>2, <2>3, TaskStepRow DEF Next, Environment
  <1> QED
    BY <1>1, <1>2, WinInvariance, PTL DEF Spec

\* Where no bucket race can roll an incident back, the delivered win is committed
\* before enrichment without exception: a crash during enrichment cannot lose it.
THEOREM WinAlwaysCommitted ==
  ASSUME NoBucketRace
  PROVE  Spec => [](\A d \in Tasks : pc[d] \in {"enrich", "commit_enrich"} =>
                                     inc[sess[d].row].ts # NoTask)
  <1> DEFINE Kept == \A d \in Tasks : pc[d] \in {"enrich", "commit_enrich"} =>
                                      inc[sess[d].row].ts # NoTask
  <1>1. RowInv /\ WinCommittedBeforeEnrichment => Kept
    BY DEF RowInv, WinCommittedBeforeEnrichment, RowRolledBack
  <1> HIDE DEF Kept
  <1>2. Spec => []Kept
    BY <1>1, RowInvariance, WinSurvivesEnrichment, PTL
  <1> QED
    BY <1>2 DEF Kept

(***************************************************************************)
(* Rows are never deleted, and a session works on a copy of a row that is  *)
(* in the table, or on one it inserts.  It never takes up a closed one.    *)
(***************************************************************************)
Working == Recording \cup Deciding \cup Committed

Present(r) == inc[r].status # "absent"

CopyInv ==
  \A d \in Tasks : pc[d] \in Working =>
    /\ sess[d].mem.status \in LiveStatuses
    /\ ~sess[d].fresh /\ ~sess[d].ghost => Present(sess[d].row)

\* A row stays; what a task knows of its own copy is its business.
LEMMA CopyLocal ==
  ASSUME TypeOK, CopyInv, NEW d \in Tasks, Others(d),
         \A q \in Events : Present(q) => Present(q)',
         pc'[d] \in Working =>
           /\ sess'[d].mem.status \in LiveStatuses
           /\ ~sess'[d].fresh /\ ~sess'[d].ghost => inc'[sess'[d].row].status # "absent"
  PROVE  CopyInv'
  <1>1. ASSUME NEW o \in Tasks \ {d}, pc'[o] \in Working
        PROVE  /\ sess'[o].mem.status \in LiveStatuses
               /\ ~sess'[o].fresh /\ ~sess'[o].ghost => inc'[sess'[o].row].status # "absent"
    BY <1>1, CopyTypes DEF Others, CopyInv, Present
  <1> QED
    BY <1>1 DEF CopyInv, Present

LEMMA ShapeCopy ==
  ASSUME TypeOK, CopyInv, NEW d \in Tasks, inc' = inc, Shape(d), Others(d)
  PROVE  CopyInv'
  <1> DEFINE s == sess[d]
             t == sess'[d]
             m == s.mem
             n == t.mem
  <1> USE DEF Working, Recording, Deciding, Committed
  <1>1. pc[d] \in Working =>
          /\ m.status \in LiveStatuses
          /\ ~s.fresh /\ ~s.ghost => Present(s.row)
    BY DEF CopyInv
  <1>2. pc'[d] \in Working =>
          /\ n.status \in LiveStatuses
          /\ ~t.fresh /\ ~t.ghost => Present(t.row)
    <2>1. CASE Leaves(d)
      BY <2>1, LeftCopy
    <2>2. CASE Keeps(d) \/ Haunts(d)
      BY <1>1, <2>2 DEF Keeps, SameCopy, Haunts
    <2>3. CASE Loads(d)
      BY <2>3, LoadedCopy DEF IsOpen, Present, LiveStatuses
    <2>4. CASE Creates(d)
      <3>1. t.fresh
        BY <2>4 DEF Creates
      <3> QED
        BY <2>4, <3>1, CreatedCopy DEF LiveStatuses
    <2>5. CASE Decides(d)
      <3>1. n.status \in {m.status, "observing"}
        BY <2>5, DecidedCopy
      <3> QED
        BY <1>1, <2>5, <3>1 DEF Decides, Marks, LiveStatuses
    <2>6. CASE Delivers(d)
      <3>1. n.status \in {m.status, "detected", "alerted", "notification_failed"}
        BY <2>6, DeliveredCopy
      <3> QED
        BY <1>1, <2>6, <3>1 DEF Delivers, Marks, LiveStatuses
    <2>7. CASE Enriches(d)
      <3>1. n.status \in {m.status, "enriched"}
        BY <2>7, EnrichedCopy
      <3> QED
        BY <1>1, <2>7, <3>1 DEF Enriches, Marks, LiveStatuses
    <2> QED
      BY <2>1, <2>2, <2>3, <2>4, <2>5, <2>6, <2>7 DEF Shape
  <1> QED
    BY <1>2, CopyLocal DEF Present

LEMMA CommitCopy ==
  ASSUME TypeOK, PipelineInv, CopyInv, NEW d \in Tasks, Commit(d) \/ CommitEnrichment(d)
  PROVE  CopyInv' /\ \A q \in Events : Present(q) => Present(q)'
  <1> DEFINE r == sess[d].row
             x == RowToWrite(d)
  <1>1. /\ pc[d] \in {"commit", "commit_enrich"} /\ Writes(d) /\ Others(d)
        /\ Leaves(d) \/ Settles(d)
    BY CommitShape, CommitEnrichmentShape
  <1>2. /\ sess[d].mem.status \in LiveStatuses
        /\ ~sess[d].fresh /\ ~sess[d].ghost => Present(r)
    BY <1>1 DEF CopyInv, Working, Deciding, Committed
  <1>3. ~sess[d].ghost => x.status # "absent"
    BY <1>2, WrittenColumns DEF Present, LiveStatuses
  <1>4. /\ \A q \in Events : inc[q].status # "absent" => inc'[q].status # "absent"
        /\ ~sess[d].ghost => inc'[r].status # "absent"
    BY <1>1, <1>3 DEF Writes
  <1>5. pc'[d] \in Working =>
           /\ sess'[d].mem.status \in LiveStatuses
           /\ ~sess'[d].fresh /\ ~sess'[d].ghost => inc'[sess'[d].row].status # "absent"
    BY <1>1, <1>2, <1>4, LeftCopy DEF Settles, Working
  <1> QED
    BY <1>1, <1>4, <1>5, CopyLocal DEF Present

LEMMA EnvironmentCopy ==
  ASSUME TypeOK, PipelineInv, CopyInv, Environment
  PROVE  CopyInv' /\ \A q \in Events : Present(q) => Present(q)'
  <1>1. ASSUME NEW d \in Tasks, Crash(d) \/ Redeliver(d)
        PROVE  CopyInv' /\ inc' = inc
    BY <1>1, CrashShape, ShapeCopy DEF Shape
  <1>2. ASSUME (\E f \in Fingerprints : LockExpires(f)) \/ RedisFlips
        PROVE  CopyInv' /\ inc' = inc
    BY <1>2 DEF CopyInv, Present, LockExpires, RedisFlips, database
  <1>3. ASSUME NEW r \in Events, OperatorCloses(r) \/ MatcherMatches(r)
        PROVE  CopyInv' /\ \A q \in Events : Present(q) => Present(q)'
    <2>1. sess' = sess /\ pc' = pc /\ inc[r] \in Incidents
      BY <1>3 DEF OperatorCloses, MatcherMatches, TypeOK
    <2>2. PICK st \in {"resolved", "false_positive", "matched_to_freshdesk"} :
            inc' = [inc EXCEPT ![r].status = st]
      BY <1>3 DEF OperatorCloses, MatcherMatches, ClosedStatuses
    <2>3. \A q \in Events : Present(q) => Present(q)'
      BY <2>1, <2>2 DEF Present, TypeOK, Incidents
    <2> QED
      BY <2>1, <2>3, CopyTypes DEF CopyInv
  <1> QED
    BY <1>1, <1>2, <1>3 DEF Environment, Present

LEMMA StepCopy ==
  ASSUME TypeOK, PipelineInv, CopyInv, [Next]_vars
  PROVE  CopyInv' /\ \A q \in Events : Present(q) => Present(q)'
  <1>1. CASE UNCHANGED vars
    BY <1>1 DEF vars, CopyInv, Present
  <1>2. ASSUME NEW d \in Tasks, TaskStep(d)
        PROVE  CopyInv' /\ \A q \in Events : Present(q) => Present(q)'
    <2>1. CASE Commit(d) \/ CommitEnrichment(d)
      BY <2>1, CommitCopy
    <2>2. CASE ~(Commit(d) \/ CommitEnrichment(d))
      BY <1>2, <2>2, StepShape, ShapeCopy DEF Present
    <2> QED
      BY <2>1, <2>2
  <1> QED
    BY <1>1, <1>2, EnvironmentCopy DEF Next

LEMMA CopyInvariance == Spec => []CopyInv
  <1>1. Init => CopyInv
    BY DEF Init, CopyInv, Working, Recording, Deciding, Committed
  <1> QED
    BY <1>1, StepCopy, WinInvariance, PTL DEF Spec

(***************************************************************************)
(* Without an operator no incident is closed: rows stay open, and the      *)
(* partial unique index never refuses a commit.                            *)
(***************************************************************************)
LiveInv ==
  /\ CopyInv
  /\ \A r \in Events : inc[r].status \in LiveStatuses \cup {"absent"}

LEMMA LiveCopy ==
  ASSUME LiveInv, NEW d \in Tasks, pc[d] \in Working, sess[d].row \in Events
  PROVE  /\ sess[d].mem.status \in LiveStatuses
         /\ ~sess[d].fresh /\ ~sess[d].ghost => IsOpen(inc[sess[d].row])
  BY DEF LiveInv, CopyInv, Present, IsOpen

LEMMA CommitLive ==
  ASSUME TypeOK, PipelineInv, LiveInv, NEW d \in Tasks, Commit(d) \/ CommitEnrichment(d)
  PROVE  /\ LiveInv'
         /\ \A q \in Events : IsOpen(inc[q]) => IsOpen(inc'[q])
         /\ ~sess[d].ghost => IsOpen(inc'[sess[d].row])
  <1> DEFINE r == sess[d].row
             x == RowToWrite(d)
  <1>1. pc[d] \in {"commit", "commit_enrich"} /\ Writes(d)
    BY CommitShape, CommitEnrichmentShape
  <1>2. /\ sess[d].mem.status \in LiveStatuses
        /\ ~sess[d].fresh /\ ~sess[d].ghost => IsOpen(inc[r])
    BY <1>1, LiveCopy, CopyTypes DEF Working, Deciding, Committed
  <1>3. ~sess[d].ghost => x.status \in LiveStatuses
    BY <1>2, WrittenColumns DEF IsOpen
  <1>4. /\ \A q \in Events : inc'[q].status \in LiveStatuses \cup {"absent"}
        /\ \A q \in Events : IsOpen(inc[q]) => IsOpen(inc'[q])
        /\ ~sess[d].ghost => IsOpen(inc'[r])
    BY <1>1, <1>3 DEF Writes, LiveInv, IsOpen
  <1> QED
    BY <1>4, CommitCopy DEF LiveInv

LEMMA EnvironmentLive ==
  ASSUME TypeOK, PipelineInv, LiveInv, "operator" \notin Faults, Environment
  PROVE  LiveInv' /\ \A q \in Events : IsOpen(inc[q]) => IsOpen(inc'[q])
  <1>1. CASE inc' = inc
    BY <1>1, EnvironmentCopy DEF LiveInv
  <1>2. ASSUME NEW r \in Events, MatcherMatches(r)
        PROVE  LiveInv' /\ \A q \in Events : IsOpen(inc[q]) => IsOpen(inc'[q])
    <2>1. inc[r] \in Incidents
      BY DEF TypeOK
    <2>2. /\ \A q \in Events : q # r => inc'[q] = inc[q]
          /\ inc'[r] = [inc[r] EXCEPT !.status = "matched_to_freshdesk"]
      BY <1>2 DEF MatcherMatches, TypeOK
    <2>3. inc'[r].status = "matched_to_freshdesk"
      BY <2>1, <2>2 DEF Incidents
    <2>4. "matched_to_freshdesk" \in LiveStatuses
      BY DEF LiveStatuses
    <2>5. /\ \A q \in Events : inc'[q].status \in LiveStatuses \cup {"absent"}
          /\ \A q \in Events : IsOpen(inc[q]) => IsOpen(inc'[q])
      BY <2>2, <2>3, <2>4 DEF LiveInv, IsOpen
    <2> QED
      BY <2>5, EnvironmentCopy DEF LiveInv
  <1>3. inc' = inc \/ \E r \in Events : MatcherMatches(r)
    BY DEF Environment, Crash, Redeliver, LockExpires, RedisFlips, OperatorCloses, database
  <1> QED
    BY <1>1, <1>2, <1>3

LEMMA ShapeLive ==
  ASSUME TypeOK, LiveInv, NEW d \in Tasks, inc' = inc, Shape(d), Others(d)
  PROVE  LiveInv'
  BY ShapeCopy DEF LiveInv

LEMMA LiveInvariance ==
  ASSUME "operator" \notin Faults
  PROVE  Spec => []LiveInv
  <1>1. Init => LiveInv
    <2> SUFFICES ASSUME Init PROVE LiveInv
      OBVIOUS
    <2>1. \A e \in Events : inc[e].status = "absent"
      BY PipelineAssumption, FreshStatus DEF Init
    <2> QED
      BY <2>1 DEF Init, LiveInv, CopyInv, Working, Recording, Deciding, Committed
  <1>2. TypeOK /\ PipelineInv /\ LiveInv /\ [Next]_vars => LiveInv'
    <2> SUFFICES ASSUME TypeOK, PipelineInv, LiveInv, [Next]_vars
                 PROVE  LiveInv'
      OBVIOUS
    <2>1. CASE UNCHANGED vars
      BY <2>1, StepCopy DEF vars, LiveInv
    <2>2. ASSUME NEW d \in Tasks, TaskStep(d)
          PROVE  LiveInv'
      BY <2>2, StepShape, ShapeLive, CommitLive
    <2> QED
      BY <2>1, <2>2, EnvironmentLive DEF Next
  <1> QED
    BY <1>1, <1>2, WinInvariance, PTL DEF Spec

(***************************************************************************)
(* The row lock.  From the flush on a task holds the lock of its row, and  *)
(* of a row it inserts from the INSERT on.                                 *)
(***************************************************************************)
Locked(d) ==
  \/ pc[d] \in {"bucket", "bucket_insert"} \cup Deciding /\ ~sess[d].ghost
  \/ sess[d].fresh

RowLockInv == \A d \in Tasks : Locked(d) => rowLock[sess[d].row] = d

\* Two tasks that hold their rows hold different rows.
LEMMA RowsDiffer ==
  ASSUME RowLockInv, NEW c \in Tasks, NEW d \in Tasks, Locked(c), Locked(d), c # d
  PROVE  sess[c].row # sess[d].row
  BY DEF RowLockInv

\* A step of d that leaves the rows of the others to them.
LEMMA RowLockLocal ==
  ASSUME TypeOK, RowLockInv, NEW d \in Tasks, Others(d),
         \A o \in Tasks \ {d} : Locked(o) => rowLock'[sess[o].row] = rowLock[sess[o].row],
         Locked(d)' => rowLock'[sess'[d].row] = d
  PROVE  RowLockInv'
  <1>1. ASSUME NEW o \in Tasks \ {d}, Locked(o)'
        PROVE  rowLock'[sess'[o].row] = o
    <2>1. sess'[o] = sess[o] /\ Locked(o)
      BY <1>1 DEF Others, Locked
    <2> QED
      BY <2>1 DEF RowLockInv
  <1> QED
    BY <1>1 DEF RowLockInv

\* The row of an event whose raw event is still uncommitted is locked by
\* nobody but the task that inserts it.
LEMMA NewRowUnlocked ==
  ASSUME TypeOK, PipelineInv, NEW d \in Tasks, sess[d].rawRow = "new", ~sess[d].fresh,
         NEW o \in Tasks \ {d}, Locked(o)
  PROVE  sess[o].row # EventOf[d]
  <1>1. SessionInv(o) /\ SessionInv(d) /\ raw[EventOf[d]] = "absent"
    BY DEF PipelineInv, SessionInv
  <1>2. CASE sess[o].fresh
    BY <1>1, <1>2 DEF PipelineInv, OneInserter, SessionInv
  <1>3. CASE ~sess[o].fresh
    BY <1>1, <1>3 DEF Locked, SessionInv, Recording, Deciding
  <1> QED
    BY <1>2, <1>3

LEMMA FreedLocks ==
  ASSUME TypeOK, RowLockInv, NEW d \in Tasks, Others(d), FreeLocks(d), ~Locked(d)'
  PROVE  RowLockInv'
  <1>1. ASSUME NEW o \in Tasks \ {d}, Locked(o)
        PROVE  rowLock'[sess[o].row] = rowLock[sess[o].row]
    <2>1. rowLock[sess[o].row] = o /\ sess[o].row \in Events
      BY <1>1, CopyTypes DEF RowLockInv
    <2> QED
      BY <2>1 DEF FreeLocks
  <1> QED
    BY <1>1, RowLockLocal

\* A step that leaves the row locks alone and the task with its copy.
LEMMA SameRowLocks ==
  ASSUME TypeOK, RowLockInv, NEW d \in Tasks, Others(d), rowLock' = rowLock,
         Locked(d)' => Locked(d) /\ sess'[d].row = sess[d].row
  PROVE  RowLockInv'
  <1>1. Locked(d)' => rowLock'[sess'[d].row] = d
    BY DEF RowLockInv
  <1> QED
    BY <1>1, RowLockLocal

LEMMA InsertIncidentRowLock ==
  ASSUME TypeOK, PipelineInv, RowLockInv, NEW d \in Tasks, InsertIncident(d)
  PROVE  RowLockInv'
  <1>1. /\ (Keeps(d) \/ Creates(d)) /\ Others(d)
        /\ ~sess[d].fresh /\ sess[d].rawRow = "new" /\ EventOf[d] \in Events
    BY InsertIncidentShape, CopyTypes
    DEF InsertIncident, PipelineInv, SessionInv, Resolving
  <1>2. CASE UNCHANGED rowLock /\ Goto(d, "reselect") /\ Keeps(d)
    <2>1. pc'[d] = "reselect"
      BY <1>2, GotoIs
    <2>2. ~Locked(d)'
      BY <1>1, <1>2, <2>1 DEF Locked, Keeps, SameCopy, Deciding
    <2> QED
      BY <1>1, <1>2, <2>2, SameRowLocks
  <1>3. CASE rowLock' = [rowLock EXCEPT ![EventOf[d]] = d] /\ Creates(d)
    <2>1. rowLock'[sess'[d].row] = d
      BY <1>1, <1>3 DEF Creates, TypeOK
    <2>2. \A o \in Tasks \ {d} : Locked(o) => rowLock'[sess[o].row] = rowLock[sess[o].row]
      BY <1>1, <1>3, NewRowUnlocked, CopyTypes DEF TypeOK
    <2> QED
      BY <1>1, <2>1, <2>2, RowLockLocal
  <1> QED
    <2>1. CASE UNCHANGED rowLock /\ Goto(d, "reselect")
      <3>1. pc'[d] = "reselect"
        BY <2>1, GotoIs
      <3> QED
        BY <1>1, <1>2, <2>1, <3>1 DEF Creates
    <2>2. CASE rowLock' = [rowLock EXCEPT ![EventOf[d]] = d] /\ Goto(d, "save")
      <3>1. pc'[d] = "save" /\ pc[d] = "insert"
        BY <2>2, GotoIs DEF InsertIncident
      <3> QED
        BY <1>1, <1>3, <2>2, <3>1 DEF Keeps, Recording
    <2> QED
      BY <2>1, <2>2 DEF InsertIncident

LEMMA SaveNormalizedRowLock ==
  ASSUME TypeOK, PipelineInv, RowLockInv, NEW d \in Tasks, SaveNormalized(d)
  PROVE  RowLockInv'
  <1> DEFINE r == sess[d].row
  <1>1. /\ Others(d) /\ sess' = sess /\ pc[d] = "save" /\ r \in Events
        /\ rowLock[r] \in {NoTask, d}
    BY GotoIs, CopyTypes DEF SaveNormalized, RowFree, Others
  <1>2. CASE UNCHANGED rowLock /\ Goto(d, "raise")
    <2>1. Locked(d)' => Locked(d)
      BY <1>1, <1>2, GotoIs DEF Locked, Deciding
    <2> QED
      BY <1>1, <1>2, <2>1, SameRowLocks
  <1>3. CASE rowLock' = [rowLock EXCEPT ![r] = d]
    <2>1. ASSUME NEW o \in Tasks \ {d}, Locked(o)
          PROVE  rowLock'[sess[o].row] = rowLock[sess[o].row]
      <3>1. rowLock[sess[o].row] = o /\ o \notin {NoTask, d} /\ sess[o].row \in Events
        BY <2>1, NoTaskAssumption, CopyTypes DEF RowLockInv
      <3> QED
        BY <1>1, <1>3, <3>1 DEF TypeOK
    <2>2. rowLock'[sess'[d].row] = d
      BY <1>1, <1>3 DEF TypeOK
    <2> QED
      BY <1>1, <2>1, <2>2, RowLockLocal
  <1> QED
    BY <1>2, <1>3 DEF SaveNormalized

LEMMA InsertBucketRowLock ==
  ASSUME TypeOK, PipelineInv, RowLockInv, NEW d \in Tasks, InsertBucket(d)
  PROVE  RowLockInv'
  <1>1. (Keeps(d) \/ Haunts(d)) /\ Others(d) /\ pc[d] = "bucket_insert" /\ Locked(d)
    BY InsertBucketShape DEF InsertBucket, Locked, PipelineInv, SessionInv, Recording
  <1>2. CASE UNCHANGED rowLock
    <2>1. Locked(d)' => Locked(d) /\ sess'[d].row = sess[d].row
      BY <1>1 DEF Keeps, SameCopy, Haunts
    <2> QED
      BY <1>1, <1>2, <2>1, SameRowLocks
  <1>3. CASE /\ rowLock' = [rowLock EXCEPT ![sess[d].row] = NoTask]
             /\ sess[d].fresh
             /\ Session(d, [sess[d] EXCEPT !.fresh = FALSE, !.ghost = TRUE,
                                           !.rawRow = RolledBack(@)])
    <2>1. sess[d] \in Sessions
      BY DEF TypeOK
    <2> DEFINE s == [sess[d] EXCEPT !.fresh = FALSE, !.ghost = TRUE,
                                    !.rawRow = RolledBack(@)]
    <2>2. s.ghost = TRUE /\ s.fresh = FALSE
      BY <2>1 DEF Sessions
    <2> HIDE DEF s
    <2>3. sess'[d] = s
      BY <1>3, SessionIs DEF s
    <2>4. \A o \in Tasks \ {d} : Locked(o) => rowLock'[sess[o].row] = rowLock[sess[o].row]
      BY <1>1, <1>3, RowsDiffer, CopyTypes DEF TypeOK
    <2> QED
      BY <1>1, <2>2, <2>3, <2>4, RowLockLocal DEF Locked
  <1> QED
    BY <1>2, <1>3 DEF InsertBucket, locks

LEMMA TaskStepRowLock ==
  ASSUME TypeOK, PipelineInv, RowLockInv, NEW d \in Tasks, TaskStep(d)
  PROVE  RowLockInv'
  <1> USE DEF locks
  <1>1. CASE InsertIncident(d) \/ SaveNormalized(d) \/ InsertBucket(d)
    BY <1>1, InsertIncidentRowLock, SaveNormalizedRowLock, InsertBucketRowLock
  <1>2. CASE Commit(d) \/ RetryOrDrop(d)
    <2>1. Others(d) /\ (Leaves(d) \/ Settles(d)) /\ FreeLocks(d)
      <3>1. CASE Commit(d)
        BY <3>1, CommitShape DEF Commit
      <3>2. CASE RetryOrDrop(d)
        BY <3>2, SessionIs, GotoIs DEF RetryOrDrop, Leaves, Others, Idle
      <3> QED
        BY <1>2, <3>1, <3>2
    <2>2. ~Locked(d)'
      BY <2>1 DEF Locked, Leaves, NoSession, Idle, Settles, Deciding
    <2> QED
      BY <2>1, <2>2, FreedLocks
  <1>3. CASE SelectRaw(d) \/ InsertRaw(d) \/ ReleaseLock(d) \/ EnrichmentLost(d)
               \/ CommitEnrichment(d)
    <2>1. Others(d) /\ (Leaves(d) \/ Keeps(d)) /\ rowLock' = rowLock
      BY <1>3, SelectRawShape, InsertRawShape, CommitEnrichmentShape, SessionIs, GotoIs
      DEF SelectRaw, InsertRaw, ReleaseLock, EnrichmentLost, CommitEnrichment,
          Finish, Leaves, Others, Idle
    <2>2. pc[d] \notin Recording \cup {"bucket"}
      BY <1>3
      DEF SelectRaw, InsertRaw, ReleaseLock, EnrichmentLost, CommitEnrichment, Recording
    <2>3. Locked(d)' => Locked(d) /\ sess'[d].row = sess[d].row
      BY <2>1, <2>2 DEF Locked, Leaves, NoSession, Keeps, SameCopy, Idle, Deciding
    <2> QED
      BY <2>1, <2>3, SameRowLocks
  <1>4. CASE FindIncident(d) \/ ReselectIncident(d)
    <2>1. Shape(d) /\ Others(d) /\ rowLock' = rowLock /\ pc[d] \in {"find", "reselect"}
      BY <1>4, StepShape DEF FindIncident, ReselectIncident, Commit, CommitEnrichment
    <2>2. pc'[d] \in {"save", "insert", "raise"} /\ ~sess'[d].fresh
      <3>1. CASE \E r \in OpenRows(Fp(d)) : AbsorbInto(d, r)
        BY <2>1, <3>1, AbsorbShape DEF Loads, Resolving
      <3>2. CASE (Goto(d, "insert") \/ Goto(d, "raise")) /\ UNCHANGED sess
        BY <2>1, <3>2, GotoIs DEF PipelineInv, SessionInv, Resolving
      <3> QED
        BY <1>4, <3>1, <3>2 DEF FindIncident, ReselectIncident
    <2>3. ~Locked(d)'
      BY <2>2 DEF Locked, Deciding
    <2> QED
      BY <2>1, <2>3, SameRowLocks
  <1>5. CASE SelectBucket(d) \/ CommitFails(d) \/ DatabaseError(d)
    <2>1. Others(d) /\ rowLock' = rowLock /\ sess' = sess
      BY <1>5, GotoIs DEF SelectBucket, CommitFails, DatabaseError, Others
    <2>2. Locked(d)' => Locked(d)
      BY <1>5, <2>1, GotoIs
      DEF SelectBucket, CommitFails, DatabaseError, Locked, PipelineInv, SessionInv,
          Recording, Deciding
    <2> QED
      BY <2>1, <2>2, SameRowLocks
  <1>6. CASE Decide(d) \/ Deliver(d) \/ Enrich(d)
    <2>1. /\ Others(d) /\ rowLock' = rowLock
          /\ Decides(d) \/ Delivers(d) \/ (Enrich(d) /\ (Keeps(d) \/ Enriches(d)))
      BY <1>6, DecideShape, DeliverShape, EnrichShape DEF Decide, Deliver, Enrich
    <2>2. Locked(d)' => Locked(d) /\ sess'[d].row = sess[d].row
      BY <2>1
      DEF Decides, Delivers, Keeps, SameCopy, Enriches, Marks, Enrich, Locked, Deciding,
          Recording
    <2> QED
      BY <2>1, <2>2, SameRowLocks
  <1> QED
    BY <1>1, <1>2, <1>3, <1>4, <1>5, <1>6 DEF TaskStep

LEMMA RowLockInvariance == Spec => []RowLockInv
  <1>1. Init => RowLockInv
    BY DEF Init, RowLockInv, Locked, NoSession, Deciding
  <1>2. TypeOK /\ PipelineInv /\ RowLockInv /\ [Next]_vars => RowLockInv'
    <2> SUFFICES ASSUME TypeOK, PipelineInv, RowLockInv, [Next]_vars
                 PROVE  RowLockInv'
      OBVIOUS
    <2>1. CASE UNCHANGED vars
      BY <2>1 DEF vars, RowLockInv, Locked
    <2>2. ASSUME NEW d \in Tasks, Crash(d)
          PROVE  RowLockInv'
      <3>1. Others(d) /\ Leaves(d) /\ FreeLocks(d)
        BY <2>2, CrashShape DEF Crash
      <3> QED
        BY <3>1, FreedLocks DEF Locked, Leaves, NoSession, Idle, Deciding
    <2>3. ASSUME NEW d \in Tasks, Redeliver(d)
          PROVE  RowLockInv'
      <3>1. Others(d) /\ Leaves(d) /\ rowLock' = rowLock
        BY <2>3, CrashShape DEF Redeliver, locks
      <3> QED
        BY <3>1, SameRowLocks DEF Locked, Leaves, NoSession, Idle, Deciding
    <2>4. ASSUME \/ \E f \in Fingerprints : LockExpires(f)
                 \/ RedisFlips
                 \/ \E r \in Events : OperatorCloses(r) \/ MatcherMatches(r)
          PROVE  RowLockInv'
      <3>1. rowLock' = rowLock /\ sess' = sess /\ pc' = pc
        BY <2>4 DEF LockExpires, RedisFlips, OperatorCloses, MatcherMatches, locks
      <3> QED
        BY <3>1 DEF RowLockInv, Locked
    <2> QED
      BY <2>1, <2>2, <2>3, <2>4, TaskStepRowLock DEF Next, Environment
  <1> QED
    BY <1>1, <1>2, WinInvariance, PTL DEF Spec

(***************************************************************************)
(* One alert for each incident, and a record of it.  A confirmed alert is  *)
(* the row's timestamp, or is about to be: its task holds the alert lock   *)
(* with the timestamp in its copy.  Only the partial unique index could    *)
(* keep it from committing, and it does so only after a recurrence.        *)
(***************************************************************************)
LEMMA ConflictRecurs ==
  ASSUME TypeOK, WinInv, CopyInv, NEW d \in Tasks, pc[d] = "commit", IndexConflict(d)
  PROVE  Recurred(FingerprintOf[sess[d].row])
  <1> DEFINE r == sess[d].row
  <1>1. /\ ~sess[d].fresh /\ ~sess[d].ghost /\ ~IsOpen(inc[r]) /\ OpenRows(Fp(d)) # {}
        /\ r \in Events
    BY CopyTypes DEF IndexConflict, Reopens
  <1>2. Present(r) /\ FingerprintOf[r] = Fp(d)
    BY <1>1 DEF CopyInv, Working, Deciding, WinInv, SessionWin
  <1>3. PICK q \in Events : inc[q].fp = Fp(d) /\ IsOpen(inc[q])
    BY <1>1 DEF OpenRows
  <1>4. FingerprintOf[q] = Fp(d) /\ q # r /\ inc[q].status # "absent"
    BY <1>1, <1>3 DEF WinInv, RowWin, IsOpen, LiveStatuses
  <1> QED
    BY <1>1, <1>2, <1>4 DEF Recurred, Present

LEMMA RecurredStays ==
  ASSUME \A q \in Events : Present(q) => Present(q)', NEW f, Recurred(f)
  PROVE  Recurred(f)'
  BY DEF Recurred, Present

AboutToRecord(c, r) ==
  /\ pc[c] = "commit" /\ sess[c].outcome = "delivered"
  /\ sess[c].row = r /\ sess[c].mem.ts = c /\ ~sess[c].ghost

SentInv ==
  \A r \in Events : \A c \in sent[r] :
    Recurred(FingerprintOf[r]) \/ inc[r].ts = c \/ AboutToRecord(c, r)

\* No commit of the task itself: its timestamps and its sessions stay.
LEMMA SentKept ==
  ASSUME TypeOK, SentInv, NEW d \in Tasks, sent' = sent, Others(d), SameClaims,
         pc[d] # "commit", \A q \in Events : Present(q) => Present(q)'
  PROVE  SentInv'
  <1> SUFFICES ASSUME NEW r \in Events, NEW c \in sent[r]
               PROVE  \/ Recurred(FingerprintOf[r])'
                      \/ inc'[r].ts = c \/ AboutToRecord(c, r)'
    BY DEF SentInv
  <1>1. c \in Tasks
    BY DEF TypeOK
  <1>2. Recurred(FingerprintOf[r]) \/ inc[r].ts = c \/ AboutToRecord(c, r)
    BY DEF SentInv
  <1>3. CASE inc[r].ts = c
    BY <1>3 DEF SameClaims
  <1>4. CASE AboutToRecord(c, r)
    BY <1>1, <1>4 DEF AboutToRecord, Others
  <1>5. CASE Recurred(FingerprintOf[r])
    BY <1>5, RecurredStays
  <1> QED
    BY <1>2, <1>3, <1>4, <1>5

LEMMA DeliverSent ==
  ASSUME TypeOK, RowInv, SentInv, NEW d \in Tasks, inc' = inc, Others(d), Delivers(d),
         sent' = [sent EXCEPT ![sess[d].row] = @ \cup {d}],
         sess'[d].outcome = "delivered", sess'[d].mem.ts = d
  PROVE  SentInv'
  <1> SUFFICES ASSUME NEW r \in Events, NEW c \in sent'[r]
               PROVE  \/ Recurred(FingerprintOf[r])'
                      \/ inc'[r].ts = c \/ AboutToRecord(c, r)'
    BY DEF SentInv
  <1>1. c \in sent[r] \/ (c = d /\ r = sess[d].row)
    BY CopyTypes DEF TypeOK
  <1>2. CASE c \in sent[r]
    <2>1. c \in Tasks
      BY <1>2 DEF TypeOK
    <2>2. Recurred(FingerprintOf[r]) \/ inc[r].ts = c \/ AboutToRecord(c, r)
      BY <1>2 DEF SentInv
    <2>3. CASE AboutToRecord(c, r)
      <3>1. c # d
        BY <2>3 DEF AboutToRecord, Delivers
      <3> QED
        BY <2>1, <2>3, <3>1 DEF AboutToRecord, Others
    <2>4. CASE Recurred(FingerprintOf[r])
      BY <2>4, RecurredStays DEF Present
    <2> QED
      BY <2>2, <2>3, <2>4
  <1>3. CASE c = d /\ r = sess[d].row
    <2>1. /\ pc'[d] = "commit" /\ sess'[d].row = sess[d].row
          /\ sess'[d].ghost = sess[d].ghost
      BY DEF Delivers, Marks
    <2> QED
      BY <1>3, <2>1 DEF AboutToRecord, RowInv
  <1> QED
    BY <1>1, <1>2, <1>3

LEMMA CommitSent ==
  ASSUME TypeOK, PipelineInv, WinInv, LockInv, CopyInv, SentInv,
         NEW d \in Tasks, Commit(d), sent' = sent
  PROVE  SentInv'
  <1> DEFINE s == sess[d]
             x == RowToWrite(d)
  <1>1. pc[d] = "commit" /\ Writes(d) /\ Others(d)
    BY CommitShape
  <1> SUFFICES ASSUME NEW r \in Events, NEW c \in sent[r]
               PROVE  \/ Recurred(FingerprintOf[r])'
                      \/ inc'[r].ts = c \/ AboutToRecord(c, r)'
    BY DEF SentInv
  <1>2. c \in Tasks
    BY DEF TypeOK
  <1>3. CASE inc[r].ts = c
    <2>1. inc'[r].ts # inc[r].ts => inc[r].ts = NoTask
      BY ClaimIsFirst
    <2> QED
      BY <1>2, <1>3, <2>1, NoTaskAssumption
  <1>4. CASE AboutToRecord(c, r) /\ c # d
    BY <1>1, <1>2, <1>4 DEF AboutToRecord, Others
  <1>5. CASE AboutToRecord(c, r) /\ c = d
    <2>1. s.row = r /\ s.mem.ts = d /\ ~s.ghost /\ s.outcome = "delivered"
      BY <1>5 DEF AboutToRecord
    <2>2. inc[r].ts = NoTask
      BY <1>1, <2>1 DEF LockInv, SessionLock, Holding
    <2>3. s.base.ts = NoTask
      BY <2>1, <2>2 DEF WinInv, SessionWin
    <2>4. x.ts = d
      BY <2>1, <2>3, WrittenColumns, NoTaskAssumption
    <2> QED
      BY <1>1, <1>5, <2>1, <2>4 DEF Writes
  <1>6. CASE Recurred(FingerprintOf[r])
    BY <1>6, CommitCopy, RecurredStays
  <1> QED
    BY <1>3, <1>4, <1>5, <1>6 DEF SentInv

\* The index refuses a commit: the fingerprint of its row has recurred.
LEMMA CommitFailsSent ==
  ASSUME TypeOK, PipelineInv, WinInv, CopyInv, SentInv, "db" \notin Faults,
         NEW d \in Tasks, CommitFails(d), Others(d)
  PROVE  SentInv'
  <1>1. pc[d] = "commit" /\ IndexConflict(d) /\ inc' = inc /\ sent' = sent
    BY DEF CommitFails, database
  <1>2. Recurred(FingerprintOf[sess[d].row])
    BY <1>1, ConflictRecurs
  <1> SUFFICES ASSUME NEW r \in Events, NEW c \in sent[r]
               PROVE  \/ Recurred(FingerprintOf[r])'
                      \/ inc'[r].ts = c \/ AboutToRecord(c, r)'
    BY <1>1 DEF SentInv
  <1>3. Recurred(FingerprintOf[r]) => Recurred(FingerprintOf[r])'
    BY <1>1, RecurredStays DEF Present
  <1>4. c \in Tasks /\ (AboutToRecord(c, r) /\ c # d => AboutToRecord(c, r)')
    BY DEF TypeOK, AboutToRecord, Others
  <1>5. AboutToRecord(c, r) /\ c = d => Recurred(FingerprintOf[r])
    BY <1>2 DEF AboutToRecord
  <1> QED
    BY <1>1, <1>3, <1>4, <1>5 DEF SentInv

LEMMA TaskStepSent ==
  ASSUME TypeOK, PipelineInv, WinInv, LockInv, CopyInv, RowInv, SentInv,
         "db" \notin Faults, NEW d \in Tasks, TaskStep(d)
  PROVE  SentInv'
  <1>1. CASE Commit(d)
    BY <1>1, CommitSent DEF Commit
  <1>2. CASE CommitFails(d)
    BY <1>2, CommitFailsSent, StepShape DEF Commit, CommitFails, CommitEnrichment
  <1>3. CASE ~Commit(d) /\ ~CommitFails(d)
    <2>1. pc[d] # "commit"
      BY <1>3, StepFrom
    <2>2. Others(d) /\ SameClaims
      <3>1. CASE CommitEnrichment(d)
        BY <3>1, CommitEnrichmentShape, EnrichmentKeepsClaims
      <3> QED
        BY <1>3, <3>1, StepShape DEF SameClaims
    <2>3. CASE sent' = sent
      <3>1. \A q \in Events : Present(q) => Present(q)'
        BY StepCopy DEF Next
      <3> QED
        BY <2>1, <2>2, <2>3, <3>1, SentKept
    <2>4. CASE /\ Deliver(d)
               /\ sent' = [sent EXCEPT ![sess[d].row] = @ \cup {d}]
               /\ sess'[d].outcome = "delivered" /\ sess'[d].mem.ts = d
      <3>1. inc' = inc /\ Delivers(d)
        BY <2>4, DeliverShape DEF Deliver, database
      <3> QED
        BY <2>2, <2>4, <3>1, DeliverSent
    <2> QED
      BY <2>3, <2>4, StepSent
  <1> QED
    BY <1>1, <1>2, <1>3

LEMMA EnvironmentSent ==
  ASSUME TypeOK, PipelineInv, CopyInv, SentInv, "crash" \notin Faults, Environment
  PROVE  SentInv'
  <1> SUFFICES ASSUME NEW r \in Events, NEW c \in sent'[r]
               PROVE  \/ Recurred(FingerprintOf[r])'
                      \/ inc'[r].ts = c \/ AboutToRecord(c, r)'
    BY DEF SentInv
  <1>1. sent' = sent
    BY DEF Environment, Crash, Redeliver, LockExpires, RedisFlips, OperatorCloses,
           MatcherMatches
  <1>2. /\ c \in Tasks
        /\ Recurred(FingerprintOf[r]) \/ inc[r].ts = c \/ AboutToRecord(c, r)
    BY <1>1 DEF TypeOK, SentInv
  <1>3. inc'[r].ts = inc[r].ts
    BY StatusWritten
    DEF Environment, Crash, Redeliver, LockExpires, RedisFlips, database
  <1>4. AboutToRecord(c, r) => AboutToRecord(c, r)'
    <2>1. ASSUME NEW d \in Tasks, Redeliver(d)
          PROVE  AboutToRecord(c, r) => AboutToRecord(c, r)'
      <3>1. sess' = sess /\ pc[d] = "unacked" /\ \A o \in Tasks \ {d} : pc'[o] = pc[o]
        BY <2>1, GotoIs DEF Redeliver
      <3> QED
        BY <1>2, <3>1 DEF AboutToRecord
    <2>2. ASSUME \/ \E f \in Fingerprints : LockExpires(f)
                 \/ RedisFlips
                 \/ \E q \in Events : OperatorCloses(q) \/ MatcherMatches(q)
          PROVE  sess' = sess /\ pc' = pc
      BY <2>2 DEF LockExpires, RedisFlips, OperatorCloses, MatcherMatches
    <2> QED
      BY <2>1, <2>2 DEF Environment, Crash, AboutToRecord
  <1>5. Recurred(FingerprintOf[r]) => Recurred(FingerprintOf[r])'
    BY EnvironmentCopy, RecurredStays
  <1> QED
    BY <1>2, <1>3, <1>4, <1>5

LEMMA SentInvariance ==
  ASSUME NoBucketRace, Faults \subseteq {"expiry", "operator", "matcher"}
  PROVE  Spec => []SentInv
  <1>1. Init => SentInv
    BY DEF Init, SentInv
  <1>2. /\ TypeOK /\ PipelineInv /\ WinInv /\ LockInv /\ CopyInv /\ RowInv /\ SentInv
        /\ [Next]_vars
        => SentInv'
    <2> SUFFICES ASSUME TypeOK, PipelineInv, WinInv, LockInv, CopyInv, RowInv, SentInv,
                        [Next]_vars
                 PROVE  SentInv'
      OBVIOUS
    <2>1. CASE UNCHANGED vars
      BY <2>1 DEF vars, SentInv, AboutToRecord, Recurred
    <2> QED
      BY <2>1, TaskStepSent, EnvironmentSent DEF Next
  <1>3. "redis" \notin Faults
    OBVIOUS
  <1>4. (Spec => []LockInv) /\ (Spec => []CopyInv) /\ (Spec => []RowInv)
    BY <1>3, LockInvariance, CopyInvariance, RowInvariance
  <1> QED
    BY <1>1, <1>2, <1>4, WinInvariance, PTL DEF Spec

\* A burst fires one alert for each incident: the losers of the alert lock, and
\* tasks with a copy from before the first commit, stay quiet.  An operator may
\* close incidents meanwhile; only a recurrence ends the promise.
THEOREM OneAlert ==
  ASSUME NoBucketRace, Faults \subseteq {"expiry", "operator", "matcher"}
  PROVE  Spec => []OneAlertPerIncident
  <1>1. TypeOK /\ WinInv /\ LockInv /\ SentInv => OneAlertPerIncident
    <2> SUFFICES ASSUME TypeOK, WinInv, LockInv, SentInv,
                        NEW r \in Events, NEW c \in sent[r], NEW d \in sent[r]
                 PROVE  Recurred(FingerprintOf[r]) \/ c = d
      BY DEF OneAlertPerIncident
    <2>1. c \in Tasks /\ d \in Tasks
      BY DEF TypeOK
    <2>2. ASSUME NEW o \in sent[r]
          PROVE  \/ Recurred(FingerprintOf[r])
                 \/ inc[r].ts = o
                 \/ inc[r].ts = NoTask /\ lock[FingerprintOf[r]] = o
      <3>1. CASE AboutToRecord(o, r)
        <4>1. o \in Tasks /\ SessionLock(o) /\ FingerprintOf[r] = Fp(o) /\ Holding(o)
          BY <3>1 DEF TypeOK, LockInv, WinInv, SessionWin, AboutToRecord, Holding
        <4> QED
          BY <3>1, <4>1 DEF SessionLock, AboutToRecord
      <3> QED
        BY <2>2, <3>1 DEF SentInv
    <2> QED
      BY <2>1, <2>2, NoTaskAssumption
  <1>2. "redis" \notin Faults
    OBVIOUS
  <1>3. Spec => []LockInv
    BY <1>2, LockInvariance
  <1> QED
    BY <1>1, <1>3, WinInvariance, SentInvariance, PTL

\* A confirmed alert leaves a record: when every task has ended, the incident
\* it was sent for has a benchmark timestamp, unless its fingerprint recurred.
THEOREM AlertRecorded ==
  ASSUME NoBucketRace, Faults \subseteq {"expiry", "operator", "matcher"}
  PROVE  Spec => []AlertIsRecorded
  <1>1. TypeOK /\ SentInv => AlertIsRecorded
    <2> SUFFICES ASSUME TypeOK, SentInv, Ended, NEW r \in Events, NEW c \in sent[r]
                 PROVE  inc[r].ts # NoTask \/ Recurred(FingerprintOf[r])
      BY DEF AlertIsRecorded, TypeOK
    <2>1. c \in Tasks /\ ~AboutToRecord(c, r)
      BY DEF TypeOK, Ended, Endings, AboutToRecord
    <2> QED
      BY <2>1, NoTaskAssumption DEF SentInv
  <1> QED
    BY <1>1, WinInvariance, SentInvariance, PTL

(***************************************************************************)
(* No severe event goes unanswered.  A task stays quiet about one because  *)
(* the incident has been answered already, or because another task has the *)
(* alert lock.  That task is not still at work on another row: there is    *)
(* one open row for the fingerprint and one task at a time past its flush. *)
(* So it has answered for the same row, or it died while it was alerting   *)
(* and the lock is an orphan.                                              *)
(***************************************************************************)
Answered(r) == inc[r].notif # "pending"

\* Some open row of the fingerprint has its answer.
Settled(f) == \E r \in Events : FingerprintOf[r] = f /\ IsOpen(inc[r]) /\ Answered(r)

LockMeans(f) ==
  lock[f] # NoTask => Attempting(lock[f]) \/ f \in orphans \/ Settled(f)

QuietMeans(d) ==
  pc[d] = "commit" /\ sess[d].outcome = "quiet" /\ band[EventOf[d]] # "quiet" =>
    Answered(sess[d].row) \/ EventOf[d] \in silenced

LinkMeans(e, r) ==
  links[e][r] > 0 /\ band[e] # "quiet" => Answered(r) \/ e \in silenced

AnswerInv ==
  /\ \A f \in Fingerprints : LockMeans(f)
  /\ \A d \in Tasks : QuietMeans(d)
  /\ \A e, r \in Events : LinkMeans(e, r)

\* What the other invariants say, taken together.
CalmInv ==
  /\ TypeOK /\ PipelineInv /\ WinInv /\ LockInv /\ OpenInv /\ AlertedInv /\ NotifInv
  /\ RowInv /\ LiveInv /\ RowLockInv

\* One task of a fingerprint at a time is past its flush and not yet committed.
LEMMA OneDecider ==
  ASSUME CalmInv, NEW c \in Tasks, NEW d \in Tasks,
         pc[c] \in Deciding, pc[d] \in Deciding, Fp(c) = Fp(d)
  PROVE  c = d
  <1>1. ASSUME NEW o \in Tasks, pc[o] \in Deciding
        PROVE  /\ Locked(o) /\ sess[o].row \in Events
               /\ ~sess[o].fresh => sess[o].row \in OpenRows(Fp(o))
    <2>1. ~sess[o].ghost /\ sess[o].row \in Events
      BY CopyTypes DEF CalmInv, RowInv
    <2>2. ~sess[o].fresh => IsOpen(inc[sess[o].row])
      BY <1>1, <2>1, LiveCopy DEF CalmInv, Working
    <2>3. inc[sess[o].row].fp = Fp(o)
      BY <2>1 DEF CalmInv, WinInv, SessionWin, RowWin
    <2> QED
      BY <1>1, <2>1, <2>2, <2>3 DEF Locked, OpenRows
  <1>2. CASE sess[c].fresh \/ sess[d].fresh
    BY <1>1, <1>2 DEF CalmInv, OpenInv
  <1>3. CASE ~sess[c].fresh /\ ~sess[d].fresh
    <2>1. sess[c].row = sess[d].row
      BY <1>1, <1>3 DEF CalmInv, OpenInv, OneOpenIncident, OpenRows
    <2> QED
      BY <1>1, <2>1, RowsDiffer DEF CalmInv
  <1> QED
    BY <1>2, <1>3

\* A quiet decision about a severe event.
LEMMA QuietDecision ==
  ASSUME CalmInv, AnswerInv, NEW d \in Tasks, Decide(d), pc'[d] = "commit",
         band[EventOf[d]] # "quiet"
  PROVE  Answered(sess[d].row) \/ EventOf[d] \in silenced'
  <1> DEFINE s      == sess[d]
             medium == band[EventOf[d]] = "loud"
             scored == UpdateScore(s.mem, medium)
  <1>1. /\ pc[d] = "decide" /\ s.row \in Events /\ s.mem \in Incidents
        /\ ~s.ghost /\ Fp(d) \in Fingerprints /\ medium \in BOOLEAN
    BY CopyTypes DEF CalmInv, Decide, RowInv
  <1> HIDE DEF medium
  <1>2. CASE AlreadyAlerted(scored)
    <2>1. scored.ts = s.mem.ts /\ scored.status \in {s.mem.status, "observing"}
      BY <1>1, UpdateScoreKeeps, UpdateScoreStatus
    <2> HIDE DEF scored
    <2>2. s.mem.ts # NoTask
      BY <1>2, <2>1 DEF AlreadyAlerted, CalmInv, AlertedInv, AlertedStatuses
    <2>3. inc[s.row].ts # NoTask
      BY <1>1, <2>2 DEF CalmInv, WinInv, SessionWin
    <2> QED
      BY <1>1, <2>3 DEF CalmInv, NotifInv, RowNotif, Answered
  <1>3. CASE ~AlreadyAlerted(scored)
    <2> DEFINE f == Fp(d)
    <2>1. /\ ~CanAcquire(d)
          /\ silenced' = IF f \in orphans THEN silenced \cup {EventOf[d]} ELSE silenced
      <3>1. ~Goto(d, "deliver")
        BY GotoIs DEF CalmInv
      <3> QED
        BY <1>3, <3>1 DEF Decide, scored, medium
    <2>2. lock[f] # NoTask /\ lock[f] \in Tasks /\ Fp(lock[f]) = f
      BY <1>1, <2>1 DEF CanAcquire, CalmInv, TypeOK, LockInv
    <2>3. Attempting(lock[f]) \/ f \in orphans \/ Settled(f)
      BY <1>1, <2>2 DEF AnswerInv, LockMeans
    <2>4. ~Attempting(lock[f])
      BY <1>1, <2>2, OneDecider DEF Attempting, Deciding
    <2>5. CASE Settled(f)
      <3>1. PICK r \in Events : FingerprintOf[r] = f /\ IsOpen(inc[r]) /\ Answered(r)
        BY <2>5 DEF Settled
      <3>2. inc[r].fp = f /\ inc[s.row].fp = f
        BY <1>1, <3>1 DEF CalmInv, WinInv, SessionWin, RowWin
      <3>3. ~s.fresh
        BY <3>1, <3>2 DEF CalmInv, OpenInv, OpenRows
      <3>4. IsOpen(inc[s.row])
        BY <1>1, <3>3, LiveCopy DEF CalmInv, Working, Deciding
      <3>5. s.row = r
        BY <1>1, <3>1, <3>2, <3>4 DEF CalmInv, OpenInv, OneOpenIncident
      <3> QED
        BY <3>1, <3>5
    <2> QED
      BY <2>1, <2>3, <2>4, <2>5
  <1> QED
    BY <1>2, <1>3

\* A commit answers for its row if the copy does, and takes no answer back.
LEMMA CommitAnswers ==
  ASSUME CalmInv, NEW d \in Tasks, Commit(d) \/ CommitEnrichment(d)
  PROVE  /\ \A q \in Events : Answered(q) => Answered(q)'
         /\ \A q \in Events : IsOpen(inc[q]) => IsOpen(inc'[q])
         /\ IsOpen(inc'[sess[d].row])
         /\ sess[d].mem.notif # "pending" => inc'[sess[d].row].notif # "pending"
  <1> DEFINE r == sess[d].row
             x == RowToWrite(d)
  <1>1. pc[d] \in {"commit", "commit_enrich"} /\ Writes(d) /\ ~sess[d].ghost
    BY CommitShape, CommitEnrichmentShape DEF CalmInv, RowInv
  <1>2. /\ inc[r].notif # "pending" => x.notif # "pending"
        /\ sess[d].mem.notif # "pending" => x.notif # "pending"
    BY <1>1, RowToWriteNotif DEF CalmInv
  <1>3. inc'[r] = x /\ \A q \in Events \ {r} : inc'[q] = inc[q]
    BY <1>1 DEF Writes
  <1> HIDE DEF x
  <1>4. /\ \A q \in Events : Answered(q) => Answered(q)'
        /\ sess[d].mem.notif # "pending" => inc'[r].notif # "pending"
    BY <1>2, <1>3 DEF Answered
  <1>5. /\ \A q \in Events : IsOpen(inc[q]) => IsOpen(inc'[q])
        /\ ~sess[d].ghost => IsOpen(inc'[r])
    BY CommitLive DEF CalmInv
  <1> QED
    BY <1>1, <1>4, <1>5

\* Answers and open rows stay, and so does what the record of silence says.
Lasting ==
  /\ \A q \in Events : Answered(q) => Answered(q)'
  /\ \A q \in Events : IsOpen(inc[q]) => IsOpen(inc'[q])
  /\ silenced \subseteq silenced'
  /\ \A f \in Fingerprints : f \in orphans /\ lock'[f] # NoTask => f \in orphans'
  /\ band' = band

LEMMA StepSilences ==
  ASSUME NEW d \in Tasks, TaskStep(d)
  PROVE  /\ orphans' = orphans \/ OrphansStay
         /\ silenced \subseteq silenced'
  <1> USE DEF redis
  <1>1. CASE Decide(d)
    BY <1>1 DEF Decide
  <1>2. CASE CommitFails(d) \/ ReleaseLock(d)
    BY <1>2 DEF CommitFails, ReleaseLock
  <1> QED
    BY <1>1, <1>2
    DEF TaskStep, SelectRaw, InsertRaw, FindIncident, InsertIncident,
        ReselectIncident, SaveNormalized, SelectBucket, InsertBucket, Deliver,
        Commit, Enrich, CommitEnrichment, EnrichmentLost, DatabaseError, RetryOrDrop

LEMMA TaskStepLasting ==
  ASSUME CalmInv, NEW d \in Tasks, TaskStep(d)
  PROVE  Lasting /\ Others(d)
  <1>1. TypeOK /\ PipelineInv
    BY DEF CalmInv
  <1>2. Others(d) /\ band' = band
    BY <1>1, StepShape, CommitShape, CommitEnrichmentShape
  <1>3. /\ \A q \in Events : Answered(q) => Answered(q)'
        /\ \A q \in Events : IsOpen(inc[q]) => IsOpen(inc'[q])
    <2>1. CASE Commit(d) \/ CommitEnrichment(d)
      BY <2>1, CommitAnswers
    <2>2. CASE inc' = inc
      BY <2>2 DEF Answered
    <2> QED
      BY <1>1, <2>1, <2>2, StepShape
  <1> QED
    BY <1>2, <1>3, StepSilences DEF Lasting, OrphansStay

LEMMA SettledLasts ==
  ASSUME Lasting, NEW f, Settled(f)
  PROVE  Settled(f)'
  BY DEF Settled, Lasting

LEMMA TaskStepLockMeans ==
  ASSUME CalmInv, AnswerInv, WinInv', NEW d \in Tasks, TaskStep(d), NEW f \in Fingerprints
  PROVE  LockMeans(f)'
  <1> SUFFICES ASSUME lock'[f] # NoTask
               PROVE  (Attempting(lock[f]) \/ f \in orphans \/ Settled(f))'
    BY DEF LockMeans
  <1>1. Lasting /\ Others(d) /\ redisUp /\ TypeOK
    BY TaskStepLasting DEF CalmInv, LockInv
  <1>2. CASE lock'[f] # lock[f]
    <2>1. /\ lock' = [lock EXCEPT ![Fp(d)] = d] /\ pc'[d] = "deliver"
          /\ f = Fp(d)
      BY <1>1, <1>2, StepLocks DEF TypeOK
    <2>2. lock'[f] = d
      BY <1>1, <2>1 DEF TypeOK
    <2> QED
      BY <2>1, <2>2 DEF Attempting
  <1>3. CASE lock'[f] = lock[f] /\ lock[f] # d
    <2>1. lock[f] \in Tasks /\ (Attempting(lock[f]) \/ f \in orphans \/ Settled(f))
      BY <1>1, <1>3 DEF AnswerInv, LockMeans, TypeOK
    <2>2. Attempting(lock[f]) => Attempting(lock[f])'
      BY <1>1, <1>3, <2>1 DEF Attempting, Others
    <2>3. f \in orphans => f \in orphans'
      BY <1>1 DEF Lasting
    <2> QED
      BY <1>1, <2>1, <2>2, <2>3, SettledLasts
  <1>4. CASE lock'[f] = d /\ lock[f] = d
    <2>1. Fp(d) = f /\ (Attempting(d) \/ f \in orphans \/ Settled(f)) /\ d # NoTask
      BY <1>4, NoTaskAssumption DEF AnswerInv, LockMeans, CalmInv, LockInv
    <2>2. CASE pc[d] = "deliver"
      <3>1. Delivers(d)
        BY <1>1, <2>2, StepFrom, DeliverShape
      <3>2. pc'[d] = "commit" /\ sess'[d].outcome # "quiet"
        BY <3>1 DEF Delivers
      <3> QED
        BY <1>4, <3>2 DEF Attempting
    <2>3. CASE pc[d] = "commit" /\ sess[d].outcome # "quiet"
      <3>1. ~CommitFails(d)
        <4>1. CommitFails(d) => lock' = [lock EXCEPT ![f] = NoTask]
          BY <1>1, <2>1, <2>3 DEF CommitFails, Unlocked
        <4> QED
          BY <1>1, <1>4, <2>1, <4>1 DEF TypeOK
      <3>2. Commit(d)
        BY <2>3, <3>1, StepFrom
      <3>3. sess[d].mem.notif # "pending"
        BY <2>3 DEF CalmInv, NotifInv, SessionNotif
      <3>4. /\ sess[d].row \in Events /\ FingerprintOf[sess[d].row] = f
            /\ IsOpen(inc'[sess[d].row]) /\ inc'[sess[d].row].notif # "pending"
        BY <1>1, <2>1, <3>2, <3>3, CommitAnswers, CopyTypes DEF CalmInv, WinInv, SessionWin
      <3>5. Settled(f)'
        BY <3>4 DEF Settled, Answered
      <3> QED
        BY <3>5
    <2>4. CASE f \in orphans
      BY <1>1, <2>4 DEF Lasting
    <2>5. CASE Settled(f)
      BY <1>1, <2>5, SettledLasts
    <2> QED
      BY <2>1, <2>2, <2>3, <2>4, <2>5 DEF Attempting
  <1> QED
    BY <1>2, <1>3, <1>4

LEMMA TaskStepQuietMeans ==
  ASSUME CalmInv, AnswerInv, NEW d \in Tasks, TaskStep(d), NEW c \in Tasks
  PROVE  QuietMeans(c)'
  <1> SUFFICES ASSUME pc'[c] = "commit", sess'[c].outcome = "quiet",
                      band'[EventOf[c]] # "quiet"
               PROVE  Answered(sess[c].row)' \/ EventOf[c] \in silenced'
    BY DEF QuietMeans
  <1>1. Lasting /\ Others(d) /\ sess[c].row \in Events
    BY TaskStepLasting, CopyTypes DEF CalmInv
  <1>2. /\ sess'[c].row = sess[c].row
        /\ Answered(sess[c].row) \/ EventOf[c] \in silenced'
    <2>1. CASE c # d
      BY <1>1, <2>1 DEF Others, AnswerInv, QuietMeans, Lasting
    <2>2. CASE c = d
      <3>1. Decides(d)
        <4>1. ~Commit(d) /\ ~CommitEnrichment(d)
          BY <2>2, CommitShape, CommitEnrichmentShape DEF CalmInv, Leaves, Settles, Idle
        <4> QED
          BY <2>2, <4>1, StepShape
          DEF CalmInv, Shape, Leaves, Keeps, Loads, Creates, Haunts, Delivers, Enriches,
              Idle, Recording
      <3>2. Decide(d)
        BY <2>2, <3>1, StepFrom, GotoIs DEF Decides, DatabaseError, CalmInv
      <3> QED
        BY <1>1, <2>2, <3>1, <3>2, QuietDecision DEF Decides, Marks, Lasting
    <2> QED
      BY <2>1, <2>2
  <1> QED
    BY <1>1, <1>2 DEF Lasting, Answered

LEMMA TaskStepLinkMeans ==
  ASSUME CalmInv, AnswerInv, NEW d \in Tasks, TaskStep(d), NEW e \in Events, NEW r \in Events
  PROVE  LinkMeans(e, r)'
  <1> SUFFICES ASSUME links'[e][r] > 0, band'[e] # "quiet"
               PROVE  Answered(r)' \/ e \in silenced'
    BY DEF LinkMeans
  <1>1. Lasting /\ TypeOK
    BY TaskStepLasting DEF CalmInv
  <1>2. CASE links'[e][r] = links[e][r]
    <2>1. Answered(r) \/ e \in silenced
      BY <1>1, <1>2 DEF AnswerInv, LinkMeans, Lasting
    <2> QED
      BY <1>1, <2>1 DEF Lasting
  <1>3. CASE links'[e][r] # links[e][r]
    <2>1. Commit(d) /\ e = EventOf[d] /\ r = sess[d].row
      BY <1>1, <1>3, StepLinks
    <2>2. pc[d] = "commit" /\ FingerprintOf[r] = Fp(d)
      BY <2>1 DEF Commit, CalmInv, WinInv, SessionWin
    <2>3. CASE sess[d].outcome = "quiet"
      <3>1. Answered(r) \/ e \in silenced
        BY <1>1, <2>1, <2>2, <2>3 DEF AnswerInv, QuietMeans, Lasting
      <3> QED
        BY <1>1, <2>2, <3>1 DEF Lasting
    <2>4. CASE sess[d].outcome # "quiet"
      <3>1. sess[d].mem.notif # "pending"
        BY <2>2, <2>4 DEF CalmInv, NotifInv, SessionNotif
      <3> QED
        BY <2>1, <3>1, CommitAnswers DEF Answered
    <2> QED
      BY <2>3, <2>4
  <1> QED
    BY <1>2, <1>3

\* A task that dies while alerting leaves its lock an orphan.
LEMMA CrashAnswers ==
  ASSUME CalmInv, AnswerInv, NEW d \in Tasks, Crash(d) \/ Redeliver(d)
  PROVE  AnswerInv'
  <1>1. /\ TypeOK /\ PipelineInv /\ inc' = inc /\ band' = band
        /\ lock' = lock /\ links' = links /\ Others(d) /\ silenced' = silenced
        /\ orphans \subseteq orphans' /\ pc'[d] \in {"unacked", "lost", "queued"}
    BY CrashShape, GotoIs DEF CalmInv, Crash, Redeliver, database, redis
  <1>2. ASSUME NEW f \in Fingerprints, lock[f] = d, Attempting(d)
        PROVE  f \in orphans'
    <2>1. Fp(d) = f
      BY <1>2, NoTaskAssumption DEF CalmInv, LockInv
    <2>2. ~Redeliver(d)
      BY <1>2 DEF Redeliver, Attempting
    <2> QED
      BY <1>2, <2>1, <2>2 DEF Crash
  <1>3. ASSUME NEW f \in Fingerprints
        PROVE  LockMeans(f)'
    <2> SUFFICES ASSUME lock[f] # NoTask
                 PROVE  (Attempting(lock[f]) \/ f \in orphans \/ Settled(f))'
      BY <1>1 DEF LockMeans
    <2>1. lock[f] \in Tasks /\ (Attempting(lock[f]) \/ f \in orphans \/ Settled(f))
      BY <1>1 DEF AnswerInv, LockMeans, TypeOK
    <2>2. CASE Attempting(lock[f])
      <3>1. CASE lock[f] = d
        BY <1>2, <2>2, <3>1
      <3>2. CASE lock[f] # d
        BY <1>1, <2>1, <2>2, <3>2 DEF Others, Attempting
      <3> QED
        BY <3>1, <3>2
    <2>3. Settled(f) => Settled(f)'
      BY <1>1 DEF Settled, Answered
    <2> QED
      BY <1>1, <2>1, <2>2, <2>3
  <1>4. ASSUME NEW c \in Tasks
        PROVE  QuietMeans(c)'
    <2>1. CASE c = d
      BY <1>1, <2>1 DEF QuietMeans
    <2>2. CASE c # d
      BY <1>1, <2>2 DEF AnswerInv, QuietMeans, Others, Answered
    <2> QED
      BY <2>1, <2>2
  <1>5. \A e, r \in Events : LinkMeans(e, r)'
    BY <1>1 DEF AnswerInv, LinkMeans, Answered
  <1> QED
    BY <1>3, <1>4, <1>5 DEF AnswerInv

\* A lock that expires is no lock any more; those of other fingerprints stay.
LEMMA ExpiryAnswers ==
  ASSUME CalmInv, AnswerInv, NEW g \in Fingerprints, LockExpires(g)
  PROVE  AnswerInv'
  <1>1. /\ TypeOK /\ inc' = inc /\ band' = band /\ links' = links /\ pc' = pc
        /\ sess' = sess /\ silenced' = silenced
        /\ lock' = [lock EXCEPT ![g] = NoTask]
        /\ \A f \in Fingerprints : f \in orphans /\ lock'[f] # NoTask => f \in orphans'
    BY DEF CalmInv, LockExpires, OrphansStay, database
  <1>2. ASSUME NEW f \in Fingerprints
        PROVE  LockMeans(f)'
    <2>1. Settled(f) => Settled(f)'
      BY <1>1 DEF Settled, Answered
    <2>2. lock'[f] # NoTask => lock'[f] = lock[f]
      BY <1>1 DEF TypeOK
    <2> QED
      BY <1>1, <2>1, <2>2 DEF AnswerInv, LockMeans, Attempting
  <1>3. \A d \in Tasks : QuietMeans(d)'
    BY <1>1 DEF AnswerInv, QuietMeans, Answered
  <1>4. \A e, r \in Events : LinkMeans(e, r)'
    BY <1>1 DEF AnswerInv, LinkMeans, Answered
  <1> QED
    BY <1>2, <1>3, <1>4 DEF AnswerInv

LEMMA MatcherAnswers ==
  ASSUME CalmInv, AnswerInv, "operator" \notin Faults, NEW r \in Events, MatcherMatches(r)
  PROVE  AnswerInv'
  <1>1. /\ TypeOK /\ band' = band /\ lock' = lock /\ links' = links
        /\ pc' = pc /\ sess' = sess /\ orphans' = orphans /\ silenced' = silenced
        /\ \A q \in Events : inc'[q].notif = inc[q].notif
    BY StatusWritten DEF CalmInv, MatcherMatches, redis
  <1>2. \A q \in Events : IsOpen(inc[q]) => IsOpen(inc'[q])
    BY EnvironmentLive DEF CalmInv, Environment
  <1>3. \A q \in Events : Answered(q) <=> Answered(q)'
    BY <1>1 DEF Answered
  <1>4. \A f \in Fingerprints : LockMeans(f)'
    <2>1. \A f : Settled(f) => Settled(f)'
      BY <1>2, <1>3 DEF Settled
    <2> QED
      BY <1>1, <2>1 DEF AnswerInv, LockMeans, Attempting
  <1>5. \A d \in Tasks : QuietMeans(d)'
    BY <1>1, <1>3, CopyTypes DEF AnswerInv, QuietMeans, Answered
  <1>6. \A e, q \in Events : LinkMeans(e, q)'
    BY <1>1, <1>3 DEF AnswerInv, LinkMeans
  <1> QED
    BY <1>4, <1>5, <1>6 DEF AnswerInv

LEMMA AnswerInvariance ==
  ASSUME NoBucketRace, Faults \subseteq {"db", "crash", "expiry", "matcher"}
  PROVE  Spec => [](CalmInv /\ AnswerInv)
  <1>1. Init => AnswerInv
    BY PipelineAssumption
    DEF Init, AnswerInv, LockMeans, QuietMeans, LinkMeans
  <1>2. CalmInv /\ CalmInv' /\ AnswerInv /\ [Next]_vars => AnswerInv'
    <2> SUFFICES ASSUME CalmInv, CalmInv', AnswerInv, [Next]_vars
                 PROVE  AnswerInv'
      OBVIOUS
    <2>1. CASE UNCHANGED vars
      BY <2>1
      DEF vars, AnswerInv, LockMeans, QuietMeans, LinkMeans, Attempting, Settled,
          Answered
    <2>2. ASSUME NEW d \in Tasks, TaskStep(d)
          PROVE  AnswerInv'
      <3>1. WinInv'
        BY DEF CalmInv
      <3> QED
        BY <2>2, <3>1, TaskStepLockMeans, TaskStepQuietMeans, TaskStepLinkMeans
        DEF AnswerInv
    <2>3. ASSUME Environment
          PROVE  AnswerInv'
      BY <2>3, CrashAnswers, ExpiryAnswers, MatcherAnswers
      DEF Environment, RedisFlips, OperatorCloses
    <2> QED
      BY <2>1, <2>2, <2>3 DEF Next
  <1>3. "redis" \notin Faults /\ "operator" \notin Faults
    OBVIOUS
  <1>4. /\ Spec => []LockInv
        /\ Spec => []NotifInv
        /\ Spec => []LiveInv
        /\ Spec => []RowInv
    BY <1>3, LockInvariance, NotifInvariance, LiveInvariance, RowInvariance
  <1>5. Spec => []CalmInv
    BY <1>4, WinInvariance, OpenInvariance, AlertedInvariance, RowLockInvariance, PTL
    DEF CalmInv
  <1> QED
    BY <1>1, <1>2, <1>5, PTL DEF Spec

\* An incident holding a committed event above the alert threshold has been
\* alerted or every channel failed for it, whatever commits fail, tasks die and
\* locks expire.  The one exception is an event that met the lock of a task that
\* had died while it was alerting.
THEOREM SevereAnswered ==
  ASSUME NoBucketRace, Faults \subseteq {"db", "crash", "expiry", "matcher"}
  PROVE  Spec => []SevereEventAnswered
  <1>1. CalmInv /\ AnswerInv => SevereEventAnswered
    <2> SUFFICES ASSUME CalmInv, AnswerInv, NEW e \in Events, NEW r \in Events,
                        links[e][r] > 0, band[e] # "quiet", e \notin silenced
                 PROVE  inc[r].ts # NoTask \/ inc[r].notif = "failed"
      BY DEF SevereEventAnswered
    <2>1. inc[r].notif \in {"pending", "delivered", "failed"} /\ RowNotif(r)
      <3>1. inc[r] \in Incidents
        BY DEF CalmInv, TypeOK
      <3> QED
        BY <3>1 DEF Incidents, CalmInv, NotifInv
    <2>2. Answered(r)
      BY DEF AnswerInv, LinkMeans
    <2> QED
      BY <2>1, <2>2 DEF Answered, RowNotif
  <1> QED
    BY <1>1, AnswerInvariance, PTL
=============================================================================
