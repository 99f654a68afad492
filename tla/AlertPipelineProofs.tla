------------------------ MODULE AlertPipelineProofs ------------------------
(***************************************************************************)
(* Theorems about AlertPipeline, for any number of tasks, events and       *)
(* fingerprints, any number of retries and every combination of faults:    *)
(* types, and that each event is recorded exactly once, however often it   *)
(* is delivered and wherever its tasks fail.                               *)
(***************************************************************************)
EXTENDS AlertPipeline, TLAPS

(***************************************************************************)
(* What the lifecycle operators return.                                    *)
(***************************************************************************)

LEMMA TransitionKeeps ==
  ASSUME NEW i \in Incidents, NEW s \in Statuses
  PROVE  /\ Transition(i, s) \in Incidents
         /\ Transition(i, s).fp = i.fp
         /\ Transition(i, s).ts = i.ts
         /\ Transition(i, s).enriched = i.enriched
  BY DEF Transition, Incidents, Statuses, LiveStatuses, ClosedStatuses

LEMMA FreshRows ==
  ASSUME NEW f \in Fingerprints
  PROVE  /\ NewIncident(f) \in Incidents
         /\ NoIncident(f) \in Incidents
         /\ NewIncident(f).fp = f /\ NewIncident(f).ts = NoTask
         /\ NoIncident(f).fp = f /\ NoIncident(f).ts = NoTask
         /\ NewIncident(f).enriched = FALSE /\ NoIncident(f).enriched = FALSE
  BY DEF NewIncident, NoIncident, Incidents, Statuses, LiveStatuses, ClosedStatuses

LEMMA AbsorbKeeps ==
  ASSUME NEW i \in Incidents
  PROVE  /\ Absorb(i) \in Incidents
         /\ Absorb(i).fp = i.fp
         /\ Absorb(i).ts = i.ts
         /\ Absorb(i).enriched = i.enriched
  BY DEF Absorb, Incidents

LEMMA UpdateScoreKeeps ==
  ASSUME NEW i \in Incidents, NEW m \in BOOLEAN
  PROVE  /\ UpdateScore(i, m) \in Incidents
         /\ UpdateScore(i, m).fp = i.fp
         /\ UpdateScore(i, m).ts = i.ts
         /\ UpdateScore(i, m).enriched = i.enriched
  BY DEF UpdateScore, Incidents, Statuses, LiveStatuses, ClosedStatuses

LEMMA MarkDetectedKeeps ==
  ASSUME NEW i \in Incidents
  PROVE  /\ MarkDetected(i) \in Incidents
         /\ MarkDetected(i).fp = i.fp
         /\ MarkDetected(i).ts = i.ts
         /\ MarkDetected(i).enriched = i.enriched
  BY TransitionKeeps DEF MarkDetected, Statuses, LiveStatuses

LEMMA MarkDeliveredSets ==
  ASSUME NEW i \in Incidents, NEW d \in Tasks
  PROVE  /\ MarkDelivered(i, d) \in Incidents
         /\ MarkDelivered(i, d).fp = i.fp
         /\ MarkDelivered(i, d).ts = d
         /\ MarkDelivered(i, d).enriched = i.enriched
  <1> DEFINE j == [i EXCEPT !.ts = d, !.notif = "delivered"]
  <1>1. j \in Incidents /\ j.fp = i.fp /\ j.ts = d /\ j.enriched = i.enriched
    BY DEF Incidents
  <1>2. "alerted" \in Statuses
    BY DEF Statuses, LiveStatuses
  <1> QED
    BY <1>1, <1>2, TransitionKeeps DEF MarkDelivered

LEMMA MarkFailedKeeps ==
  ASSUME NEW i \in Incidents
  PROVE  /\ MarkFailed(i) \in Incidents
         /\ MarkFailed(i).fp = i.fp
         /\ MarkFailed(i).ts = i.ts
         /\ MarkFailed(i).enriched = i.enriched
  <1> DEFINE j == [i EXCEPT !.notif = "failed"]
  <1>1. j \in Incidents /\ j.fp = i.fp /\ j.ts = i.ts /\ j.enriched = i.enriched
    BY DEF Incidents
  <1>2. "notification_failed" \in Statuses
    BY DEF Statuses, LiveStatuses
  <1> QED
    BY <1>1, <1>2, TransitionKeeps DEF MarkFailed

LEMMA MarkEnrichedSets ==
  ASSUME NEW i \in Incidents
  PROVE  /\ MarkEnriched(i) \in Incidents
         /\ MarkEnriched(i).fp = i.fp
         /\ MarkEnriched(i).ts = i.ts
         /\ MarkEnriched(i).enriched
  <1> DEFINE j == [i EXCEPT !.enriched = TRUE]
  <1>1. j \in Incidents /\ j.fp = i.fp /\ j.ts = i.ts /\ j.enriched
    BY DEF Incidents
  <1>2. "enriched" \in Statuses
    BY DEF Statuses, LiveStatuses
  <1> QED
    BY <1>1, <1>2, TransitionKeeps DEF MarkEnriched

LEMMA NoSessionType ==
  ASSUME NEW d \in Tasks
  PROVE  NoSession(d) \in Sessions
  BY FreshRows, PipelineAssumption DEF NoSession, Sessions, Fp

LEMMA SessionMem ==
  ASSUME NEW s \in Sessions, NEW m \in Incidents
  PROVE  [s EXCEPT !.mem = m] \in Sessions
  BY DEF Sessions

LEMMA SessionOutcome ==
  ASSUME NEW s \in Sessions, NEW m \in Incidents,
         NEW o \in {"none", "quiet", "failed", "delivered"}
  PROVE  [s EXCEPT !.mem = m, !.outcome = o] \in Sessions
  BY DEF Sessions

LEMMA SessionLoaded ==
  ASSUME NEW s \in Sessions, NEW m \in Incidents, NEW b \in Incidents,
         NEW r \in Events
  PROVE  [s EXCEPT !.row = r, !.base = b, !.mem = m] \in Sessions
  BY DEF Sessions

LEMMA FlushedType ==
  ASSUME NEW c \in Incidents, NEW b \in Incidents, NEW m \in Incidents
  PROVE  Flushed(c, b, m) \in Incidents
  BY DEF Flushed, Column, Incidents

LEMMA RowToWriteType ==
  ASSUME TypeOK, NEW d \in Tasks
  PROVE  RowToWrite(d) \in Incidents
  BY FlushedType DEF TypeOK, RowToWrite, Sessions

(***************************************************************************)
(* Type correctness.                                                       *)
(***************************************************************************)

LEMMA GotoType ==
  ASSUME TypeOK, NEW d \in Tasks, NEW to \in Controls, Goto(d, to)
  PROVE  pc' \in [Tasks -> Controls]
  BY DEF TypeOK, Goto

LEMMA SessionType ==
  ASSUME TypeOK, NEW d \in Tasks, NEW s \in Sessions, Session(d, s)
  PROVE  sess' \in [Tasks -> Sessions]
  BY DEF TypeOK, Session

LEMMA FinishType ==
  ASSUME TypeOK, NEW d \in Tasks, Finish(d)
  PROVE  /\ pc' \in [Tasks -> Controls]
         /\ sess' \in [Tasks -> Sessions]
  BY GotoType, SessionType, NoSessionType DEF Finish, Controls, Endings

LEMMA FreeLocksType ==
  ASSUME TypeOK, NEW d \in Tasks, FreeLocks(d)
  PROVE  /\ rowLock' \in [Events -> Tasks \cup {NoTask}]
         /\ cellLock' \in Tasks \cup {NoTask}
  BY DEF TypeOK, FreeLocks

LEMMA WriteRowType ==
  ASSUME TypeOK, NEW d \in Tasks, WriteRow(d)
  PROVE  inc' \in [Events -> Incidents]
  BY RowToWriteType DEF TypeOK, WriteRow

LEMMA UnlockedType ==
  ASSUME TypeOK, NEW d \in Tasks
  PROVE  Unlocked(d) \in [Fingerprints -> Tasks \cup {NoTask}]
  BY DEF TypeOK, Unlocked

LEMMA AbsorbType ==
  ASSUME TypeOK, NEW d \in Tasks, NEW r \in Events, AbsorbInto(d, r)
  PROVE  /\ pc' \in [Tasks -> Controls]
         /\ sess' \in [Tasks -> Sessions]
  <1>1. inc[r] \in Incidents
    BY DEF TypeOK
  <1>2. sess[d] \in Sessions
    BY DEF TypeOK
  <1>3. Absorb(inc[r]) \in Incidents
    BY <1>1, AbsorbKeeps
  <1>4. [sess[d] EXCEPT !.row = r, !.base = inc[r],
                        !.mem = Absorb(inc[r])] \in Sessions
    BY <1>1, <1>2, <1>3, SessionLoaded
  <1>5. sess' \in [Tasks -> Sessions]
    BY <1>4, SessionType DEF AbsorbInto
  <1>6. pc' \in [Tasks -> Controls]
    BY GotoType DEF AbsorbInto, Controls, Endings, Running
  <1> QED
    BY <1>5, <1>6

LEMMA OrphansType ==
  ASSUME TypeOK, OrphansStay
  PROVE  orphans' \subseteq Fingerprints
  BY DEF TypeOK, OrphansStay

\* The step of a task keeps every variable in its type.
LEMMA TaskStepType ==
  ASSUME TypeOK, NEW d \in Tasks, TaskStep(d)
  PROVE  TypeOK'
  <1> USE DEF database, locks, redis
  <1>1. CASE SelectRaw(d)
    <2>1. AfterSelectRaw(EventOf[d]) \in Controls
      BY DEF AfterSelectRaw, Controls, Endings, Running
    <2>2. pc' \in [Tasks -> Controls]
      BY <1>1, <2>1, GotoType DEF SelectRaw
    <2>3. [NoSession(d) EXCEPT !.rawRow = "reused"] \in Sessions
      BY NoSessionType DEF Sessions
    <2>4. sess' \in [Tasks -> Sessions]
      BY <1>1, <2>3, NoSessionType, SessionType DEF SelectRaw
    <2> QED
      BY <1>1, <2>2, <2>4 DEF SelectRaw, TypeOK
  <1>2. CASE InsertRaw(d)
    <2>1. pc' \in [Tasks -> Controls]
      BY <1>2, GotoType DEF InsertRaw, Controls, Endings, Running
    <2>2. [sess[d] EXCEPT !.rawRow = "new"] \in Sessions
      BY DEF TypeOK, Sessions
    <2>3. sess' \in [Tasks -> Sessions]
      BY <1>2, <2>2, SessionType DEF InsertRaw, TypeOK
    <2>4. raw' \in [Events -> {"absent", "saved", "processed"}]
      BY <1>2 DEF InsertRaw, TypeOK
    <2> QED
      BY <1>2, <2>1, <2>3, <2>4 DEF InsertRaw, TypeOK
  <1>3. CASE FindIncident(d)
    <2>1. CASE \E r \in OpenRows(Fp(d)) : AbsorbInto(d, r)
      BY <1>3, <2>1, AbsorbType DEF FindIncident, OpenRows, TypeOK
    <2>2. CASE Goto(d, "insert") /\ UNCHANGED sess
      BY <1>3, <2>2, GotoType DEF FindIncident, TypeOK, Controls, Endings, Running
    <2> QED
      BY <1>3, <2>1, <2>2 DEF FindIncident
  <1>4. CASE InsertIncident(d)
    <2>1. pc' \in [Tasks -> Controls]
      BY <1>4, GotoType DEF InsertIncident, Controls, Endings, Running
    <2>2. Fp(d) \in Fingerprints /\ EventOf[d] \in Events
      BY PipelineAssumption DEF Fp
    <2>3. [sess[d] EXCEPT !.rawRow = RolledBack(@)] \in Sessions
      BY DEF TypeOK, Sessions, RolledBack
    <2>4. [sess[d] EXCEPT !.row = EventOf[d], !.fresh = TRUE,
             !.mem = NewIncident(Fp(d)), !.base = NoIncident(Fp(d))] \in Sessions
      <3>1. NewIncident(Fp(d)) \in Incidents /\ NoIncident(Fp(d)) \in Incidents
        BY <2>2, FreshRows
      <3> QED
        BY <2>2, <3>1 DEF TypeOK, Sessions
    <2>5. sess' \in [Tasks -> Sessions]
      BY <1>4, <2>3, <2>4, SessionType DEF InsertIncident
    <2>6. rowLock' \in [Events -> Tasks \cup {NoTask}]
      BY <1>4, <2>2 DEF InsertIncident, TypeOK
    <2> QED
      BY <1>4, <2>1, <2>5, <2>6 DEF InsertIncident, TypeOK
  <1>5. CASE ReselectIncident(d)
    <2>1. CASE \E r \in OpenRows(Fp(d)) : AbsorbInto(d, r)
      BY <1>5, <2>1, AbsorbType DEF ReselectIncident, OpenRows, TypeOK
    <2>2. CASE Goto(d, "raise") /\ UNCHANGED sess
      BY <1>5, <2>2, GotoType DEF ReselectIncident, TypeOK, Controls, Endings, Running
    <2> QED
      BY <1>5, <2>1, <2>2 DEF ReselectIncident
  <1>6. CASE SaveNormalized(d)
    <2>1. pc' \in [Tasks -> Controls]
      BY <1>6, GotoType DEF SaveNormalized, Controls, Endings, Running
    <2>2. rowLock' \in [Events -> Tasks \cup {NoTask}]
      BY <1>6 DEF SaveNormalized, TypeOK, Sessions
    <2> QED
      BY <1>6, <2>1, <2>2 DEF SaveNormalized, TypeOK
  <1>7. CASE SelectBucket(d)
    <2>1. pc' \in [Tasks -> Controls]
      BY <1>7, GotoType DEF SelectBucket, Controls, Endings, Running
    <2> QED
      BY <1>7, <2>1 DEF SelectBucket, TypeOK
  <1>8. CASE InsertBucket(d)
    <2>1. pc' \in [Tasks -> Controls]
      BY <1>8, GotoType DEF InsertBucket, Controls, Endings, Running
    <2>2. [sess[d] EXCEPT !.fresh = FALSE, !.ghost = TRUE,
                          !.rawRow = RolledBack(@)] \in Sessions
      BY DEF TypeOK, Sessions, RolledBack
    <2>3. sess' \in [Tasks -> Sessions]
      BY <1>8, <2>2, SessionType DEF InsertBucket, TypeOK
    <2>4. rowLock' \in [Events -> Tasks \cup {NoTask}]
      BY <1>8 DEF InsertBucket, TypeOK, Sessions
    <2>5. cellLock' \in Tasks \cup {NoTask}
      BY <1>8 DEF InsertBucket, TypeOK
    <2> QED
      BY <1>8, <2>1, <2>3, <2>4, <2>5 DEF InsertBucket, TypeOK
  <1>9. CASE Decide(d)
    <2> DEFINE scored == UpdateScore(sess[d].mem, band[EventOf[d]] = "loud")
    <2>1. pc' \in [Tasks -> Controls]
      BY <1>9, GotoType DEF Decide, Controls, Endings, Running
    <2>2. scored \in Incidents
      BY UpdateScoreKeeps DEF TypeOK, Sessions
    <2>3. /\ [sess[d] EXCEPT !.mem = scored, !.outcome = "quiet"] \in Sessions
          /\ [sess[d] EXCEPT !.mem = scored] \in Sessions
      BY <2>2 DEF TypeOK, Sessions
    <2>4. sess' \in [Tasks -> Sessions]
      BY <1>9, <2>3, SessionType DEF Decide
    <2>5. lock' \in [Fingerprints -> Tasks \cup {NoTask}]
      BY <1>9 DEF Decide, TypeOK
    <2>6. silenced' \subseteq Events
      BY <1>9, PipelineAssumption DEF Decide, TypeOK
    <2> QED
      BY <1>9, <2>1, <2>4, <2>5, <2>6 DEF Decide, TypeOK
  <1>10. CASE Deliver(d)
    <2> DEFINE detected == MarkDetected(sess[d].mem)
    <2>1. pc' \in [Tasks -> Controls]
      BY <1>10, GotoType DEF Deliver, Controls, Endings, Running
    <2>2. sess[d] \in Sessions /\ detected \in Incidents
      BY MarkDetectedKeeps DEF TypeOK, Sessions
    <2>6. MarkDelivered(detected, d) \in Incidents /\ MarkFailed(detected) \in Incidents
      BY <2>2, MarkDeliveredSets, MarkFailedKeeps
    <2>3. /\ [sess[d] EXCEPT !.mem = MarkDelivered(detected, d),
                             !.outcome = "delivered"] \in Sessions
          /\ [sess[d] EXCEPT !.mem = MarkFailed(detected),
                             !.outcome = "failed"] \in Sessions
      BY <2>2, <2>6, SessionOutcome
    <2>4. sess' \in [Tasks -> Sessions]
      BY <1>10, <2>3, SessionType DEF Deliver
    <2>5. sent' \in [Events -> SUBSET Tasks]
      <3>1. sent' = [sent EXCEPT ![sess[d].row] = @ \cup {d}] \/ sent' = sent
        BY <1>10 DEF Deliver
      <3> QED
        BY <3>1 DEF TypeOK
    <2>7. UNCHANGED <<inc, raw, links, cell, rowLock, cellLock, lock, orphans, silenced,
                      redisUp, band, tries>>
      BY <1>10 DEF Deliver
    <2> QED
      BY <2>1, <2>4, <2>5, <2>7 DEF TypeOK
  <1>11. CASE Commit(d)
    <2>1. /\ inc' \in [Events -> Incidents]
          /\ rowLock' \in [Events -> Tasks \cup {NoTask}]
          /\ cellLock' \in Tasks \cup {NoTask}
      BY <1>11, WriteRowType, FreeLocksType DEF Commit
    <2>2. [sess[d] EXCEPT !.base = sess[d].mem, !.fresh = FALSE,
                          !.rawRow = "none"] \in Sessions
      BY DEF TypeOK, Sessions
    <2>3. AfterOutcome(sess[d].outcome) \in Controls
      BY DEF AfterOutcome, Controls, Endings, Running
    <2>4. pc' \in [Tasks -> Controls] /\ sess' \in [Tasks -> Sessions]
      BY <1>11, <2>2, <2>3, FinishType, GotoType, SessionType DEF Commit
    <2>5. raw' \in [Events -> {"absent", "saved", "processed"}]
      BY <1>11 DEF Commit, TypeOK
    <2>6. links' \in [Events -> [Events -> Nat]]
      <3>1. EventOf[d] \in Events /\ sess[d].row \in Events
        BY PipelineAssumption DEF TypeOK, Sessions
      <3>2. links[EventOf[d]][sess[d].row] + 1 \in Nat
        BY <3>1 DEF TypeOK
      <3> QED
        BY <1>11, <3>1, <3>2 DEF Commit, TypeOK
    <2>7. cell' \in {"absent", "present"}
      BY <1>11 DEF Commit, TypeOK
    <2> QED
      BY <1>11, <2>1, <2>4, <2>5, <2>6, <2>7 DEF Commit, TypeOK
  <1>12. CASE CommitFails(d)
    <2>1. pc' \in [Tasks -> Controls]
      BY <1>12, GotoType DEF CommitFails, Controls, Endings, Running
    <2>2. orphans' \subseteq Fingerprints
      BY <1>12, OrphansType DEF CommitFails
    <2> QED
      BY <1>12, <2>1, <2>2, UnlockedType DEF CommitFails, TypeOK
  <1>13. CASE ReleaseLock(d)
    <2>1. pc' \in [Tasks -> Controls] /\ sess' \in [Tasks -> Sessions]
      BY <1>13, FinishType DEF ReleaseLock
    <2>2. orphans' \subseteq Fingerprints
      BY <1>13, OrphansType DEF ReleaseLock
    <2> QED
      BY <1>13, <2>1, <2>2, UnlockedType DEF ReleaseLock, TypeOK
  <1>14. CASE Enrich(d)
    <2>1. pc' \in [Tasks -> Controls]
      BY <1>14, GotoType DEF Enrich, Controls, Endings, Running
    <2>4. sess[d] \in Sessions /\ sess[d].mem \in Incidents
      BY DEF TypeOK, Sessions
    <2>5. MarkEnriched(sess[d].mem) \in Incidents
      BY <2>4, MarkEnrichedSets
    <2>2. [sess[d] EXCEPT !.mem = MarkEnriched(@)] \in Sessions
      BY <2>4, <2>5, SessionMem
    <2>3. sess' \in [Tasks -> Sessions]
      <3>1. CASE Session(d, [sess[d] EXCEPT !.mem = MarkEnriched(@)])
        BY <3>1, <2>2, SessionType
      <3>2. CASE UNCHANGED sess
        BY <3>2 DEF TypeOK
      <3> QED
        BY <1>14, <3>1, <3>2 DEF Enrich
    <2> QED
      BY <1>14, <2>1, <2>3 DEF Enrich, TypeOK
  <1>15. CASE CommitEnrichment(d)
    BY <1>15, WriteRowType, FinishType DEF CommitEnrichment, TypeOK
  <1>16. CASE EnrichmentLost(d)
    BY <1>16, FinishType DEF EnrichmentLost, TypeOK
  <1>17. CASE DatabaseError(d)
    <2>1. pc' \in [Tasks -> Controls]
      BY <1>17, GotoType DEF DatabaseError, Controls, Endings, Running
    <2> QED
      BY <1>17, <2>1 DEF DatabaseError, TypeOK
  <1>18. CASE RetryOrDrop(d)
    <2>1. pc' \in [Tasks -> Controls]
      BY <1>18, GotoType DEF RetryOrDrop, Controls, Endings, Running
    <2>2. sess' \in [Tasks -> Sessions]
      BY <1>18, NoSessionType, SessionType DEF RetryOrDrop
    <2>3. tries' \in [Tasks -> 0..MaxRetries]
      <3>1. CASE RetriesLeft(d) /\ tries' = [tries EXCEPT ![d] = @ + 1]
        <4>1. tries[d] + 1 \in 0..MaxRetries
          BY <3>1, PipelineAssumption DEF RetriesLeft, TypeOK
        <4> QED
          BY <3>1, <4>1 DEF TypeOK
      <3>2. CASE UNCHANGED tries
        BY <3>2 DEF TypeOK
      <3> QED
        BY <1>18, <3>1, <3>2 DEF RetryOrDrop
    <2> QED
      BY <1>18, <2>1, <2>2, <2>3, FreeLocksType DEF RetryOrDrop, TypeOK
  <1> QED
    BY <1>1, <1>2, <1>3, <1>4, <1>5, <1>6, <1>7, <1>8, <1>9, <1>10, <1>11,
       <1>12, <1>13, <1>14, <1>15, <1>16, <1>17, <1>18 DEF TaskStep

LEMMA EnvironmentType ==
  ASSUME TypeOK, Environment
  PROVE  TypeOK'
  <1> USE DEF database, locks, redis
  <1>1. ASSUME NEW d \in Tasks, Crash(d)
        PROVE  TypeOK'
    <2>1. pc' \in [Tasks -> Controls]
      BY <1>1, GotoType DEF Crash, Controls, Endings
    <2>2. sess' \in [Tasks -> Sessions]
      BY <1>1, NoSessionType, SessionType DEF Crash
    <2>3. orphans' \subseteq Fingerprints
      BY <1>1, PipelineAssumption DEF Crash, TypeOK, Fp
    <2> QED
      BY <1>1, <2>1, <2>2, <2>3, FreeLocksType DEF Crash, TypeOK
  <1>2. ASSUME NEW d \in Tasks, Redeliver(d)
        PROVE  TypeOK'
    <2>1. pc' \in [Tasks -> Controls]
      BY <1>2, GotoType DEF Redeliver, Controls, Endings
    <2> QED
      BY <1>2, <2>1 DEF Redeliver, TypeOK
  <1>3. ASSUME NEW f \in Fingerprints, LockExpires(f)
        PROVE  TypeOK'
    BY <1>3, OrphansType DEF LockExpires, TypeOK
  <1>4. CASE RedisFlips
    BY <1>4 DEF RedisFlips, TypeOK
  <1>5. ASSUME NEW r \in Events, OperatorCloses(r)
        PROVE  TypeOK'
    <2>1. \A s \in ClosedStatuses : [inc[r] EXCEPT !.status = s] \in Incidents
      BY ZenonT(40) DEF TypeOK, Incidents, Statuses
    <2> QED
      BY <1>5, <2>1 DEF OperatorCloses, TypeOK
  <1>6. ASSUME NEW r \in Events, MatcherMatches(r)
        PROVE  TypeOK'
    <2>1. inc[r] \in Incidents
      BY DEF TypeOK
    <2>2. [inc[r] EXCEPT !.status = "matched_to_freshdesk"] \in Incidents
      BY <2>1 DEF Incidents, Statuses, LiveStatuses
    <2>3. inc' \in [Events -> Incidents]
      BY <1>6, <2>2 DEF MatcherMatches, TypeOK
    <2> QED
      BY <1>6, <2>3 DEF MatcherMatches, TypeOK
  <1> QED
    BY <1>1, <1>2, <1>3, <1>4, <1>5, <1>6 DEF Environment

\* Every variable keeps its type in every reachable state.
THEOREM TypeCorrect == Spec => []TypeOK
  <1>1. Init => TypeOK
    <2> SUFFICES ASSUME Init PROVE TypeOK
      OBVIOUS
    <2>1. \A e \in Events : NoIncident(FingerprintOf[e]) \in Incidents
      BY PipelineAssumption, FreshRows
    <2>2. inc \in [Events -> Incidents] /\ sess \in [Tasks -> Sessions]
      BY <2>1, NoSessionType DEF Init
    <2> QED
      BY <2>2, PipelineAssumption DEF Init, TypeOK, Controls, Endings
  <1>2. TypeOK /\ [Next]_vars => TypeOK'
    <2> SUFFICES ASSUME TypeOK, [Next]_vars PROVE TypeOK'
      OBVIOUS
    <2>1. CASE UNCHANGED vars
      BY <2>1 DEF vars, TypeOK
    <2> QED
      BY <2>1, TaskStepType, EnvironmentType DEF Next
  <1> QED
    BY <1>1, <1>2, PTL DEF Spec

(***************************************************************************)
(* The raw event as the key to exactly-once recording.  raw[e] becomes     *)
(* "processed" in the one transaction that also writes the link and, for a *)
(* new incident, its row; a session whose INSERT of raw event e is still   *)
(* uncommitted is the only one that can get there.                         *)
(***************************************************************************)
Idle       == {"queued", "unacked", "acked", "dropped", "lost", "insert_raw"}
Resolving  == {"find", "insert", "reselect"}
Recording  == {"save", "bucket", "bucket_insert"}
Deciding   == {"decide", "deliver", "commit"}
Committed  == {"release", "enrich", "commit_enrich"}

\* What is on record for event e agrees with its raw event.
RecordInv(e) ==
  /\ raw[e] = "saved" => e \in Poison
  /\ raw[e] # "processed" =>
       /\ inc[e] = NoIncident(FingerprintOf[e])
       /\ \A r \in Events : links[e][r] = 0
  /\ raw[e] = "processed" =>
       \E r \in Events : \A x \in Events : links[e][x] = (IF x = r THEN 1 ELSE 0)

\* What the session of task d believes is true of the database.
SessionInv(d) ==
  LET s == sess[d] IN
  /\ s.rawRow # "reused"
  /\ s.rawRow = "new" => raw[EventOf[d]] = "absent"
  /\ s.fresh => s.rawRow = "new" /\ s.row = EventOf[d] /\ ~s.ghost
  /\ pc[d] \in Idle => s = NoSession(d)
  /\ pc[d] \in Resolving \cup Recording => ~s.ghost
  /\ pc[d] \in Resolving => ~s.fresh
  /\ pc[d] \in {"find", "insert", "bucket", "bucket_insert"} => s.rawRow = "new"
  /\ pc[d] \in {"reselect", "save"} => s.rawRow \in {"new", "lost"}
  /\ pc[d] \in Deciding => s.rawRow = IF s.ghost THEN "lost" ELSE "new"
  /\ pc[d] \in Committed => s.rawRow = "none" /\ ~s.fresh
  /\ pc[d] \in Recording \cup Deciding \cup Committed /\ ~s.fresh /\ ~s.ghost =>
       raw[s.row] = "processed"

OneInserter ==
  \A c, d \in Tasks :
    sess[c].rawRow = "new" /\ sess[d].rawRow = "new" /\ EventOf[c] = EventOf[d] => c = d

PipelineInv ==
  /\ \A e \in Events : RecordInv(e)
  /\ \A d \in Tasks : SessionInv(d)
  /\ OneInserter

(***************************************************************************)
(* Steps.                                                                  *)
(***************************************************************************)
dbVars == <<inc, raw, links>>

LEMMA RecordsKept ==
  ASSUME PipelineInv, UNCHANGED dbVars
  PROVE  raw' = raw /\ \A e \in Events : RecordInv(e)'
  BY DEF PipelineInv, RecordInv, dbVars

\* Rewriting a row that is on record disturbs nothing.
LEMMA RowRewritten ==
  ASSUME PipelineInv, NEW r \in Events, raw[r] = "processed", NEW x,
         inc' = [inc EXCEPT ![r] = x], raw' = raw, links' = links
  PROVE  \A e \in Events : RecordInv(e)'
  BY DEF PipelineInv, RecordInv

\* A step of task d that keeps the records straight has only its own session
\* to answer for.
LEMMA LocalStep ==
  ASSUME TypeOK, PipelineInv, NEW d \in Tasks,
         raw' = raw, \A e \in Events : RecordInv(e)',
         \A o \in Tasks \ {d} : sess'[o] = sess[o] /\ pc'[o] = pc[o],
         SessionInv(d)',
         sess'[d].rawRow = "new" => sess[d].rawRow = "new" \/ ~InsertingRaw(EventOf[d], d)
  PROVE  PipelineInv'
  <1>1. \A o \in Tasks : SessionInv(o)'
    BY DEF PipelineInv, SessionInv
  <1>2. OneInserter'
    BY DEF PipelineInv, OneInserter, InsertingRaw
  <1> QED
    BY <1>1, <1>2 DEF PipelineInv

LEMMA GotoIs ==
  ASSUME TypeOK, NEW d \in Tasks, NEW to, Goto(d, to)
  PROVE  pc'[d] = to /\ \A o \in Tasks \ {d} : pc'[o] = pc[o]
  BY DEF TypeOK, Goto

LEMMA SessionIs ==
  ASSUME TypeOK, NEW d \in Tasks, NEW s, Session(d, s)
  PROVE  sess'[d] = s /\ \A o \in Tasks \ {d} : sess'[o] = sess[o]
  BY DEF TypeOK, Session

\* Absorbing into an open row: that row is on record.
LEMMA OpenRowRecorded ==
  ASSUME PipelineInv, NEW f, NEW r \in OpenRows(f)
  PROVE  r \in Events /\ raw[r] = "processed"
  <1>1. r \in Events /\ IsOpen(inc[r]) /\ RecordInv(r)
    BY DEF OpenRows, PipelineInv
  <1>2. ~IsOpen(NoIncident(FingerprintOf[r]))
    BY DEF IsOpen, LiveStatuses, NoIncident, NewIncident
  <1> QED
    BY <1>1, <1>2 DEF RecordInv

LEMMA AbsorbStep ==
  ASSUME TypeOK, PipelineInv, NEW d \in Tasks, pc[d] \in {"find", "reselect"},
         UNCHANGED dbVars,
         NEW r \in OpenRows(Fp(d)), AbsorbInto(d, r)
  PROVE  PipelineInv'
  <1>1. sess[d] \in Sessions /\ SessionInv(d)
    BY DEF TypeOK, PipelineInv
  <1>2. r \in Events /\ raw[r] = "processed"
    BY OpenRowRecorded
  <1> DEFINE s == [sess[d] EXCEPT !.row = r, !.base = inc[r], !.mem = Absorb(inc[r])]
  <1>3. /\ s.rawRow = sess[d].rawRow /\ s.fresh = sess[d].fresh
        /\ s.ghost = sess[d].ghost /\ s.row = r
    BY <1>1 DEF Sessions
  <1> HIDE DEF s
  <1>4. sess'[d] = s /\ \A o \in Tasks \ {d} : sess'[o] = sess[o]
    BY SessionIs DEF AbsorbInto, s
  <1>5. pc'[d] = "save" /\ \A o \in Tasks \ {d} : pc'[o] = pc[o]
    BY GotoIs DEF AbsorbInto
  <1>6. SessionInv(d)'
    BY <1>1, <1>2, <1>3, <1>4, <1>5
    DEF SessionInv, Idle, Resolving, Recording, Deciding, Committed, dbVars
  <1> QED
    BY <1>3, <1>4, <1>5, <1>6, RecordsKept, LocalStep

\* A step that changes neither the tables nor the raw event, the row or the
\* origin of the session, and moves on to a control point with no more to ask.
LEMMA SameSession ==
  ASSUME TypeOK, PipelineInv, NEW d \in Tasks, UNCHANGED dbVars,
         NEW to, Goto(d, to), NEW s, Session(d, s) \/ (s = sess[d] /\ UNCHANGED sess),
         s.rawRow = sess[d].rawRow, s.fresh = sess[d].fresh,
         s.ghost = sess[d].ghost, s.row = sess[d].row,
         \/ to = "raise"
         \/ to \in Recording /\ pc[d] \in Recording /\ s.rawRow # "lost"
         \/ to \in Deciding /\ pc[d] \in Recording \cup Deciding /\ s.rawRow # "lost"
         \/ to \in Deciding /\ pc[d] \in Deciding
         \/ to \in Committed /\ pc[d] \in Committed
         \/ to = "insert" /\ pc[d] = "find"
  PROVE  PipelineInv'
  <1>1. sess'[d] = s /\ \A o \in Tasks \ {d} : sess'[o] = sess[o]
    <2>1. CASE Session(d, s)
      BY <2>1, SessionIs
    <2>2. CASE s = sess[d] /\ UNCHANGED sess
      BY <2>2
    <2> QED
      BY <2>1, <2>2
  <1>2. pc'[d] = to /\ \A o \in Tasks \ {d} : pc'[o] = pc[o]
    BY GotoIs
  <1>3. SessionInv(d) /\ sess[d] \in Sessions
    BY DEF PipelineInv, TypeOK
  <1>4. SessionInv(d)'
    BY <1>1, <1>2, <1>3
    DEF SessionInv, Idle, Resolving, Recording, Deciding, Committed, dbVars, Sessions
  <1> QED
    BY <1>1, <1>2, <1>4, RecordsKept, LocalStep

\* The session is gone: the task waits, has ended or starts over.
LEMMA SessionGone ==
  ASSUME TypeOK, PipelineInv, NEW d \in Tasks,
         raw' = raw, \A e \in Events : RecordInv(e)',
         NEW to \in Idle, Goto(d, to), Session(d, NoSession(d))
  PROVE  PipelineInv'
  <1>1. sess'[d] = NoSession(d) /\ \A o \in Tasks \ {d} : sess'[o] = sess[o]
    BY SessionIs
  <1>2. pc'[d] = to /\ \A o \in Tasks \ {d} : pc'[o] = pc[o]
    BY GotoIs
  <1>3. /\ NoSession(d).rawRow = "none" /\ ~NoSession(d).fresh /\ ~NoSession(d).ghost
    BY DEF NoSession
  <1>4. SessionInv(d)'
    BY <1>1, <1>2, <1>3
    DEF SessionInv, Idle, Resolving, Recording, Deciding, Committed, dbVars
  <1> QED
    BY <1>1, <1>2, <1>3, <1>4, LocalStep

LEMMA SelectRawStep ==
  ASSUME TypeOK, PipelineInv, NEW d \in Tasks, SelectRaw(d)
  PROVE  PipelineInv'
  <1>1. EventOf[d] \in Events /\ RecordInv(EventOf[d])
    BY PipelineAssumption DEF PipelineInv
  <1>2. Session(d, NoSession(d)) /\ Goto(d, AfterSelectRaw(EventOf[d]))
    BY <1>1 DEF SelectRaw, RecordInv
  <1>3. AfterSelectRaw(EventOf[d]) \in Idle
    BY <1>1 DEF AfterSelectRaw, RecordInv, TypeOK, Idle
  <1> QED
    BY <1>2, <1>3, RecordsKept, SessionGone DEF SelectRaw, database, dbVars

LEMMA InsertRawStep ==
  ASSUME TypeOK, PipelineInv, NEW d \in Tasks, InsertRaw(d)
  PROVE  PipelineInv'
  <1> DEFINE e == EventOf[d]
  <1>1. /\ e \in Events /\ sess[d] \in Sessions /\ sess[d] = NoSession(d)
        /\ ~InsertingRaw(e, d)
    BY PipelineAssumption DEF InsertRaw, PipelineInv, SessionInv, Idle, TypeOK
  <1>2. CASE raw[e] # "absent" /\ Goto(d, "raise") /\ UNCHANGED <<database, sess>>
    BY <1>2, SameSession DEF database, dbVars
  <1>3. CASE /\ raw[e] = "absent" /\ e \in Poison
             /\ raw' = [raw EXCEPT ![e] = "saved"] /\ Goto(d, "acked")
             /\ UNCHANGED <<inc, links, cell, sess>>
    <2>1. \A x \in Events : RecordInv(x)'
      BY <1>1, <1>3 DEF PipelineInv, RecordInv, TypeOK
    <2>2. pc'[d] = "acked" /\ \A o \in Tasks \ {d} : pc'[o] = pc[o]
      BY <1>3, GotoIs
    <2>3. \A o \in Tasks : SessionInv(o)'
      <3> SUFFICES ASSUME NEW o \in Tasks PROVE SessionInv(o)'
        OBVIOUS
      <3>1. SessionInv(o) /\ (raw'[EventOf[o]] = "absent" \/ sess[o].rawRow # "new")
        BY <1>1, <1>3, PipelineAssumption
        DEF InsertingRaw, NoSession, PipelineInv, SessionInv, TypeOK
      <3>2. \A r \in Events : raw[r] = "processed" => raw'[r] = "processed"
        BY <1>1, <1>3 DEF TypeOK
      <3>3. SessionInv(o) /\ sess[o].row \in Events
        BY DEF PipelineInv, TypeOK, Sessions
      <3>4. CASE o = d
        BY <1>1, <1>3, <2>2, <3>4
        DEF SessionInv, NoSession, Idle, Resolving, Recording, Deciding, Committed
      <3>5. CASE o # d
        BY <1>3, <2>2, <3>1, <3>2, <3>3, <3>5 DEF SessionInv
      <3> QED
        BY <3>4, <3>5
    <2>4. OneInserter'
      BY <1>3 DEF OneInserter, PipelineInv
    <2> QED
      BY <2>1, <2>3, <2>4 DEF PipelineInv
  <1>4. CASE /\ raw[e] = "absent" /\ Session(d, [sess[d] EXCEPT !.rawRow = "new"])
             /\ Goto(d, "find") /\ UNCHANGED database
    <2>1. /\ sess'[d] = [sess[d] EXCEPT !.rawRow = "new"]
          /\ \A o \in Tasks \ {d} : sess'[o] = sess[o]
      BY <1>4, SessionIs
    <2>2. pc'[d] = "find" /\ \A o \in Tasks \ {d} : pc'[o] = pc[o]
      BY <1>4, GotoIs
    <2>3. SessionInv(d)'
      BY <1>1, <1>4, <2>1, <2>2
      DEF SessionInv, NoSession, Idle, Resolving, Recording, Deciding, Committed,
          database
    <2> QED
      BY <1>1, <1>4, <2>1, <2>2, <2>3, RecordsKept, LocalStep DEF database, dbVars
  <1> QED
    BY <1>2, <1>3, <1>4 DEF InsertRaw

LEMMA InsertIncidentStep ==
  ASSUME TypeOK, PipelineInv, NEW d \in Tasks, InsertIncident(d)
  PROVE  PipelineInv'
  <1>1. /\ EventOf[d] \in Events /\ sess[d] \in Sessions /\ SessionInv(d)
        /\ pc[d] = "insert" /\ sess[d].rawRow = "new" /\ UNCHANGED dbVars
    BY PipelineAssumption
    DEF InsertIncident, PipelineInv, SessionInv, TypeOK, database, dbVars
  <1>2. CASE /\ Session(d, [sess[d] EXCEPT !.rawRow = RolledBack(@)])
             /\ Goto(d, "reselect")
    <2>1. /\ sess'[d] = [sess[d] EXCEPT !.rawRow = "lost"]
          /\ \A o \in Tasks \ {d} : sess'[o] = sess[o]
      BY <1>1, <1>2, SessionIs DEF RolledBack
    <2>2. pc'[d] = "reselect" /\ \A o \in Tasks \ {d} : pc'[o] = pc[o]
      BY <1>2, GotoIs
    <2>3. SessionInv(d)'
      BY <1>1, <2>1, <2>2
      DEF SessionInv, Idle, Resolving, Recording, Deciding, Committed, Sessions
    <2> QED
      BY <1>1, <2>1, <2>2, <2>3, RecordsKept, LocalStep DEF Sessions
  <1>3. CASE /\ Session(d, [sess[d] EXCEPT !.row = EventOf[d], !.fresh = TRUE,
                                          !.mem = NewIncident(Fp(d)),
                                          !.base = NoIncident(Fp(d))])
             /\ Goto(d, "save")
    <2> DEFINE s == [sess[d] EXCEPT !.row = EventOf[d], !.fresh = TRUE,
                                    !.mem = NewIncident(Fp(d)),
                                    !.base = NoIncident(Fp(d))]
    <2>1. /\ s.row = EventOf[d] /\ s.fresh /\ s.rawRow = "new"
          /\ s.ghost = sess[d].ghost
      BY <1>1 DEF Sessions
    <2> HIDE DEF s
    <2>2. sess'[d] = s /\ \A o \in Tasks \ {d} : sess'[o] = sess[o]
      BY <1>3, SessionIs DEF s
    <2>3. pc'[d] = "save" /\ \A o \in Tasks \ {d} : pc'[o] = pc[o]
      BY <1>3, GotoIs
    <2>4. SessionInv(d)'
      BY <1>1, <2>1, <2>2, <2>3
      DEF SessionInv, Idle, Resolving, Recording, Deciding, Committed, dbVars
    <2> QED
      BY <1>1, <2>1, <2>2, <2>3, <2>4, RecordsKept, LocalStep
  <1> QED
    BY <1>2, <1>3 DEF InsertIncident

LEMMA InsertBucketStep ==
  ASSUME TypeOK, PipelineInv, NEW d \in Tasks, InsertBucket(d)
  PROVE  PipelineInv'
  <1>1. /\ sess[d] \in Sessions /\ SessionInv(d) /\ sess[d].rawRow = "new"
        /\ pc[d] = "bucket_insert" /\ UNCHANGED dbVars
    BY DEF InsertBucket, PipelineInv, SessionInv, TypeOK, database, dbVars
  <1>2. CASE Goto(d, "decide") /\ UNCHANGED sess
    BY <1>1, <1>2, SameSession DEF Recording, Deciding
  <1>3. CASE Goto(d, "raise") /\ UNCHANGED sess
    BY <1>1, <1>3, SameSession
  <1>4. CASE /\ Goto(d, "decide")
             /\ Session(d, [sess[d] EXCEPT !.fresh = FALSE, !.ghost = TRUE,
                                           !.rawRow = RolledBack(@)])
    <2> DEFINE s == [sess[d] EXCEPT !.fresh = FALSE, !.ghost = TRUE,
                                    !.rawRow = RolledBack(@)]
    <2>1. ~s.fresh /\ s.ghost /\ s.rawRow = "lost"
      BY <1>1 DEF Sessions, RolledBack
    <2> HIDE DEF s
    <2>2. sess'[d] = s /\ \A o \in Tasks \ {d} : sess'[o] = sess[o]
      BY <1>4, SessionIs DEF s
    <2>3. pc'[d] = "decide" /\ \A o \in Tasks \ {d} : pc'[o] = pc[o]
      BY <1>4, GotoIs
    <2>4. SessionInv(d)'
      BY <2>1, <2>2, <2>3
      DEF SessionInv, Idle, Resolving, Recording, Deciding, Committed
    <2> QED
      BY <1>1, <2>1, <2>2, <2>3, <2>4, RecordsKept, LocalStep
  <1> QED
    BY <1>2, <1>3, <1>4 DEF InsertBucket

\* The commit marks the raw event, writes the link and the row together.  The
\* ghost of a rolled-back INSERT commits none of the three.
LEMMA CommitStep ==
  ASSUME TypeOK, PipelineInv, NEW d \in Tasks, Commit(d)
  PROVE  PipelineInv'
  <1> DEFINE e == EventOf[d]
             s == sess[d]
             t == [s EXCEPT !.base = s.mem, !.fresh = FALSE, !.rawRow = "none"]
  <1>1. /\ e \in Events /\ s \in Sessions /\ s.row \in Events /\ SessionInv(d)
        /\ RecordInv(e) /\ pc[d] = "commit"
    BY PipelineAssumption DEF Commit, PipelineInv, TypeOK, Sessions
  <1>2. /\ t.fresh = FALSE /\ t.rawRow = "none" /\ (t.ghost <=> s.ghost) /\ t.row = s.row
        /\ NoSession(d).rawRow = "none"
    BY <1>1 DEF Sessions, NoSession
  <1>3. \/ sess'[d] = NoSession(d) /\ pc'[d] = "acked"
        \/ sess'[d] = t /\ pc'[d] \in Committed
    BY <1>1, SessionIs, GotoIs DEF Commit, Finish, AfterOutcome, Committed
  <1> HIDE DEF t
  <1>4. \A o \in Tasks \ {d} : sess'[o] = sess[o] /\ pc'[o] = pc[o]
    BY SessionIs, GotoIs DEF Commit, Finish
  <1>5. OneInserter'
    BY <1>2, <1>3, <1>4 DEF OneInserter, PipelineInv
  <1>6. CASE s.ghost
    <2>1. UNCHANGED dbVars
      BY <1>1, <1>6 DEF Commit, WriteRow, dbVars, SessionInv, Deciding
    <2>2. SessionInv(d)'
      BY <1>2, <1>3, <1>6, <2>1
      DEF SessionInv, NoSession, Idle, Resolving, Recording, Deciding, Committed
    <2> QED
      BY <1>2, <1>3, <1>4, <2>1, <2>2, RecordsKept, LocalStep
  <1>7. CASE ~s.ghost
    <2>1. /\ s.rawRow = "new" /\ raw[e] = "absent"
          /\ raw' = [raw EXCEPT ![e] = "processed"]
          /\ links' = [links EXCEPT ![e][s.row] = @ + 1]
          /\ inc' = [inc EXCEPT ![s.row] = RowToWrite(d)]
          /\ s.row = e \/ raw[s.row] = "processed"
      BY <1>1, <1>7 DEF Commit, WriteRow, SessionInv, Deciding
    <2>2. /\ raw'[e] = "processed" /\ raw'[s.row] = "processed"
          /\ \A x \in Events \ {e} : raw'[x] = raw[x]
      BY <1>1, <2>1 DEF TypeOK
    <2>3. \A x \in Events : RecordInv(x)'
      <3> SUFFICES ASSUME NEW x \in Events PROVE RecordInv(x)'
        OBVIOUS
      <3>1. RecordInv(x)
        BY DEF PipelineInv
      <3>2. CASE x # e
        <4>1. links'[x] = links[x] /\ raw'[x] = raw[x]
          BY <1>1, <2>1, <2>2, <3>2 DEF TypeOK
        <4>2. raw[x] # "processed" => inc'[x] = inc[x]
          BY <1>1, <2>1, <3>2 DEF TypeOK
        <4> QED
          BY <3>1, <4>1, <4>2 DEF RecordInv
      <3>3. CASE x = e
        <4>1. \A r \in Events : links[e][r] = 0
          BY <1>1, <2>1 DEF RecordInv
        <4>2. \A r \in Events : links'[e][r] = (IF r = s.row THEN 1 ELSE 0)
          BY <1>1, <2>1, <4>1 DEF TypeOK
        <4> QED
          BY <1>1, <2>2, <3>3, <4>2 DEF RecordInv
      <3> QED
        BY <3>2, <3>3
    <2>4. SessionInv(d)'
      BY <1>1, <1>2, <1>3, <1>7, <2>2
      DEF SessionInv, NoSession, Idle, Resolving, Recording, Deciding, Committed
    <2>5. \A o \in Tasks \ {d} : SessionInv(o)'
      <3> SUFFICES ASSUME NEW o \in Tasks \ {d} PROVE SessionInv(o)'
        OBVIOUS
      <3>1. SessionInv(o) /\ sess[o].row \in Events /\ EventOf[o] \in Events
        BY PipelineAssumption DEF PipelineInv, TypeOK, Sessions
      <3>2. sess[o].rawRow = "new" => raw'[EventOf[o]] = "absent"
        BY <2>1, <2>2, <3>1 DEF SessionInv, PipelineInv, OneInserter
      <3>3. raw[sess[o].row] = "processed" => raw'[sess[o].row] = "processed"
        BY <2>2, <3>1
      <3> QED
        BY <1>4, <3>1, <3>2, <3>3 DEF SessionInv
    <2> QED
      BY <1>5, <2>3, <2>4, <2>5 DEF PipelineInv
  <1> QED
    BY <1>6, <1>7

LEMMA CommitEnrichmentStep ==
  ASSUME TypeOK, PipelineInv, NEW d \in Tasks, CommitEnrichment(d)
  PROVE  PipelineInv'
  <1>1. /\ sess[d].row \in Events /\ SessionInv(d) /\ pc[d] = "commit_enrich"
        /\ raw' = raw /\ links' = links
    BY DEF CommitEnrichment, PipelineInv, TypeOK, Sessions
  <1>2. \A e \in Events : RecordInv(e)'
    <2>1. CASE sess[d].ghost
      BY <1>1, <2>1, RecordsKept DEF CommitEnrichment, WriteRow, dbVars
    <2>2. CASE ~sess[d].ghost
      BY <1>1, <2>2, RowRewritten
      DEF CommitEnrichment, WriteRow, SessionInv, Committed
    <2> QED
      BY <2>1, <2>2
  <1> QED
    BY <1>1, <1>2, SessionGone DEF CommitEnrichment, Finish, Idle

LEMMA TaskStepRecords ==
  ASSUME TypeOK, PipelineInv, NEW d \in Tasks, TaskStep(d)
  PROVE  PipelineInv'
  <1> USE DEF database, dbVars
  <1>1. sess[d] \in Sessions /\ SessionInv(d)
    BY DEF TypeOK, PipelineInv
  <1>2. CASE SelectRaw(d) \/ InsertRaw(d) \/ InsertIncident(d) \/ InsertBucket(d)
               \/ Commit(d) \/ CommitEnrichment(d)
    BY <1>2, SelectRawStep, InsertRawStep, InsertIncidentStep, InsertBucketStep,
       CommitStep, CommitEnrichmentStep
  <1>3. CASE FindIncident(d)
    BY <1>3, AbsorbStep, SameSession DEF FindIncident
  <1>4. CASE ReselectIncident(d)
    BY <1>4, AbsorbStep, SameSession DEF ReselectIncident
  <1>5. CASE SaveNormalized(d)
    <2>1. CASE Goto(d, "raise")
      BY <1>5, <2>1, SameSession DEF SaveNormalized
    <2>2. CASE /\ sess[d].rawRow # "lost"
               /\ Goto(d, IF EventOf[d] \in Measured THEN "bucket" ELSE "decide")
      BY <1>5, <2>2, SameSession DEF SaveNormalized, Recording, Deciding
    <2> QED
      BY <1>5, <2>1, <2>2 DEF SaveNormalized
  <1>6. CASE SelectBucket(d)
    <2>1. sess[d].rawRow # "lost" /\ pc[d] \in Recording /\ UNCHANGED <<dbVars, sess>>
      BY <1>1, <1>6 DEF SelectBucket, SessionInv, Recording
    <2> QED
      BY <1>6, <2>1, SameSession DEF SelectBucket, Recording, Deciding
  <1>7. CASE Decide(d)
    <2> DEFINE scored == UpdateScore(sess[d].mem, band[EventOf[d]] = "loud")
               quiet  == [sess[d] EXCEPT !.mem = scored, !.outcome = "quiet"]
               loud   == [sess[d] EXCEPT !.mem = scored]
    <2>1. /\ quiet.rawRow = sess[d].rawRow /\ quiet.fresh = sess[d].fresh
          /\ quiet.ghost = sess[d].ghost /\ quiet.row = sess[d].row
          /\ loud.rawRow = sess[d].rawRow /\ loud.fresh = sess[d].fresh
          /\ loud.ghost = sess[d].ghost /\ loud.row = sess[d].row
      BY <1>1 DEF Sessions
    <2>2. \/ Session(d, quiet) /\ Goto(d, "commit")
          \/ Session(d, loud) /\ Goto(d, "deliver")
      BY <1>7 DEF Decide
    <2>3. pc[d] \in Deciding /\ UNCHANGED dbVars
      BY <1>7 DEF Decide, Deciding
    <2> HIDE DEF quiet, loud
    <2> QED
      BY <2>1, <2>2, <2>3, SameSession DEF Deciding
  <1>8. CASE Deliver(d)
    <2> DEFINE detected == MarkDetected(sess[d].mem)
               won  == [sess[d] EXCEPT !.mem = MarkDelivered(detected, d),
                                       !.outcome = "delivered"]
               lost == [sess[d] EXCEPT !.mem = MarkFailed(detected),
                                       !.outcome = "failed"]
    <2>1. /\ won.rawRow = sess[d].rawRow /\ won.fresh = sess[d].fresh
          /\ won.ghost = sess[d].ghost /\ won.row = sess[d].row
          /\ lost.rawRow = sess[d].rawRow /\ lost.fresh = sess[d].fresh
          /\ lost.ghost = sess[d].ghost /\ lost.row = sess[d].row
      BY <1>1 DEF Sessions
    <2>2. (Session(d, won) \/ Session(d, lost)) /\ Goto(d, "commit")
      BY <1>8 DEF Deliver
    <2>3. pc[d] \in Deciding /\ UNCHANGED dbVars
      BY <1>8 DEF Deliver, Deciding
    <2> HIDE DEF won, lost
    <2> QED
      BY <2>1, <2>2, <2>3, SameSession DEF Deciding
  <1>9. CASE CommitFails(d) \/ DatabaseError(d)
    BY <1>9, SameSession DEF CommitFails, DatabaseError
  <1>10. CASE ReleaseLock(d) \/ EnrichmentLost(d)
    BY <1>10, RecordsKept, SessionGone DEF ReleaseLock, EnrichmentLost, Finish, Idle
  <1>11. CASE Enrich(d)
    <2> DEFINE s == [sess[d] EXCEPT !.mem = MarkEnriched(@)]
    <2>1. /\ s.rawRow = sess[d].rawRow /\ s.fresh = sess[d].fresh
          /\ s.ghost = sess[d].ghost /\ s.row = sess[d].row
      BY <1>1 DEF Sessions
    <2>2. (Session(d, s) \/ UNCHANGED sess) /\ Goto(d, "commit_enrich")
      BY <1>11 DEF Enrich
    <2>3. pc[d] \in Committed /\ UNCHANGED dbVars
      BY <1>11 DEF Enrich, Committed
    <2> HIDE DEF s
    <2> QED
      BY <2>1, <2>2, <2>3, SameSession DEF Committed
  <1>12. CASE RetryOrDrop(d)
    BY <1>12, RecordsKept, SessionGone DEF RetryOrDrop, Idle
  <1> QED
    BY <1>2, <1>3, <1>4, <1>5, <1>6, <1>7, <1>8, <1>9, <1>10, <1>11, <1>12
    DEF TaskStep

LEMMA EnvironmentRecords ==
  ASSUME TypeOK, PipelineInv, Environment
  PROVE  PipelineInv'
  <1> USE DEF database, dbVars
  <1>1. ASSUME NEW d \in Tasks, Crash(d)
        PROVE  PipelineInv'
    BY <1>1, RecordsKept, SessionGone DEF Crash, Idle
  <1>2. ASSUME NEW d \in Tasks, Redeliver(d)
        PROVE  PipelineInv'
    <2>1. sess[d] = NoSession(d)
      BY <1>2 DEF Redeliver, PipelineInv, SessionInv, Idle
    <2>2. Session(d, NoSession(d))
      BY <1>2, <2>1 DEF Redeliver, Session, TypeOK
    <2> QED
      BY <1>2, <2>2, RecordsKept, SessionGone DEF Redeliver, Idle
  <1>3. ASSUME \/ \E f \in Fingerprints : LockExpires(f)
               \/ RedisFlips
        PROVE  PipelineInv'
    BY <1>3
    DEF LockExpires, RedisFlips, PipelineInv, RecordInv, SessionInv, OneInserter
  <1>4. ASSUME NEW r \in Events, OperatorCloses(r) \/ MatcherMatches(r)
        PROVE  PipelineInv'
    <2>1. raw[r] = "processed"
      BY <1>4, OpenRowRecorded DEF OperatorCloses, MatcherMatches, OpenRows
    <2>2. raw' = raw /\ links' = links /\ pc' = pc /\ sess' = sess
      BY <1>4 DEF OperatorCloses, MatcherMatches
    <2>3. PICK x : inc' = [inc EXCEPT ![r] = x]
      BY <1>4 DEF OperatorCloses, MatcherMatches
    <2>4. \A e \in Events : RecordInv(e)'
      BY <2>1, <2>2, <2>3, RowRewritten
    <2> QED
      BY <2>2, <2>4 DEF PipelineInv, SessionInv, OneInserter
  <1> QED
    BY <1>1, <1>2, <1>3, <1>4 DEF Environment

LEMMA Invariance == Spec => [](TypeOK /\ PipelineInv)
  <1>1. Init => PipelineInv
    BY DEF Init, PipelineInv, RecordInv, SessionInv, OneInserter, NoSession,
           Idle, Resolving, Recording, Deciding, Committed
  <1>2. TypeOK /\ PipelineInv /\ [Next]_vars => PipelineInv'
    <2> SUFFICES ASSUME TypeOK, PipelineInv, [Next]_vars PROVE PipelineInv'
      OBVIOUS
    <2>1. CASE UNCHANGED vars
      BY <2>1 DEF vars, PipelineInv, RecordInv, SessionInv, OneInserter
    <2> QED
      BY <2>1, TaskStepRecords, EnvironmentRecords DEF Next
  <1> QED
    BY <1>1, <1>2, TypeCorrect, PTL DEF Spec

\* However often the broker delivers an event, and wherever its task fails, it
\* is linked to one incident and once.
THEOREM CountedOnce == Spec => []EventCountedOnce
  <1>1. TypeOK /\ PipelineInv => EventCountedOnce
    BY DEF TypeOK, PipelineInv, RecordInv, EventCountedOnce
  <1> QED
    BY <1>1, Invariance, PTL

\* An event is marked processed exactly when it is linked to an incident.
THEOREM Atomic == Spec => []ProcessedIffLinked
  <1>1. TypeOK /\ PipelineInv => ProcessedIffLinked
    BY DEF TypeOK, PipelineInv, RecordInv, ProcessedIffLinked
  <1> QED
    BY <1>1, Invariance, PTL
=============================================================================
