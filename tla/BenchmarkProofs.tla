-------------------------- MODULE BenchmarkProofs --------------------------
(***************************************************************************)
(* The benchmark timestamp is a confirmed delivery, is committed before    *)
(* enrichment starts and, while Redis answers, is final: AlertPipeline     *)
(* implements BenchmarkRace, for every number of tasks, events and retries *)
(* and every mix of the faults.  That a claim is final rests on the alert  *)
(* lock, hence on Redis; nothing else here does.                           *)
(***************************************************************************)
EXTENDS AlertPipelineProofs

(***************************************************************************)
(* The win: how the benchmark timestamp travels from a confirmed delivery  *)
(* through the session's copy into the committed row.                      *)
(***************************************************************************)
RowWin(r) ==
  /\ inc[r].fp = FingerprintOf[r]
  /\ inc[r].ts # NoTask => inc[r].ts \in sent[r]
  /\ inc[r].enriched => inc[r].ts # NoTask

SessionWin(d) ==
  LET s == sess[d] IN
  /\ FingerprintOf[s.row] = Fp(d)
  /\ s.mem.fp = Fp(d)
  /\ s.fresh => ~s.base.enriched
  /\ s.mem.ts # NoTask => s.mem.ts \in sent[s.row]
  /\ s.mem.enriched => s.mem.ts # NoTask
  /\ s.base.ts # NoTask => s.mem.ts # NoTask
  /\ s.base.enriched => s.mem.enriched
  /\ s.base.ts # NoTask /\ ~s.ghost => inc[s.row].ts # NoTask
  /\ pc[d] \in Recording \cup {"decide", "deliver"} => s.mem.ts = s.base.ts
  /\ pc[d] \in Recording \cup Deciding => s.mem.enriched = s.base.enriched
  /\ pc[d] = "commit" /\ s.mem.ts # s.base.ts => s.outcome = "delivered"
  /\ pc[d] = "commit" /\ s.outcome = "delivered" => s.mem.ts # NoTask
  /\ pc[d] \in Committed => s.mem.ts = s.base.ts
  /\ pc[d] \in {"enrich", "commit_enrich"} => s.base.ts # NoTask

WinInv == (\A r \in Events : RowWin(r)) /\ (\A d \in Tasks : SessionWin(d))

(***************************************************************************)
(* Steps that do not write an incident row.                                *)
(***************************************************************************)
Others(d) == \A o \in Tasks \ {d} : sess'[o] = sess[o] /\ pc'[o] = pc[o]

LEMMA WinLocal ==
  ASSUME TypeOK, WinInv, NEW d \in Tasks, inc' = inc,
         \A r \in Events : sent[r] \subseteq sent'[r],
         Others(d), SessionWin(d)'
  PROVE  WinInv'
  <1>1. \A r \in Events : RowWin(r)'
    BY DEF WinInv, RowWin
  <1>2. \A o \in Tasks \ {d} : SessionWin(o)'
    <2> SUFFICES ASSUME NEW o \in Tasks \ {d} PROVE SessionWin(o)'
      OBVIOUS
    <2>1. SessionWin(o) /\ sess[o].row \in Events
      BY DEF WinInv, TypeOK, Sessions
    <2>2. sess'[o] = sess[o] /\ pc'[o] = pc[o]
      BY DEF Others
    <2> QED
      BY <2>1, <2>2 DEF SessionWin, Fp
  <1> QED
    BY <1>1, <1>2 DEF WinInv

\* The session is unchanged and the new control point asks nothing new of it.
LEMMA WinSame ==
  ASSUME TypeOK, WinInv, NEW d \in Tasks, inc' = inc, sent' = sent, sess' = sess,
         NEW to, Goto(d, to),
         \/ to \in {"raise", "insert", "reselect"}
         \/ /\ to \in Recording \cup {"decide"}
            /\ pc[d] \in Recording
         \/ to = "commit_enrich" /\ pc[d] = "enrich"
  PROVE  WinInv'
  <1>1. pc'[d] = to /\ Others(d)
    BY GotoIs DEF Others
  <1>2. SessionWin(d)
    BY DEF WinInv
  <1>3. SessionWin(d)'
    BY <1>1, <1>2 DEF SessionWin, Fp, Recording, Deciding, Committed
  <1> QED
    BY <1>1, <1>3, WinLocal

LEMMA NoSessionWin ==
  ASSUME TypeOK, NEW d \in Tasks, sess'[d] = NoSession(d), pc'[d] \in Idle
  PROVE  SessionWin(d)'
  <1>1. Fp(d) \in Fingerprints /\ FingerprintOf[EventOf[d]] = Fp(d)
    BY PipelineAssumption DEF Fp
  <1>2. /\ NoSession(d).row = EventOf[d] /\ ~NoSession(d).fresh
        /\ NoSession(d).mem = NoIncident(Fp(d))
        /\ NoSession(d).base = NoIncident(Fp(d))
    BY DEF NoSession
  <1> QED
    BY <1>1, <1>2, FreshRows, ZenonT(40)
    DEF SessionWin, Fp, Idle, Recording, Deciding, Committed

LEMMA WinGone ==
  ASSUME TypeOK, WinInv, NEW d \in Tasks, inc' = inc, sent' = sent,
         NEW to \in Idle, Goto(d, to), Session(d, NoSession(d))
  PROVE  WinInv'
  <1>1. pc'[d] = to /\ sess'[d] = NoSession(d) /\ Others(d)
    BY GotoIs, SessionIs DEF Others
  <1> QED
    BY <1>1, NoSessionWin, WinLocal

LEMMA SelectRawWin ==
  ASSUME TypeOK, PipelineInv, WinInv, NEW d \in Tasks, SelectRaw(d)
  PROVE  WinInv'
  <1>1. EventOf[d] \in Events /\ RecordInv(EventOf[d])
    BY PipelineAssumption DEF PipelineInv
  <1>2. Session(d, NoSession(d)) /\ Goto(d, AfterSelectRaw(EventOf[d]))
    BY <1>1 DEF SelectRaw, RecordInv
  <1>3. AfterSelectRaw(EventOf[d]) \in Idle
    BY <1>1 DEF AfterSelectRaw, RecordInv, TypeOK, Idle
  <1> QED
    BY <1>2, <1>3, WinGone DEF SelectRaw, database

LEMMA InsertRawWin ==
  ASSUME TypeOK, PipelineInv, WinInv, NEW d \in Tasks, InsertRaw(d)
  PROVE  WinInv'
  <1>1. /\ sess[d] \in Sessions /\ sess[d] = NoSession(d) /\ SessionWin(d)
        /\ inc' = inc /\ sent' = sent
    BY DEF InsertRaw, PipelineInv, SessionInv, Idle, TypeOK, WinInv, database
  <1>2. CASE Goto(d, "raise") /\ UNCHANGED sess
    BY <1>1, <1>2, WinSame
  <1>3. CASE Goto(d, "acked") /\ UNCHANGED sess
    BY <1>1, <1>3, GotoIs, NoSessionWin, WinLocal DEF Others, Idle
  <1>4. CASE Session(d, [sess[d] EXCEPT !.rawRow = "new"]) /\ Goto(d, "find")
    <2>1. /\ sess'[d] = [sess[d] EXCEPT !.rawRow = "new"]
          /\ pc'[d] = "find" /\ Others(d)
      BY <1>4, SessionIs, GotoIs DEF Others
    <2>2. SessionWin(d)'
      BY <1>1, <2>1 DEF SessionWin, Fp, Sessions, Recording, Deciding, Committed
    <2> QED
      BY <1>1, <2>1, <2>2, WinLocal
  <1> QED
    BY <1>2, <1>3, <1>4 DEF InsertRaw

\* A copy just loaded says what its row says.
LEMMA AbsorbWin ==
  ASSUME TypeOK, WinInv, NEW d \in Tasks, inc' = inc, sent' = sent,
         ~sess[d].fresh,
         NEW r \in OpenRows(Fp(d)), AbsorbInto(d, r)
  PROVE  WinInv'
  <1>1. /\ sess[d] \in Sessions /\ r \in Events /\ inc[r].fp = Fp(d)
        /\ inc[r] \in Incidents /\ RowWin(r)
    BY DEF TypeOK, OpenRows, WinInv
  <1> DEFINE s == [sess[d] EXCEPT !.row = r, !.base = inc[r], !.mem = Absorb(inc[r])]
  <1>2. /\ s.row = r /\ s.base = inc[r] /\ s.mem = Absorb(inc[r]) /\ ~s.fresh
    BY <1>1 DEF Sessions
  <1> HIDE DEF s
  <1>3. sess'[d] = s /\ pc'[d] = "save" /\ Others(d)
    BY SessionIs, GotoIs DEF AbsorbInto, Others, s
  <1>4. SessionWin(d)'
    BY <1>1, <1>2, <1>3, AbsorbKeeps
    DEF SessionWin, RowWin, Fp, Recording, Deciding, Committed
  <1> QED
    BY <1>3, <1>4, WinLocal

LEMMA InsertIncidentWin ==
  ASSUME TypeOK, PipelineInv, WinInv, NEW d \in Tasks, InsertIncident(d)
  PROVE  WinInv'
  <1>1. /\ sess[d] \in Sessions /\ SessionWin(d) /\ inc' = inc /\ sent' = sent
        /\ EventOf[d] \in Events /\ FingerprintOf[EventOf[d]] = Fp(d)
        /\ Fp(d) \in Fingerprints
    BY PipelineAssumption DEF InsertIncident, TypeOK, WinInv, database, Fp
  <1>2. CASE /\ Session(d, [sess[d] EXCEPT !.rawRow = RolledBack(@)])
             /\ Goto(d, "reselect")
    <2> DEFINE s == [sess[d] EXCEPT !.rawRow = RolledBack(@)]
    <2>1. /\ s.row = sess[d].row /\ s.mem = sess[d].mem /\ s.base = sess[d].base
          /\ s.fresh = sess[d].fresh /\ s.ghost = sess[d].ghost
      BY <1>1 DEF Sessions
    <2> HIDE DEF s
    <2>2. sess'[d] = s /\ pc'[d] = "reselect" /\ Others(d)
      BY <1>2, SessionIs, GotoIs DEF Others, s
    <2>3. SessionWin(d)'
      BY <1>1, <2>1, <2>2 DEF SessionWin, Fp, Recording, Deciding, Committed
    <2> QED
      BY <1>1, <2>2, <2>3, WinLocal
  <1>3. CASE /\ Session(d, [sess[d] EXCEPT !.row = EventOf[d], !.fresh = TRUE,
                                          !.mem = NewIncident(Fp(d)),
                                          !.base = NoIncident(Fp(d))])
             /\ Goto(d, "save")
    <2> DEFINE s == [sess[d] EXCEPT !.row = EventOf[d], !.fresh = TRUE,
                                    !.mem = NewIncident(Fp(d)),
                                    !.base = NoIncident(Fp(d))]
    <2>1. /\ s.row = EventOf[d] /\ s.mem = NewIncident(Fp(d))
          /\ s.base = NoIncident(Fp(d))
      BY <1>1 DEF Sessions
    <2> HIDE DEF s
    <2>2. sess'[d] = s /\ pc'[d] = "save" /\ Others(d)
      BY <1>3, SessionIs, GotoIs DEF Others, s
    <2>3. SessionWin(d)'
      <3>1. /\ s.mem.fp = Fp(d) /\ s.mem.ts = NoTask /\ s.mem.enriched = FALSE
            /\ s.base.ts = NoTask /\ s.base.enriched = FALSE
        BY <1>1, <2>1, FreshRows
      <3> QED
        BY <1>1, <2>1, <2>2, <3>1
        DEF SessionWin, Fp, Recording, Deciding, Committed
    <2> QED
      BY <1>1, <2>2, <2>3, WinLocal
  <1> QED
    BY <1>2, <1>3 DEF InsertIncident

LEMMA InsertBucketWin ==
  ASSUME TypeOK, PipelineInv, WinInv, NEW d \in Tasks, InsertBucket(d)
  PROVE  WinInv'
  <1>1. /\ sess[d] \in Sessions /\ SessionWin(d) /\ inc' = inc /\ sent' = sent
        /\ pc[d] = "bucket_insert"
    BY DEF InsertBucket, TypeOK, WinInv, database
  <1>2. CASE (Goto(d, "decide") \/ Goto(d, "raise")) /\ UNCHANGED sess
    BY <1>1, <1>2, WinSame DEF Recording
  <1>3. CASE /\ Goto(d, "decide")
             /\ Session(d, [sess[d] EXCEPT !.fresh = FALSE, !.ghost = TRUE,
                                           !.rawRow = RolledBack(@)])
    <2> DEFINE s == [sess[d] EXCEPT !.fresh = FALSE, !.ghost = TRUE,
                                    !.rawRow = RolledBack(@)]
    <2>1. /\ s.row = sess[d].row /\ s.mem = sess[d].mem /\ s.base = sess[d].base
          /\ ~s.fresh /\ s.ghost
      BY <1>1 DEF Sessions
    <2> HIDE DEF s
    <2>2. sess'[d] = s /\ pc'[d] = "decide" /\ Others(d)
      BY <1>3, SessionIs, GotoIs DEF Others, s
    <2>3. SessionWin(d)'
      BY <1>1, <2>1, <2>2 DEF SessionWin, Fp, Recording, Deciding, Committed
    <2> QED
      BY <1>1, <2>2, <2>3, WinLocal
  <1> QED
    BY <1>2, <1>3 DEF InsertBucket

LEMMA DecideWin ==
  ASSUME TypeOK, PipelineInv, WinInv, NEW d \in Tasks, Decide(d)
  PROVE  WinInv'
  <1> DEFINE scored == UpdateScore(sess[d].mem, band[EventOf[d]] = "loud")
             quiet  == [sess[d] EXCEPT !.mem = scored, !.outcome = "quiet"]
             loud   == [sess[d] EXCEPT !.mem = scored]
  <1>1. /\ sess[d] \in Sessions /\ SessionWin(d) /\ inc' = inc /\ sent' = sent
        /\ pc[d] = "decide" /\ sess[d].mem \in Incidents
    BY DEF Decide, TypeOK, WinInv, database, Sessions
  <1>2. /\ scored.fp = sess[d].mem.fp /\ scored.ts = sess[d].mem.ts
        /\ scored.enriched = sess[d].mem.enriched
    BY <1>1, UpdateScoreKeeps
  <1> HIDE DEF scored
  <1>3. /\ quiet.mem = scored /\ loud.mem = scored /\ quiet.outcome = "quiet"
        /\ quiet.row = sess[d].row /\ loud.row = sess[d].row
        /\ quiet.base = sess[d].base /\ loud.base = sess[d].base
        /\ quiet.fresh = sess[d].fresh /\ loud.fresh = sess[d].fresh
        /\ quiet.ghost = sess[d].ghost /\ loud.ghost = sess[d].ghost
    BY <1>1 DEF Sessions
  <1>4. \/ Session(d, quiet) /\ Goto(d, "commit")
        \/ Session(d, loud) /\ Goto(d, "deliver")
    BY DEF Decide, scored
  <1> HIDE DEF quiet, loud
  <1>5. \/ sess'[d] = quiet /\ pc'[d] = "commit"
        \/ sess'[d] = loud /\ pc'[d] = "deliver"
    BY <1>4, SessionIs, GotoIs
  <1>6. Others(d)
    BY <1>4, SessionIs, GotoIs DEF Others
  <1>7. SessionWin(d)'
    BY <1>1, <1>2, <1>3, <1>5
    DEF SessionWin, Fp, Recording, Deciding, Committed
  <1> QED
    BY <1>1, <1>6, <1>7, WinLocal

\* The timestamp enters the session's copy with a confirmed delivery.
LEMMA DeliverWin ==
  ASSUME TypeOK, PipelineInv, WinInv, NEW d \in Tasks, Deliver(d)
  PROVE  WinInv'
  <1> DEFINE detected == MarkDetected(sess[d].mem)
             won      == MarkDelivered(detected, d)
             missed   == MarkFailed(detected)
             winner   == [sess[d] EXCEPT !.mem = won, !.outcome = "delivered"]
             loser    == [sess[d] EXCEPT !.mem = missed, !.outcome = "failed"]
  <1>1. /\ sess[d] \in Sessions /\ SessionWin(d) /\ inc' = inc
        /\ pc[d] = "deliver" /\ sess[d].mem \in Incidents /\ sess[d].row \in Events
    BY DEF Deliver, TypeOK, WinInv, database, Sessions
  <1>2. /\ detected \in Incidents /\ detected.fp = sess[d].mem.fp
        /\ detected.ts = sess[d].mem.ts
        /\ detected.enriched = sess[d].mem.enriched
    BY <1>1, MarkDetectedKeeps
  <1> HIDE DEF detected
  <1>3. /\ won.fp = sess[d].mem.fp /\ won.ts = d
        /\ won.enriched = sess[d].mem.enriched
        /\ missed.fp = sess[d].mem.fp /\ missed.ts = sess[d].mem.ts
        /\ missed.enriched = sess[d].mem.enriched
    BY <1>2, MarkDeliveredSets, MarkFailedKeeps
  <1> HIDE DEF won, missed
  <1>4. /\ winner.mem = won /\ winner.outcome = "delivered"
        /\ winner.row = sess[d].row /\ winner.base = sess[d].base
        /\ winner.fresh = sess[d].fresh /\ winner.ghost = sess[d].ghost
        /\ loser.mem = missed /\ loser.outcome = "failed"
        /\ loser.row = sess[d].row /\ loser.base = sess[d].base
        /\ loser.fresh = sess[d].fresh /\ loser.ghost = sess[d].ghost
    BY <1>1 DEF Sessions
  <1>5. /\ \/ /\ Session(d, winner)
              /\ sent' = [sent EXCEPT ![sess[d].row] = @ \cup {d}]
           \/ Session(d, loser) /\ sent' = sent
        /\ Goto(d, "commit")
    BY DEF Deliver, won, missed, detected
  <1> HIDE DEF winner, loser
  <1>6. pc'[d] = "commit" /\ Others(d)
    BY <1>5, SessionIs, GotoIs DEF Others
  <1>7. \A r \in Events : sent[r] \subseteq sent'[r]
    BY <1>1, <1>5, SMTT(30) DEF TypeOK
  <1>8. CASE /\ Session(d, winner)
             /\ sent' = [sent EXCEPT ![sess[d].row] = @ \cup {d}]
    <2>1. sess'[d] = winner
      BY <1>8, SessionIs
    <2>2. d \in sent'[sess[d].row] /\ d # NoTask
      BY <1>1, <1>8, NoTaskAssumption DEF TypeOK
    <2>3. SessionWin(d)'
      BY <1>1, <1>3, <1>4, <1>6, <2>1, <2>2
      DEF SessionWin, Fp, Recording, Deciding, Committed
    <2> QED
      BY <1>1, <1>6, <1>7, <2>3, WinLocal
  <1>9. CASE Session(d, loser) /\ sent' = sent
    <2>1. sess'[d] = loser
      BY <1>9, SessionIs
    <2>2. SessionWin(d)'
      BY <1>1, <1>3, <1>4, <1>6, <1>9, <2>1
      DEF SessionWin, Fp, Recording, Deciding, Committed
    <2> QED
      BY <1>1, <1>6, <1>7, <2>2, WinLocal
  <1> QED
    BY <1>5, <1>8, <1>9

LEMMA EnrichWin ==
  ASSUME TypeOK, PipelineInv, WinInv, NEW d \in Tasks, Enrich(d)
  PROVE  WinInv'
  <1> DEFINE rich == MarkEnriched(sess[d].mem)
             s    == [sess[d] EXCEPT !.mem = rich]
  <1>1. /\ sess[d] \in Sessions /\ SessionWin(d) /\ inc' = inc /\ sent' = sent
        /\ pc[d] = "enrich" /\ sess[d].mem \in Incidents
    BY DEF Enrich, TypeOK, WinInv, database, Sessions
  <1>2. CASE Session(d, s) /\ Goto(d, "commit_enrich")
    <2>1. rich.fp = sess[d].mem.fp /\ rich.ts = sess[d].mem.ts /\ rich.enriched
      BY <1>1, MarkEnrichedSets
    <2> HIDE DEF rich
    <2>2. /\ s.mem = rich /\ s.row = sess[d].row /\ s.base = sess[d].base
          /\ s.fresh = sess[d].fresh /\ s.ghost = sess[d].ghost
      BY <1>1 DEF Sessions
    <2> HIDE DEF s
    <2>3. sess'[d] = s /\ pc'[d] = "commit_enrich" /\ Others(d)
      BY <1>2, SessionIs, GotoIs DEF Others
    <2>4. SessionWin(d)'
      BY <1>1, <2>1, <2>2, <2>3
      DEF SessionWin, Fp, Recording, Deciding, Committed
    <2> QED
      BY <1>1, <2>3, <2>4, WinLocal
  <1>3. CASE UNCHANGED sess /\ Goto(d, "commit_enrich")
    BY <1>1, <1>3, WinSame
  <1> QED
    BY <1>2, <1>3 DEF Enrich

(***************************************************************************)
(* Steps that write an incident row.                                       *)
(***************************************************************************)

\* What a commit makes of the row: a claim is never withdrawn, changes only
\* with a delivery, and enrichment only adds to a claim.
LEMMA RowToWriteWin ==
  ASSUME TypeOK, PipelineInv, WinInv, NEW d \in Tasks,
         pc[d] \in {"commit", "commit_enrich"}, ~sess[d].ghost
  PROVE  LET r == sess[d].row
             x == RowToWrite(d)
         IN  /\ x.fp = FingerprintOf[r]
             /\ x.ts # NoTask => x.ts \in sent[r]
             /\ x.enriched => x.ts # NoTask
             /\ inc[r].ts # NoTask \/ sess[d].mem.ts # NoTask => x.ts # NoTask
             /\ x.ts # inc[r].ts => /\ pc[d] = "commit"
                                    /\ sess[d].outcome = "delivered"
                                    /\ x.ts = sess[d].mem.ts
             /\ x.enriched # inc[r].enriched => /\ pc[d] = "commit_enrich"
                                                /\ x.enriched = TRUE
  <1> DEFINE s == sess[d]
             r == s.row
             x == RowToWrite(d)
  <1>1. /\ s \in Sessions /\ r \in Events /\ s.mem \in Incidents
        /\ s.base \in Incidents /\ inc[r] \in Incidents
    BY DEF TypeOK, Sessions
  <1>2. /\ s.mem.enriched \in BOOLEAN /\ s.base.enriched \in BOOLEAN
        /\ inc[r].enriched \in BOOLEAN
    BY <1>1 DEF Incidents
  <1>3. SessionWin(d) /\ SessionInv(d) /\ RowWin(r) /\ RecordInv(r)
    BY <1>1 DEF WinInv, PipelineInv
  <1>4. CASE s.fresh
    <2>1. x = s.mem /\ pc[d] = "commit"
      BY <1>3, <1>4 DEF RowToWrite, SessionInv, Committed
    <2>2. r = EventOf[d] /\ raw[r] = "absent"
      BY <1>3, <1>4 DEF SessionInv
    <2>3. inc[r] = NoIncident(FingerprintOf[r]) /\ FingerprintOf[r] \in Fingerprints
      BY <1>1, <1>3, <2>2, PipelineAssumption DEF RecordInv
    <2>4. inc[r].ts = NoTask /\ inc[r].enriched = FALSE
      BY <2>3, FreshRows
    <2>5. s.base.ts = NoTask /\ s.mem.enriched = FALSE
      BY <1>2, <1>3, <1>4, <2>1, <2>4 DEF SessionWin, Deciding
    <2> QED
      BY <1>3, <2>1, <2>4, <2>5 DEF SessionWin
  <1>5. CASE ~s.fresh
    <2>1. /\ x.fp = inc[r].fp
          /\ x.ts = (IF s.mem.ts = s.base.ts THEN inc[r].ts ELSE s.mem.ts)
          /\ x.enriched = (IF s.mem.enriched = s.base.enriched
                           THEN inc[r].enriched ELSE s.mem.enriched)
      BY <1>5 DEF RowToWrite, Flushed, Column
    <2> QED
      BY <1>2, <1>3, <2>1 DEF SessionWin, RowWin, Deciding, Committed
  <1> QED
    BY <1>4, <1>5

\* Writing such a row keeps the invariant, whoever holds a copy of it.
LEMMA WinWritten ==
  ASSUME TypeOK, WinInv, NEW d \in Tasks, NEW r \in Events, NEW x,
         inc' = [inc EXCEPT ![r] = x], sent' = sent,
         x.fp = FingerprintOf[r],
         x.ts # NoTask => x.ts \in sent[r],
         x.enriched => x.ts # NoTask,
         inc[r].ts # NoTask => x.ts # NoTask,
         Others(d), SessionWin(d)'
  PROVE  WinInv'
  <1>1. /\ inc'[r] = x
        /\ \A q \in Events \ {r} : inc'[q] = inc[q]
    BY DEF TypeOK
  <1>2. \A q \in Events : RowWin(q)'
    BY <1>1 DEF WinInv, RowWin
  <1>3. \A o \in Tasks \ {d} : SessionWin(o)'
    <2> SUFFICES ASSUME NEW o \in Tasks \ {d} PROVE SessionWin(o)'
      OBVIOUS
    <2>1. SessionWin(o) /\ sess[o].row \in Events
      BY DEF WinInv, TypeOK, Sessions
    <2>2. sess'[o] = sess[o] /\ pc'[o] = pc[o]
      BY DEF Others
    <2>3. inc[sess[o].row].ts # NoTask => inc'[sess[o].row].ts # NoTask
      BY <1>1, <2>1
    <2> QED
      BY <2>1, <2>2, <2>3 DEF SessionWin, Fp
  <1> QED
    BY <1>2, <1>3 DEF WinInv

LEMMA CommitWin ==
  ASSUME TypeOK, PipelineInv, WinInv, NEW d \in Tasks, Commit(d)
  PROVE  WinInv'
  <1> DEFINE s == sess[d]
             r == s.row
             x == RowToWrite(d)
             t == [s EXCEPT !.base = s.mem, !.fresh = FALSE, !.rawRow = "none"]
  <1>1. /\ s \in Sessions /\ r \in Events /\ SessionWin(d) /\ sent' = sent
        /\ pc[d] = "commit"
    BY DEF Commit, TypeOK, WinInv, Sessions
  <1>2. /\ t.row = r /\ t.mem = s.mem /\ t.base = s.mem /\ t.fresh = FALSE
        /\ (t.ghost <=> s.ghost)
    BY <1>1 DEF Sessions
  <1>3. \/ sess'[d] = NoSession(d) /\ pc'[d] = "acked"
        \/ /\ sess'[d] = t
           /\ pc'[d] \in Committed
           /\ pc'[d] = "enrich" => s.outcome = "delivered"
           /\ pc'[d] # "commit_enrich"
    BY <1>1, SessionIs, GotoIs DEF Commit, Finish, AfterOutcome, Committed
  <1> HIDE DEF t
  <1>4. Others(d)
    BY SessionIs, GotoIs DEF Commit, Finish, Others
  <1>5. ASSUME s.ghost \/ (s.mem.ts # NoTask => inc'[r].ts # NoTask)
        PROVE  SessionWin(d)'
    <2>1. CASE sess'[d] = NoSession(d) /\ pc'[d] = "acked"
      BY <2>1, NoSessionWin DEF Idle
    <2>2. CASE /\ sess'[d] = t
               /\ pc'[d] \in Committed
               /\ pc'[d] = "enrich" => s.outcome = "delivered"
               /\ pc'[d] # "commit_enrich"
      <3>1. t.base.ts # NoTask /\ ~t.ghost => inc'[t.row].ts # NoTask
        BY <1>2, <1>5
      <3>2. pc'[d] \in {"enrich", "commit_enrich"} => t.base.ts # NoTask
        BY <1>1, <1>2, <2>2 DEF SessionWin
      <3> QED
        BY <1>1, <1>2, <2>2, <3>1, <3>2
        DEF SessionWin, Fp, Recording, Deciding, Committed
    <2> QED
      BY <1>3, <2>1, <2>2
  <1>6. CASE s.ghost
    BY <1>1, <1>4, <1>5, <1>6, WinLocal DEF Commit, WriteRow
  <1>7. CASE ~s.ghost
    <2>1. inc' = [inc EXCEPT ![r] = x]
      BY <1>7 DEF Commit, WriteRow
    <2>2. /\ x.fp = FingerprintOf[r]
          /\ x.ts # NoTask => x.ts \in sent[r]
          /\ x.enriched => x.ts # NoTask
          /\ inc[r].ts # NoTask \/ s.mem.ts # NoTask => x.ts # NoTask
      BY <1>1, <1>7, RowToWriteWin
    <2> HIDE DEF x
    <2>3. inc'[r] = x
      BY <1>1, <2>1 DEF TypeOK
    <2> QED
      BY <1>1, <1>4, <1>5, <2>1, <2>2, <2>3, WinWritten
  <1> QED
    BY <1>6, <1>7

LEMMA CommitEnrichmentWin ==
  ASSUME TypeOK, PipelineInv, WinInv, NEW d \in Tasks, CommitEnrichment(d)
  PROVE  WinInv'
  <1> DEFINE r == sess[d].row
             x == RowToWrite(d)
  <1>1. r \in Events /\ sent' = sent /\ pc[d] = "commit_enrich"
    BY DEF CommitEnrichment, TypeOK, Sessions
  <1>2. sess'[d] = NoSession(d) /\ pc'[d] = "acked" /\ Others(d)
    BY SessionIs, GotoIs DEF CommitEnrichment, Finish, Others
  <1>3. SessionWin(d)'
    BY <1>2, NoSessionWin DEF Idle
  <1>4. CASE sess[d].ghost
    BY <1>1, <1>2, <1>3, <1>4, WinLocal DEF CommitEnrichment, WriteRow
  <1>5. CASE ~sess[d].ghost
    <2>1. inc' = [inc EXCEPT ![r] = x]
      BY <1>5 DEF CommitEnrichment, WriteRow
    <2>2. /\ x.fp = FingerprintOf[r]
          /\ x.ts # NoTask => x.ts \in sent[r]
          /\ x.enriched => x.ts # NoTask
          /\ inc[r].ts # NoTask => x.ts # NoTask
      BY <1>1, <1>5, RowToWriteWin
    <2> HIDE DEF x
    <2> QED
      BY <1>1, <1>2, <1>3, <2>1, <2>2, WinWritten
  <1> QED
    BY <1>4, <1>5

LEMMA TaskStepWin ==
  ASSUME TypeOK, PipelineInv, WinInv, NEW d \in Tasks, TaskStep(d)
  PROVE  WinInv'
  <1> USE DEF database
  <1>1. CASE SelectRaw(d) \/ InsertRaw(d) \/ InsertIncident(d) \/ InsertBucket(d)
               \/ Decide(d) \/ Deliver(d) \/ Commit(d) \/ Enrich(d)
               \/ CommitEnrichment(d)
    BY <1>1, SelectRawWin, InsertRawWin, InsertIncidentWin, InsertBucketWin,
       DecideWin, DeliverWin, CommitWin, EnrichWin, CommitEnrichmentWin
  <1>2. CASE FindIncident(d) \/ ReselectIncident(d)
    <2>1. ~sess[d].fresh
      BY <1>2 DEF FindIncident, ReselectIncident, PipelineInv, SessionInv, Resolving
    <2> QED
      BY <1>2, <2>1, AbsorbWin, WinSame DEF FindIncident, ReselectIncident
  <1>3. CASE SaveNormalized(d) \/ SelectBucket(d)
    BY <1>3, WinSame DEF SaveNormalized, SelectBucket, Recording
  <1>4. CASE CommitFails(d) \/ DatabaseError(d)
    BY <1>4, WinSame DEF CommitFails, DatabaseError
  <1>5. CASE ReleaseLock(d) \/ EnrichmentLost(d) \/ RetryOrDrop(d)
    BY <1>5, WinGone DEF ReleaseLock, EnrichmentLost, RetryOrDrop, Finish, Idle
  <1> QED
    BY <1>1, <1>2, <1>3, <1>4, <1>5 DEF TaskStep

LEMMA EnvironmentWin ==
  ASSUME TypeOK, PipelineInv, WinInv, Environment
  PROVE  WinInv'
  <1> USE DEF database
  <1>1. ASSUME NEW d \in Tasks, Crash(d)
        PROVE  WinInv'
    BY <1>1, WinGone DEF Crash, Idle
  <1>2. ASSUME NEW d \in Tasks, Redeliver(d)
        PROVE  WinInv'
    <2>1. sess[d] = NoSession(d)
      BY <1>2 DEF Redeliver, PipelineInv, SessionInv, Idle
    <2>2. Session(d, NoSession(d))
      BY <1>2, <2>1 DEF Redeliver, Session, TypeOK
    <2> QED
      BY <1>2, <2>2, WinGone DEF Redeliver, Idle
  <1>3. ASSUME (\E f \in Fingerprints : LockExpires(f)) \/ RedisFlips
        PROVE  WinInv'
    BY <1>3 DEF LockExpires, RedisFlips, WinInv, RowWin, SessionWin, Fp
  <1>4. ASSUME NEW r \in Events, OperatorCloses(r) \/ MatcherMatches(r)
        PROVE  WinInv'
    <2>1. sent' = sent /\ pc' = pc /\ sess' = sess
      BY <1>4 DEF OperatorCloses, MatcherMatches
    <2>2. PICK st : inc' = [inc EXCEPT ![r].status = st]
      BY <1>4 DEF OperatorCloses, MatcherMatches
    <2>3. \A q \in Events : /\ inc'[q].fp = inc[q].fp /\ inc'[q].ts = inc[q].ts
                            /\ inc'[q].enriched = inc[q].enriched
      BY <2>2 DEF TypeOK, Incidents
    <2>4. \A q \in Events : RowWin(q)'
      BY <2>1, <2>3 DEF WinInv, RowWin
    <2>5. \A d \in Tasks : SessionWin(d)'
      BY <2>1, <2>3, ZenonT(40) DEF WinInv, SessionWin, Fp, TypeOK, Sessions
    <2> QED
      BY <2>4, <2>5 DEF WinInv
  <1> QED
    BY <1>1, <1>2, <1>3, <1>4 DEF Environment

LEMMA WinInvariance == Spec => [](TypeOK /\ PipelineInv /\ WinInv)
  <1>1. Init => WinInv
    <2> SUFFICES ASSUME Init PROVE WinInv
      OBVIOUS
    <2>1. \A e \in Events : RowWin(e)
      <3> SUFFICES ASSUME NEW e \in Events PROVE RowWin(e)
        OBVIOUS
      <3>1. FingerprintOf[e] \in Fingerprints /\ inc[e] = NoIncident(FingerprintOf[e])
        BY PipelineAssumption DEF Init
      <3> QED
        BY <3>1, FreshRows DEF RowWin
    <2>2. \A d \in Tasks : SessionWin(d)
      <3> SUFFICES ASSUME NEW d \in Tasks PROVE SessionWin(d)
        OBVIOUS
      <3>1. Fp(d) \in Fingerprints /\ FingerprintOf[EventOf[d]] = Fp(d)
        BY PipelineAssumption DEF Fp
      <3>2. /\ sess[d].row = EventOf[d] /\ sess[d].fresh = FALSE
            /\ sess[d].mem = NoIncident(Fp(d)) /\ sess[d].base = NoIncident(Fp(d))
            /\ pc[d] = "queued"
        BY DEF Init, NoSession
      <3> QED
        BY <3>1, <3>2, FreshRows DEF SessionWin, Recording, Deciding, Committed
    <2> QED
      BY <2>1, <2>2 DEF WinInv
  <1>2. TypeOK /\ PipelineInv /\ WinInv /\ [Next]_vars => WinInv'
    <2> SUFFICES ASSUME TypeOK, PipelineInv, WinInv, [Next]_vars PROVE WinInv'
      OBVIOUS
    <2>1. CASE UNCHANGED vars
      BY <2>1 DEF vars, WinInv, RowWin, SessionWin, Fp
    <2> QED
      BY <2>1, TaskStepWin, EnvironmentWin DEF Next
  <1> QED
    BY <1>1, <1>2, Invariance, PTL DEF Spec

\* A claimed benchmark timestamp is that of an alert some channel confirmed.
THEOREM NoFabricatedWin == Spec => []TimestampIsADelivery
  <1>1. WinInv => TimestampIsADelivery
    BY DEF WinInv, RowWin, TimestampIsADelivery
  <1> QED
    BY <1>1, WinInvariance, PTL

\* Only an incident with a delivered alert is enriched.
THEOREM EnrichedAfterDelivery == Spec => []EnrichedOnlyIfDelivered
  <1>1. WinInv => EnrichedOnlyIfDelivered
    BY DEF WinInv, RowWin, EnrichedOnlyIfDelivered
  <1> QED
    BY <1>1, WinInvariance, PTL

\* A crash during enrichment cannot lose the win: it is committed by then,
\* unless a lost metric-bucket race has rolled the incident's row back.
THEOREM WinSurvivesEnrichment == Spec => []WinCommittedBeforeEnrichment
  <1>1. WinInv => WinCommittedBeforeEnrichment
    BY DEF WinInv, SessionWin, WinCommittedBeforeEnrichment, RowRolledBack
  <1> QED
    BY <1>1, WinInvariance, PTL

(***************************************************************************)
(* The alert lock, as long as Redis answers.                               *)
(***************************************************************************)
\* Task d has taken the alert lock and has not settled the outcome yet.
Holding(d) ==
  \/ pc[d] \in {"deliver", "release"}
  \/ pc[d] = "commit" /\ sess[d].outcome # "quiet"

\* Task d goes on with a copy loaded before the win of its row was committed.
Stale(d) ==
  /\ pc[d] \in Recording \cup {"decide"}
  /\ ~sess[d].ghost
  /\ sess[d].mem.ts = NoTask
  /\ inc[sess[d].row].ts # NoTask

SessionLock(d) ==
  /\ Holding(d) => lock[Fp(d)] = d
  /\ pc[d] \in {"deliver", "commit"} /\ Holding(d) /\ ~sess[d].ghost =>
       inc[sess[d].row].ts = NoTask
  /\ Stale(d) => /\ lock[Fp(d)] # NoTask
                 /\ ~Holding(lock[Fp(d)])

LockInv ==
  /\ redisUp
  /\ \A f \in Fingerprints : lock[f] # NoTask => Fp(lock[f]) = f
  /\ \A d \in Tasks : SessionLock(d)

(***************************************************************************)
(* The lock invariant is inductive while Redis answers.                    *)
(***************************************************************************)

SameClaims == \A q \in Events : inc'[q].ts = inc[q].ts

\* A step that touches neither the lock nor a claim.
LEMMA LockLocal ==
  ASSUME TypeOK, LockInv, NEW d \in Tasks, lock' = lock, redisUp' = redisUp,
         SameClaims, Others(d), Holding(d)' => Holding(d), Stale(d)' => Stale(d),
         pc'[d] \in {"deliver", "commit"} /\ Holding(d)' /\ ~sess'[d].ghost =>
           inc[sess'[d].row].ts = NoTask,
         sess'[d].row \in Events
  PROVE  LockInv'
  <1>1. \A c \in Tasks : Holding(c)' => Holding(c)
    BY DEF Others, Holding
  <1>2. ASSUME NEW o \in Tasks PROVE SessionLock(o)'
    <2>1. SessionLock(o) /\ sess[o].row \in Events /\ Fp(o) \in Fingerprints
      BY PipelineAssumption DEF LockInv, TypeOK, Sessions, Fp
    <2>2. Stale(o)' => Stale(o)
      BY <2>1 DEF Others, Stale, SameClaims
    <2>3. Holding(o)' => lock[Fp(o)] = o
      BY <1>1, <2>1 DEF SessionLock
    <2>4. Stale(o)' => lock[Fp(o)] # NoTask /\ ~Holding(lock[Fp(o)])'
      BY <1>1, <2>1, <2>2 DEF SessionLock, TypeOK
    <2>5. pc'[o] \in {"deliver", "commit"} /\ Holding(o)' /\ ~sess'[o].ghost =>
            inc'[sess'[o].row].ts = NoTask
      <3>1. CASE o = d
        BY <3>1 DEF SameClaims
      <3>2. CASE o # d
        BY <1>1, <2>1, <3>2 DEF Others, SameClaims, SessionLock
      <3> QED
        BY <3>1, <3>2
    <2> QED
      BY <2>3, <2>4, <2>5 DEF SessionLock, Fp
  <1> QED
    BY <1>2 DEF LockInv, Fp

\* Off the path from the save to the release a task neither holds nor is stale.
LEMMA LockOff ==
  ASSUME TypeOK, TypeOK', LockInv, NEW d \in Tasks, lock' = lock,
         redisUp' = redisUp, SameClaims, Others(d),
         pc'[d] \notin Recording \cup Deciding \cup {"release"}
  PROVE  LockInv'
  <1>1. ~Holding(d)' /\ ~Stale(d)' /\ sess'[d].row \in Events
    BY DEF Holding, Stale, Recording, Deciding, TypeOK, Sessions
  <1> QED
    BY <1>1, LockLocal

\* The holder gives the lock back without having claimed anything.
LEMMA LockReleased ==
  ASSUME TypeOK, LockInv, NEW d \in Tasks, Holding(d),
         lock' = [lock EXCEPT ![Fp(d)] = NoTask], redisUp' = redisUp,
         inc' = inc, Others(d), pc'[d] \in {"raise", "acked"}
  PROVE  LockInv'
  <1>1. ~Holding(d)' /\ ~Stale(d)' /\ lock[Fp(d)] = d
    BY DEF Holding, Stale, Recording, LockInv, SessionLock
  <1>2. ASSUME NEW o \in Tasks \ {d} PROVE SessionLock(o)'
    <2>1. SessionLock(o) /\ Fp(o) \in Fingerprints /\ Fp(d) \in Fingerprints
      BY PipelineAssumption DEF LockInv, Fp
    <2>2. /\ Holding(o)' <=> Holding(o)
          /\ Stale(o)' <=> Stale(o)
      BY DEF Others, Holding, Stale
    <2>3. CASE Fp(o) = Fp(d)
      BY <1>1, <2>1, <2>2, <2>3 DEF SessionLock, Fp
    <2>4. CASE Fp(o) # Fp(d)
      <3>1. lock'[Fp(o)] = lock[Fp(o)]
        BY <2>1, <2>4 DEF TypeOK
      <3>2. lock[Fp(o)] # NoTask /\ ~Holding(lock[Fp(o)]) => ~Holding(lock[Fp(o)])'
        BY <1>1, <2>1 DEF Others, Holding, TypeOK
      <3> QED
        BY <2>1, <2>2, <3>1, <3>2 DEF SessionLock, Others, Fp
    <2> QED
      BY <2>3, <2>4
  <1>3. SessionLock(d)'
    BY <1>1 DEF SessionLock
  <1>4. \A f \in Fingerprints : lock'[f] # NoTask => Fp(lock'[f]) = f
    BY DEF LockInv, TypeOK
  <1> QED
    BY <1>2, <1>3, <1>4 DEF LockInv, Fp

LEMMA AbsorbLock ==
  ASSUME TypeOK, TypeOK', LockInv, NEW d \in Tasks, lock' = lock,
         redisUp' = redisUp, inc' = inc,
         NEW r \in OpenRows(Fp(d)), AbsorbInto(d, r)
  PROVE  LockInv'
  <1>1. sess[d] \in Sessions /\ r \in Events /\ inc[r] \in Incidents
    BY DEF TypeOK, OpenRows
  <1> DEFINE s == [sess[d] EXCEPT !.row = r, !.base = inc[r], !.mem = Absorb(inc[r])]
  <1>2. s.row = r /\ s.mem.ts = inc[r].ts
    BY <1>1, AbsorbKeeps DEF Sessions
  <1> HIDE DEF s
  <1>3. sess'[d] = s /\ pc'[d] = "save" /\ Others(d)
    BY SessionIs, GotoIs DEF AbsorbInto, Others, s
  <1>4. ~Holding(d)' /\ ~Stale(d)'
    BY <1>2, <1>3 DEF Holding, Stale
  <1> QED
    BY <1>1, <1>2, <1>3, <1>4, LockLocal DEF SameClaims

LEMMA InsertIncidentLock ==
  ASSUME TypeOK, TypeOK', PipelineInv, LockInv, NEW d \in Tasks, InsertIncident(d)
  PROVE  LockInv'
  <1>1. /\ sess[d] \in Sessions /\ EventOf[d] \in Events /\ RecordInv(EventOf[d])
        /\ inc' = inc /\ lock' = lock /\ redisUp' = redisUp
        /\ raw[EventOf[d]] = "absent" /\ Others(d)
    BY PipelineAssumption, SessionIs, GotoIs
    DEF InsertIncident, TypeOK, PipelineInv, SessionInv, database, redis, Others
  <1>2. CASE Goto(d, "reselect")
    BY <1>1, <1>2, GotoIs, LockOff DEF Recording, Deciding, SameClaims
  <1>3. CASE /\ Session(d, [sess[d] EXCEPT !.row = EventOf[d], !.fresh = TRUE,
                                          !.mem = NewIncident(Fp(d)),
                                          !.base = NoIncident(Fp(d))])
             /\ Goto(d, "save")
    <2> DEFINE s == [sess[d] EXCEPT !.row = EventOf[d], !.fresh = TRUE,
                                    !.mem = NewIncident(Fp(d)),
                                    !.base = NoIncident(Fp(d))]
    <2>4. s.row = EventOf[d]
      BY <1>1 DEF Sessions
    <2> HIDE DEF s
    <2>1. sess'[d].row = EventOf[d] /\ pc'[d] = "save"
      BY <1>1, <1>3, <2>4, SessionIs, GotoIs DEF s
    <2>2. inc[EventOf[d]].ts = NoTask
      <3>1. /\ FingerprintOf[EventOf[d]] \in Fingerprints
            /\ inc[EventOf[d]] = NoIncident(FingerprintOf[EventOf[d]])
        BY <1>1, PipelineAssumption DEF RecordInv
      <3> QED
        BY <3>1, FreshRows
    <2>3. ~Holding(d)' /\ ~Stale(d)'
      BY <1>1, <2>1, <2>2 DEF Holding, Stale
    <2> QED
      BY <1>1, <2>1, <2>3, LockLocal DEF SameClaims
  <1> QED
    BY <1>2, <1>3 DEF InsertIncident

\* Moving on with the same copy of the same row keeps a task as stale as it was.
LEMMA MovingOnLock ==
  ASSUME TypeOK, LockInv, NEW d \in Tasks, lock' = lock, redisUp' = redisUp,
         inc' = inc, pc[d] \in Recording, NEW to \in Recording \cup {"decide"},
         Goto(d, to), UNCHANGED sess
  PROVE  LockInv'
  <1>1. pc'[d] = to /\ Others(d) /\ sess[d].row \in Events
    BY GotoIs DEF Others, TypeOK, Sessions
  <1>2. ~Holding(d)'
    BY <1>1 DEF Holding, Recording
  <1>3. Stale(d)' => Stale(d)
    BY <1>1 DEF Stale, Recording
  <1> QED
    BY <1>1, <1>2, <1>3, LockLocal DEF SameClaims

LEMMA InsertBucketLock ==
  ASSUME TypeOK, TypeOK', LockInv, NEW d \in Tasks, InsertBucket(d)
  PROVE  LockInv'
  <1>1. /\ sess[d] \in Sessions /\ pc[d] = "bucket_insert"
        /\ inc' = inc /\ lock' = lock /\ redisUp' = redisUp
    BY DEF InsertBucket, TypeOK, database, redis
  <1>2. CASE Goto(d, "decide") /\ UNCHANGED sess
    BY <1>1, <1>2, MovingOnLock DEF Recording
  <1>3. CASE Goto(d, "raise") /\ UNCHANGED sess
    BY <1>1, <1>3, GotoIs, LockOff DEF Others, Recording, Deciding, SameClaims
  <1>4. CASE /\ Goto(d, "decide")
             /\ Session(d, [sess[d] EXCEPT !.fresh = FALSE, !.ghost = TRUE,
                                           !.rawRow = RolledBack(@)])
    <2> DEFINE s == [sess[d] EXCEPT !.fresh = FALSE, !.ghost = TRUE,
                                    !.rawRow = RolledBack(@)]
    <2>3. s.ghost /\ s.row \in Events
      BY <1>1 DEF Sessions
    <2> HIDE DEF s
    <2>1. /\ sess'[d].ghost /\ sess'[d].row \in Events /\ pc'[d] = "decide"
          /\ Others(d)
      BY <1>4, <2>3, SessionIs, GotoIs DEF Others, s
    <2>2. ~Holding(d)' /\ ~Stale(d)'
      BY <2>1 DEF Holding, Stale
    <2> QED
      BY <1>1, <2>1, <2>2, LockLocal DEF SameClaims
  <1> QED
    BY <1>2, <1>3, <1>4 DEF InsertBucket

\* Whoever takes the free lock is not stale: its row is still unclaimed.
LEMMA DecideLock ==
  ASSUME TypeOK, TypeOK', LockInv, NEW d \in Tasks, Decide(d)
  PROVE  LockInv'
  <1> DEFINE scored == UpdateScore(sess[d].mem, band[EventOf[d]] = "loud")
             quiet  == [sess[d] EXCEPT !.mem = scored, !.outcome = "quiet"]
             loud   == [sess[d] EXCEPT !.mem = scored]
  <1>1. /\ sess[d] \in Sessions /\ sess[d].mem \in Incidents /\ sess[d].row \in Events
        /\ pc[d] = "decide" /\ inc' = inc /\ redisUp' = redisUp /\ redisUp
        /\ Fp(d) \in Fingerprints
    BY PipelineAssumption DEF Decide, TypeOK, Sessions, database, LockInv, Fp
  <1>2. scored.ts = sess[d].mem.ts
    BY <1>1, UpdateScoreKeeps
  <1>5. /\ quiet.outcome = "quiet" /\ quiet.row = sess[d].row
        /\ loud.row = sess[d].row /\ (loud.ghost <=> sess[d].ghost)
    BY <1>1 DEF Sessions
  <1>6. \/ Session(d, quiet) /\ Goto(d, "commit") /\ lock' = lock
        \/ /\ ~AlreadyAlerted(scored) /\ CanAcquire(d)
           /\ lock' = IF redisUp THEN [lock EXCEPT ![Fp(d)] = d] ELSE lock
           /\ Session(d, loud) /\ Goto(d, "deliver")
    BY DEF Decide
  <1> HIDE DEF scored, quiet, loud
  <1>3. CASE Session(d, quiet) /\ Goto(d, "commit") /\ lock' = lock
    <2>1. /\ sess'[d].outcome = "quiet" /\ sess'[d].row = sess[d].row
          /\ pc'[d] = "commit" /\ Others(d)
      BY <1>3, <1>5, SessionIs, GotoIs DEF Others
    <2>2. ~Holding(d)' /\ ~Stale(d)'
      BY <2>1 DEF Holding, Stale, Recording
    <2> QED
      BY <1>1, <1>3, <2>1, <2>2, LockLocal DEF SameClaims
  <1>4. CASE /\ ~AlreadyAlerted(scored) /\ CanAcquire(d)
             /\ lock' = IF redisUp THEN [lock EXCEPT ![Fp(d)] = d] ELSE lock
             /\ Session(d, loud) /\ Goto(d, "deliver")
    <2>1. lock[Fp(d)] = NoTask /\ lock' = [lock EXCEPT ![Fp(d)] = d]
      BY <1>1, <1>4 DEF CanAcquire
    <2>2. sess[d].mem.ts = NoTask
      BY <1>2, <1>4 DEF AlreadyAlerted
    <2>3. ~sess[d].ghost => inc[sess[d].row].ts = NoTask
      BY <1>1, <2>1, <2>2 DEF LockInv, SessionLock, Stale
    <2>4. /\ sess'[d].row = sess[d].row /\ (sess'[d].ghost <=> sess[d].ghost)
          /\ pc'[d] = "deliver" /\ Others(d)
      BY <1>4, <1>5, SessionIs, GotoIs DEF Others
    <2>5. SessionLock(d)'
      BY <1>1, <2>1, <2>3, <2>4
      DEF SessionLock, Holding, Stale, Recording, TypeOK, Fp
    <2>6. ASSUME NEW o \in Tasks \ {d} PROVE SessionLock(o)'
      <3>1. SessionLock(o) /\ Fp(o) \in Fingerprints
        BY PipelineAssumption DEF LockInv, Fp
      <3>2. (Holding(o)' <=> Holding(o)) /\ (Stale(o)' <=> Stale(o))
        BY <1>1, <2>4 DEF Others, Holding, Stale
      <3>3. CASE Fp(o) = Fp(d)
        BY <2>1, <3>1, <3>2, <3>3, NoTaskAssumption DEF SessionLock, Fp
      <3>4. CASE Fp(o) # Fp(d)
        <4>1. lock'[Fp(o)] = lock[Fp(o)]
          BY <1>1, <2>1, <3>1, <3>4 DEF TypeOK
        <4>2. lock[Fp(o)] # d
          BY <3>1, <3>4, NoTaskAssumption DEF LockInv
        <4> QED
          BY <1>1, <2>4, <3>1, <3>2, <4>1, <4>2
          DEF SessionLock, Others, Fp, Holding, TypeOK
      <3> QED
        BY <3>3, <3>4
    <2>7. \A f \in Fingerprints : lock'[f] # NoTask => Fp(lock'[f]) = f
      BY <1>1, <2>1 DEF LockInv, TypeOK
    <2> QED
      BY <1>1, <2>5, <2>6, <2>7 DEF LockInv, Fp
  <1> QED
    BY <1>3, <1>4, <1>6

LEMMA DeliverLock ==
  ASSUME TypeOK, TypeOK', LockInv, NEW d \in Tasks, Deliver(d)
  PROVE  LockInv'
  <1> DEFINE detected == MarkDetected(sess[d].mem)
             winner   == [sess[d] EXCEPT !.mem = MarkDelivered(detected, d),
                                         !.outcome = "delivered"]
             loser    == [sess[d] EXCEPT !.mem = MarkFailed(detected),
                                         !.outcome = "failed"]
  <1>1. /\ sess[d] \in Sessions /\ sess[d].row \in Events /\ pc[d] = "deliver"
        /\ inc' = inc /\ lock' = lock /\ redisUp' = redisUp
        /\ Goto(d, "commit") /\ (Session(d, winner) \/ Session(d, loser))
    BY DEF Deliver, TypeOK, Sessions, database, redis
  <1>2. /\ winner.row = sess[d].row /\ (winner.ghost <=> sess[d].ghost)
        /\ loser.row = sess[d].row /\ (loser.ghost <=> sess[d].ghost)
    BY <1>1 DEF Sessions
  <1> HIDE DEF winner, loser
  <1>3. /\ sess'[d].row = sess[d].row /\ (sess'[d].ghost <=> sess[d].ghost)
        /\ pc'[d] = "commit" /\ Others(d)
    BY <1>1, <1>2, SessionIs, GotoIs DEF Others
  <1>4. Holding(d) /\ ~Stale(d)'
    BY <1>1, <1>3 DEF Holding, Stale, Recording
  <1>5. ~sess[d].ghost => inc[sess[d].row].ts = NoTask
    BY <1>1, <1>4 DEF LockInv, SessionLock
  <1> QED
    BY <1>1, <1>3, <1>4, <1>5, LockLocal DEF SameClaims

\* A commit that changes a claim is made by the lock's holder, on an unclaimed
\* row, and leaves the lock to its TTL: whoever is stale now finds it taken.
LEMMA ClaimIsFirst ==
  ASSUME TypeOK, PipelineInv, WinInv, LockInv, NEW d \in Tasks, Commit(d)
  PROVE  /\ sess[d].row \in Events
         /\ \A q \in Events \ {sess[d].row} : inc'[q] = inc[q]
         /\ inc'[sess[d].row].ts # inc[sess[d].row].ts =>
              /\ inc[sess[d].row].ts = NoTask
              /\ Holding(d)
              /\ sess[d].outcome = "delivered"
  <1> DEFINE r == sess[d].row
             x == RowToWrite(d)
  <1>1. r \in Events /\ pc[d] = "commit"
    BY DEF Commit, TypeOK, Sessions
  <1>2. CASE sess[d].ghost
    BY <1>1, <1>2 DEF Commit, WriteRow
  <1>3. CASE ~sess[d].ghost
    <2>1. inc' = [inc EXCEPT ![r] = x]
      BY <1>3 DEF Commit, WriteRow
    <2>2. x.ts # inc[r].ts => sess[d].outcome = "delivered"
      BY <1>1, <1>3, RowToWriteWin
    <2> HIDE DEF x
    <2>3. inc'[r] = x /\ \A q \in Events \ {r} : inc'[q] = inc[q]
      BY <1>1, <2>1 DEF TypeOK
    <2>4. sess[d].outcome = "delivered" => Holding(d) /\ inc[r].ts = NoTask
      BY <1>1, <1>3 DEF Holding, LockInv, SessionLock
    <2> QED
      BY <1>1, <2>2, <2>3, <2>4
  <1> QED
    BY <1>2, <1>3

LEMMA CommitLock ==
  ASSUME TypeOK, TypeOK', PipelineInv, WinInv, LockInv, NEW d \in Tasks, Commit(d)
  PROVE  LockInv'
  <1> DEFINE s == sess[d]
             r == s.row
             t == [s EXCEPT !.base = s.mem, !.fresh = FALSE, !.rawRow = "none"]
  <1>1. /\ s \in Sessions /\ r \in Events /\ pc[d] = "commit"
        /\ lock' = lock /\ redisUp' = redisUp /\ sess'[d].row \in Events
    BY DEF Commit, TypeOK, Sessions, redis
  <1>2. Others(d)
    BY SessionIs, GotoIs DEF Commit, Finish, Others
  <1>3. \/ s.outcome = "quiet" /\ pc'[d] = "acked"
        \/ s.outcome = "delivered" /\ pc'[d] = "enrich"
        \/ s.outcome \notin {"quiet", "delivered"} /\ pc'[d] = "release"
    BY GotoIs DEF Commit, Finish, AfterOutcome
  <1> HIDE DEF t
  <1>4. ~Stale(d)' /\ (Holding(d)' => Holding(d))
    BY <1>1, <1>3 DEF Stale, Holding, Recording
  <1>5. CASE SameClaims
    BY <1>1, <1>2, <1>3, <1>4, <1>5, LockLocal
  <1>6. CASE ~SameClaims
    <2>1. /\ inc[r].ts = NoTask /\ Holding(d) /\ s.outcome = "delivered"
          /\ \A q \in Events \ {r} : inc'[q] = inc[q]
      BY <1>6, ClaimIsFirst DEF SameClaims
    <2>2. ~Holding(d)' /\ lock[Fp(d)] = d
      BY <1>3, <2>1 DEF Holding, LockInv, SessionLock
    <2>3. SessionLock(d)'
      BY <1>4, <2>2 DEF SessionLock
    <2>4. ASSUME NEW o \in Tasks \ {d} PROVE SessionLock(o)'
      <3>1. /\ SessionLock(o) /\ Fp(o) \in Fingerprints /\ sess[o].row \in Events
            /\ FingerprintOf[sess[o].row] = Fp(o) /\ FingerprintOf[r] = Fp(d)
        BY PipelineAssumption
        DEF LockInv, WinInv, SessionWin, Fp, TypeOK, Sessions
      <3>2. Holding(o)' <=> Holding(o)
        BY <1>2 DEF Others, Holding
      <3>3. CASE sess[o].row = r
        <4>1. ~Holding(o) /\ lock[Fp(o)] = d
          BY <2>2, <3>1, <3>3 DEF SessionLock
        <4>2. lock'[Fp(o)'] = d /\ d # NoTask
          BY <1>1, <4>1, NoTaskAssumption DEF Fp
        <4> QED
          BY <2>2, <3>2, <4>1, <4>2 DEF SessionLock
      <3>4. CASE sess[o].row # r
        <4>1. inc'[sess[o].row] = inc[sess[o].row]
          BY <2>1, <3>1, <3>4
        <4>2. Stale(o)' <=> Stale(o)
          BY <1>2, <4>1 DEF Others, Stale
        <4>3. lock[Fp(o)] # NoTask /\ ~Holding(lock[Fp(o)]) => ~Holding(lock[Fp(o)])'
          BY <1>1, <1>2, <2>2, <3>1 DEF Others, Holding, TypeOK
        <4> QED
          BY <1>1, <1>2, <3>1, <3>2, <4>1, <4>2, <4>3 DEF SessionLock, Others, Fp
      <3> QED
        BY <3>3, <3>4
    <2> QED
      BY <1>1, <2>3, <2>4 DEF LockInv, Fp
  <1> QED
    BY <1>5, <1>6

LEMMA EnrichmentKeepsClaims ==
  ASSUME TypeOK, PipelineInv, WinInv, NEW d \in Tasks, CommitEnrichment(d)
  PROVE  /\ sess[d].row \in Events
         /\ SameClaims
         /\ \A q \in Events \ {sess[d].row} : inc'[q] = inc[q]
         /\ inc'[sess[d].row].enriched # inc[sess[d].row].enriched =>
              /\ inc'[sess[d].row].enriched = TRUE
              /\ inc[sess[d].row].ts # NoTask
  <1> DEFINE r == sess[d].row
             x == RowToWrite(d)
  <1>1. r \in Events /\ pc[d] = "commit_enrich"
    BY DEF CommitEnrichment, TypeOK, Sessions
  <1>2. CASE sess[d].ghost
    BY <1>1, <1>2 DEF CommitEnrichment, WriteRow, SameClaims
  <1>3. CASE ~sess[d].ghost
    <2>1. inc' = [inc EXCEPT ![r] = x]
      BY <1>3 DEF CommitEnrichment, WriteRow
    <2>2. /\ x.ts = inc[r].ts
          /\ x.enriched => x.ts # NoTask
          /\ x.enriched # inc[r].enriched => x.enriched = TRUE
      BY <1>1, <1>3, RowToWriteWin
    <2> HIDE DEF x
    <2>3. inc'[r] = x /\ \A q \in Events \ {r} : inc'[q] = inc[q]
      BY <1>1, <2>1 DEF TypeOK
    <2> QED
      BY <1>1, <2>2, <2>3 DEF SameClaims
  <1> QED
    BY <1>2, <1>3

LEMMA TaskStepLock ==
  ASSUME TypeOK, TypeOK', PipelineInv, WinInv, LockInv, NEW d \in Tasks, TaskStep(d)
  PROVE  LockInv'
  <1> USE DEF database, redis
  <1>1. CASE InsertIncident(d) \/ InsertBucket(d) \/ Decide(d) \/ Deliver(d)
               \/ Commit(d)
    BY <1>1, InsertIncidentLock, InsertBucketLock, DecideLock, DeliverLock, CommitLock
  <1>2. CASE FindIncident(d) \/ ReselectIncident(d)
    <2>1. CASE \E r \in OpenRows(Fp(d)) : AbsorbInto(d, r)
      BY <1>2, <2>1, AbsorbLock DEF FindIncident, ReselectIncident
    <2>2. CASE (Goto(d, "insert") \/ Goto(d, "raise")) /\ UNCHANGED sess
      <3>1. pc'[d] \in {"insert", "raise"} /\ Others(d)
        BY <2>2, GotoIs DEF Others
      <3> QED
        BY <1>2, <3>1, LockOff
        DEF FindIncident, ReselectIncident, Recording, Deciding, SameClaims
    <2> QED
      BY <1>2, <2>1, <2>2 DEF FindIncident, ReselectIncident
  <1>3. CASE SaveNormalized(d) \/ SelectBucket(d)
    <2>1. CASE Goto(d, "raise")
      BY <1>3, <2>1, GotoIs, LockOff
      DEF SaveNormalized, SelectBucket, Others, Recording, Deciding, SameClaims
    <2>2. CASE \E to \in Recording \cup {"decide"} : Goto(d, to)
      BY <1>3, <2>2, MovingOnLock DEF SaveNormalized, SelectBucket, Recording
    <2> QED
      BY <1>3, <2>1, <2>2 DEF SaveNormalized, SelectBucket, Recording
  <1>4. CASE SelectRaw(d) \/ InsertRaw(d) \/ EnrichmentLost(d) \/ DatabaseError(d)
               \/ RetryOrDrop(d) \/ Enrich(d)
    <2>1. Others(d)
      BY <1>4, SessionIs, GotoIs
      DEF SelectRaw, InsertRaw, EnrichmentLost, DatabaseError, RetryOrDrop,
          Enrich, Finish, Others
    <2>2. pc'[d] \notin Recording \cup Deciding \cup {"release"}
      BY <1>4, GotoIs
      DEF SelectRaw, InsertRaw, EnrichmentLost, DatabaseError, RetryOrDrop,
          Enrich, Finish, Recording, Deciding, AfterSelectRaw
    <2>3. inc' = inc /\ lock' = lock /\ redisUp' = redisUp
      BY <1>4
      DEF SelectRaw, InsertRaw, EnrichmentLost, DatabaseError, RetryOrDrop, Enrich
    <2> QED
      BY <2>1, <2>2, <2>3, LockOff DEF SameClaims
  <1>5. CASE CommitEnrichment(d)
    <2>1. pc'[d] = "acked" /\ Others(d) /\ lock' = lock /\ redisUp' = redisUp
      BY <1>5, SessionIs, GotoIs DEF CommitEnrichment, Finish, Others
    <2> QED
      BY <1>5, <2>1, EnrichmentKeepsClaims, LockOff DEF Recording, Deciding
  <1>6. CASE CommitFails(d) \/ ReleaseLock(d)
    <2>1. /\ pc'[d] \in {"raise", "acked"} /\ Others(d)
          /\ inc' = inc /\ redisUp' = redisUp /\ redisUp
      BY <1>6, SessionIs, GotoIs
      DEF CommitFails, ReleaseLock, Finish, Others, LockInv
    <2>2. CASE lock' = lock
      BY <2>1, <2>2, LockOff DEF Recording, Deciding, SameClaims
    <2>3. CASE lock' = Unlocked(d) /\ Holding(d)
      BY <2>1, <2>3, LockReleased DEF Unlocked
    <2> QED
      BY <1>6, <2>2, <2>3 DEF CommitFails, ReleaseLock, Holding
  <1> QED
    BY <1>1, <1>2, <1>3, <1>4, <1>5, <1>6 DEF TaskStep

LEMMA EnvironmentLock ==
  ASSUME TypeOK, TypeOK', LockInv, "redis" \notin Faults, Environment
  PROVE  LockInv'
  <1> USE DEF database, redis
  <1>1. ASSUME NEW d \in Tasks, Crash(d) \/ Redeliver(d)
        PROVE  LockInv'
    <2>1. /\ pc'[d] \in {"unacked", "lost", "queued"} /\ Others(d)
          /\ inc' = inc /\ lock' = lock /\ redisUp' = redisUp
      BY <1>1, SessionIs, GotoIs DEF Crash, Redeliver, Others
    <2> QED
      BY <2>1, LockOff DEF Recording, Deciding, SameClaims
  <1>2. ASSUME NEW f \in Fingerprints, LockExpires(f)
        PROVE  LockInv'
    <2>1. ASSUME NEW o \in Tasks PROVE SessionLock(o)'
      <3>1. SessionLock(o) /\ Fp(o) \in Fingerprints
        BY PipelineAssumption DEF LockInv, Fp
      <3>2. /\ Holding(o)' <=> Holding(o)
            /\ Stale(o)' <=> Stale(o)
        BY <1>2 DEF LockExpires, Holding, Stale
      <3>3. Fp(o) = f => ~Holding(o) /\ ~Stale(o) /\ pc[o] \notin {"deliver", "commit"}
        BY <1>2 DEF LockExpires, Holding, Stale, Running, Recording
      <3>4. Fp(o) # f => lock'[Fp(o)] = lock[Fp(o)]
        BY <1>2, <3>1 DEF LockExpires, TypeOK
      <3>5. \A h : Holding(h)' <=> Holding(h)
        BY <1>2 DEF LockExpires, Holding
      <3> QED
        BY <1>2, <3>1, <3>2, <3>3, <3>4, <3>5 DEF SessionLock, LockExpires, Fp
    <2>2. \A g \in Fingerprints : lock'[g] # NoTask => Fp(lock'[g]) = g
      BY <1>2 DEF LockExpires, LockInv, TypeOK
    <2> QED
      BY <1>2, <2>1, <2>2 DEF LockInv, LockExpires, Fp
  <1>3. ASSUME NEW r \in Events, OperatorCloses(r) \/ MatcherMatches(r)
        PROVE  LockInv'
    <2>1. lock' = lock /\ redisUp' = redisUp /\ pc' = pc /\ sess' = sess
      BY <1>3 DEF OperatorCloses, MatcherMatches
    <2>2. PICK st : inc' = [inc EXCEPT ![r].status = st]
      BY <1>3 DEF OperatorCloses, MatcherMatches
    <2>3. \A q \in Events : inc'[q].ts = inc[q].ts
      BY <2>2 DEF TypeOK, Incidents
    <2>4. ASSUME NEW o \in Tasks PROVE SessionLock(o)'
      <3>1. SessionLock(o) /\ sess[o].row \in Events
        BY DEF LockInv, TypeOK, Sessions
      <3>2. /\ \A h : Holding(h)' <=> Holding(h)
            /\ Stale(o)' <=> Stale(o)
        BY <2>1, <2>3, <3>1 DEF Holding, Stale
      <3> QED
        BY <2>1, <2>3, <3>1, <3>2 DEF SessionLock, Fp
    <2> QED
      BY <2>1, <2>4 DEF LockInv, Fp
  <1> QED
    BY <1>1, <1>2, <1>3 DEF Environment, RedisFlips

LEMMA LockInvariance ==
  ASSUME "redis" \notin Faults
  PROVE  Spec => []LockInv
  <1>1. Init => LockInv
    BY PipelineAssumption DEF Init, LockInv, SessionLock, Holding, Stale, Recording, Fp
  <1>2. /\ TypeOK /\ PipelineInv /\ WinInv /\ LockInv /\ TypeOK' /\ [Next]_vars
        => LockInv'
    <2> SUFFICES ASSUME TypeOK, PipelineInv, WinInv, LockInv, TypeOK', [Next]_vars
                 PROVE  LockInv'
      OBVIOUS
    <2>1. CASE UNCHANGED vars
      BY <2>1 DEF vars, LockInv, SessionLock, Holding, Stale, Fp
    <2> QED
      BY <2>1, TaskStepLock, EnvironmentLock DEF Next
  <1> QED
    BY <1>1, <1>2, WinInvariance, PTL DEF Spec

(***************************************************************************)
(* Refinement, step by step.                                               *)
(***************************************************************************)
claims  == [r \in Events |-> inc[r].ts]
riches  == [r \in Events |-> inc[r].enriched]

\* What a step of the pipeline shows of itself in the abstract benchmark.
LEMMA Invisible ==
  ASSUME sent' = sent, SameClaims, \A q \in Events : inc'[q].enriched = inc[q].enriched
  PROVE  UNCHANGED <<sent, claims, riches>>
  BY DEF SameClaims, claims, riches

LEMMA TaskStepRefines ==
  ASSUME TypeOK, PipelineInv, WinInv, "redis" \notin Faults => LockInv,
         NEW d \in Tasks, TaskStep(d)
  PROVE  Benchmark!Next \/ UNCHANGED <<sent, claims, riches>>
  <1> USE DEF database
  <1>1. CASE Commit(d)
    <2> DEFINE r == sess[d].row
               x == RowToWrite(d)
    <2>1. /\ r \in Events /\ sent' = sent /\ sess[d].mem.ts \in Tasks \cup {NoTask}
          /\ sent[r] \subseteq Tasks /\ pc[d] = "commit"
      BY <1>1 DEF Commit, TypeOK, Sessions, Incidents
    <2>2. CASE sess[d].ghost
      BY <1>1, <2>1, <2>2, Invisible DEF Commit, WriteRow, SameClaims
    <2>3. CASE ~sess[d].ghost
      <3>1. inc' = [inc EXCEPT ![r] = x]
        BY <1>1, <2>3 DEF Commit, WriteRow
      <3>2. /\ x.ts # NoTask => x.ts \in sent[r]
            /\ inc[r].ts # NoTask => x.ts # NoTask
            /\ x.enriched = inc[r].enriched
        BY <2>1, <2>3, RowToWriteWin
      <3>3. x.ts # inc[r].ts => x.ts \in sent[r]
        BY <3>2
      <3>4. x.ts # inc[r].ts /\ "redis" \notin Faults => inc[r].ts = NoTask
        <4>1. inc'[r] = x
          BY <2>1, <3>1 DEF TypeOK
        <4> QED
          BY <1>1, <4>1, ClaimIsFirst
      <3> HIDE DEF x
      <3>5. /\ inc'[r] = x
            /\ \A q \in Events \ {r} : inc'[q] = inc[q]
        BY <2>1, <3>1 DEF TypeOK
      <3>6. CASE x.ts = inc[r].ts
        <4>1. \A q \in Events : /\ inc'[q].ts = inc[q].ts
                                /\ inc'[q].enriched = inc[q].enriched
          BY <3>2, <3>5, <3>6
        <4> QED
          BY <2>1, <4>1, Invisible DEF SameClaims
      <3>7. CASE x.ts # inc[r].ts
        <4>1. claims' = [claims EXCEPT ![r] = x.ts]
          BY <2>1, <3>5 DEF claims
        <4>2. riches' = riches
          BY <3>2, <3>5 DEF riches
        <4>3. x.ts \in Tasks /\ claims[r] = inc[r].ts
          BY <2>1, <3>3, <3>7 DEF claims
        <4>4. PICK i \in Events, a \in Tasks : i = r /\ a = x.ts
          BY <2>1, <4>3
        <4>5. Benchmark!Claim(i, a)
          BY <2>1, <3>3, <3>4, <3>7, <4>1, <4>2, <4>3, <4>4
          DEF Benchmark!Claim, claims, riches
        <4> QED
          BY <4>5 DEF Benchmark!Next
      <3> QED
        BY <3>6, <3>7
    <2> QED
      BY <2>2, <2>3
  <1>2. CASE CommitEnrichment(d)
    <2> DEFINE r == sess[d].row
    <2>1. /\ r \in Events /\ SameClaims /\ sent' = sent
          /\ \A q \in Events \ {r} : inc'[q] = inc[q]
          /\ inc'[r].enriched # inc[r].enriched =>
               inc'[r].enriched = TRUE /\ inc[r].ts # NoTask
      BY <1>2, EnrichmentKeepsClaims DEF CommitEnrichment
    <2>2. CASE inc'[r].enriched = inc[r].enriched
      <3>1. \A q \in Events : inc'[q].enriched = inc[q].enriched
        BY <2>1, <2>2
      <3> QED
        BY <2>1, <3>1, Invisible
    <2>3. CASE inc'[r].enriched # inc[r].enriched
      <3>1. claims' = claims
        BY <2>1 DEF SameClaims, claims
      <3>2. riches' = [riches EXCEPT ![r] = TRUE]
        BY <2>1, <2>3 DEF riches
      <3>3. PICK i \in Events : i = r
        BY <2>1
      <3>4. Benchmark!Enrich(i)
        BY <2>1, <2>3, <3>1, <3>2, <3>3 DEF Benchmark!Enrich, claims, riches
      <3> QED
        BY <3>4 DEF Benchmark!Next
    <2> QED
      BY <2>2, <2>3
  <1>3. CASE Deliver(d)
    <2>1. sess[d].row \in Events /\ inc' = inc
      BY <1>3 DEF Deliver, TypeOK, Sessions
    <2>2. UNCHANGED <<claims, riches>>
      BY <2>1 DEF claims, riches
    <2>3. CASE sent' = sent
      BY <2>2, <2>3
    <2>4. CASE sent' = [sent EXCEPT ![sess[d].row] = @ \cup {d}]
      <3>1. PICK i \in Events : i = sess[d].row
        BY <2>1
      <3>2. Benchmark!Confirm(i, d)
        BY <2>2, <2>4, <3>1 DEF Benchmark!Confirm, claims, riches
      <3> QED
        BY <3>2 DEF Benchmark!Next
    <2> QED
      BY <1>3, <2>3, <2>4 DEF Deliver
  <1>4. CASE inc' = inc /\ sent' = sent
    BY <1>4, Invisible DEF SameClaims
  <1> QED
    BY <1>1, <1>2, <1>3, <1>4
    DEF TaskStep, SelectRaw, InsertRaw, FindIncident, InsertIncident,
        ReselectIncident, SaveNormalized, SelectBucket, InsertBucket, Decide,
        CommitFails, ReleaseLock, Enrich, EnrichmentLost, DatabaseError, RetryOrDrop,
        AbsorbInto

LEMMA EnvironmentRefines ==
  ASSUME TypeOK, Environment
  PROVE  UNCHANGED <<sent, claims, riches>>
  <1>1. sent' = sent
    BY DEF Environment, Crash, Redeliver, LockExpires, RedisFlips, OperatorCloses,
           MatcherMatches
  <1>2. \/ inc' = inc
        \/ \E r \in Events : \E st : inc' = [inc EXCEPT ![r].status = st]
    BY DEF Environment, Crash, Redeliver, LockExpires, RedisFlips, OperatorCloses,
           MatcherMatches, database
  <1>3. \A q \in Events : /\ inc'[q].ts = inc[q].ts
                          /\ inc'[q].enriched = inc[q].enriched
    <2>1. CASE inc' = inc
      BY <2>1
    <2>2. ASSUME NEW r \in Events, NEW st, inc' = [inc EXCEPT ![r].status = st]
          PROVE  \A q \in Events : /\ inc'[q].ts = inc[q].ts
                                  /\ inc'[q].enriched = inc[q].enriched
      BY <2>2 DEF TypeOK, Incidents
    <2> QED
      BY <1>2, <2>1, <2>2
  <1> QED
    BY <1>1, <1>3, Invisible DEF SameClaims

\* The pipeline implements the abstract benchmark: timestamps come from
\* confirmed alerts, are final while Redis answers, and precede enrichment.
THEOREM Refinement == Spec => ImplementsBenchmark
  <1>1. Init => Benchmark!Init
    <2> SUFFICES ASSUME Init PROVE Benchmark!Init
      OBVIOUS
    <2>1. \A e \in Events : inc[e].ts = NoTask /\ inc[e].enriched = FALSE
      <3> SUFFICES ASSUME NEW e \in Events
                   PROVE  inc[e].ts = NoTask /\ inc[e].enriched = FALSE
        OBVIOUS
      <3>1. /\ FingerprintOf[e] \in Fingerprints
            /\ inc[e] = NoIncident(FingerprintOf[e])
        BY PipelineAssumption DEF Init
      <3> QED
        BY <3>1, FreshRows
    <2> QED
      BY <2>1 DEF Init, Benchmark!Init
  <1>2. TypeOK /\ PipelineInv /\ WinInv /\ ("redis" \notin Faults => LockInv)
        /\ [Next]_vars => [Benchmark!Next]_(Benchmark!raceVars)
    <2> SUFFICES ASSUME TypeOK, PipelineInv, WinInv,
                        "redis" \notin Faults => LockInv, [Next]_vars
                 PROVE  Benchmark!Next \/ UNCHANGED Benchmark!raceVars
      OBVIOUS
    <2>1. CASE UNCHANGED vars
      BY <2>1 DEF vars, Benchmark!raceVars
    <2>2. CASE Next
      BY <2>2, TaskStepRefines, EnvironmentRefines
      DEF Next, Benchmark!raceVars, claims, riches
    <2> QED
      BY <2>1, <2>2
  <1>3. CASE "redis" \notin Faults
    BY <1>1, <1>2, <1>3, WinInvariance, LockInvariance, PTL
    DEF Spec, ImplementsBenchmark, Benchmark!Spec
  <1>4. CASE "redis" \in Faults
    <2>1. TypeOK /\ PipelineInv /\ WinInv /\ [Next]_vars
          => [Benchmark!Next]_(Benchmark!raceVars)
      BY <1>2, <1>4
    <2> QED
      BY <1>1, <2>1, WinInvariance, PTL DEF Spec, ImplementsBenchmark, Benchmark!Spec
  <1> QED
    BY <1>3, <1>4
=============================================================================
