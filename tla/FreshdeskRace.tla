--------------------------- MODULE FreshdeskRace ---------------------------
(***************************************************************************)
(* The race against Freshdesk: app/freshdesk/ingest.py (one ticket, inside *)
(* the webhook request), app/workers/freshdesk_sync.py (a batch, from      *)
(* beat, from the manual route, and behind every webhook), and the matcher *)
(* both of them run in their own database session.                         *)
(*                                                                         *)
(* A run is a process with one session at a time.  A sync run returns to   *)
(* idle and starts again (beat, every 60 s); a hook is the one webhook     *)
(* request for a ticket, followed by its background sync.  The database is *)
(* PostgreSQL at READ COMMITTED, as in AlertPipeline.  The match table has *)
(* no unique key but its own id.                                           *)
(*                                                                         *)
(* Times are milliseconds and confidences hundredths.  The clock jumps     *)
(* between the instants of Moments.  Incidents have distinct fingerprints. *)
(* Status writes from elsewhere (delivery, enrichment, an operator) are    *)
(* steps of the environment; AlertPipeline models where they come from.    *)
(*                                                                         *)
(* What the runs write is counted by the scoreboard, GET                   *)
(* /dashboard/summary in app/dashboard/routes.py.  The page is put         *)
(* together from several statements, so what it counts first may be over   *)
(* when it counts the rest.  Counters of one statement (failed deliveries, *)
(* false positives) are left out, and so is how a number is written.       *)
(***************************************************************************)
EXTENDS Integers, FiniteSets

CONSTANTS Incidents, Tickets,
          Syncs,       \* processes that run sync_freshdesk_tickets
          Hooks,       \* webhook requests
          NoRun,       \* a free row lock
          HookTicket,  \* the ticket a webhook request carries
          AlertAt,     \* when the incident's alert is delivered
          Created,     \* when the customer creates the ticket
          Confidence,  \* explain_match(incident, ticket).confidence, by
                       \* whether the incident has its summary
          Threshold,   \* FRESHDESK_MATCH_CONFIDENCE_THRESHOLD
          LookBack, Window, \* the match window around the alert
          TieGrace,    \* tie_grace_seconds
          Lookup,      \* how far back a sync asks for tickets
          PageSize,    \* per_page
          MaxRetries,  \* max_retries of the Celery task
          Moments,     \* instants the clock may show
          Faults       \* environment actions enabled in this instance

Runs == Syncs \cup Hooks

ASSUME RaceAssumption ==
  /\ NoRun \notin Runs
  /\ Syncs \cap Hooks = {}
  /\ HookTicket \in [Hooks -> Tickets]
  /\ AlertAt \in [Incidents -> Int]
  /\ Created \in [Tickets -> Int]
  /\ Confidence \in [BOOLEAN -> [Incidents -> [Tickets -> 0..100]]]
  /\ Threshold \in 1..100
  /\ {LookBack, Window, TieGrace, Lookup} \subseteq Nat
  /\ PageSize \in Nat \ {0}
  /\ MaxRetries \in Nat
  /\ Moments \subseteq Int
  /\ Faults \subseteq {"db", "api", "operator", "enrichment", "reader"}
  /\ IsFiniteSet(Incidents) /\ IsFiniteSet(Tickets) /\ IsFiniteSet(Runs)

VARIABLES
  now,      \* wall clock
  status,   \* committed status of each incident
  enriching, \* incidents whose enrichment commit is still to come
  saved,    \* committed rows of freshdesk_tickets
  matches,  \* committed rows of incident_freshdesk_matches
  rowLock,  \* row lock of each incident
  pc,       \* control state of each run
  tries,    \* Celery retries used
  sess,     \* the run's session
  page      \* what a request for the scoreboard has counted so far

database == <<status, saved, matches>>
race == <<now, status, enriching, saved, matches, rowLock, pc, tries, sess>>
vars == <<race, page>>

IncidentStatuses == {"undelivered", "alerted", "enriched",
                     "matched_to_freshdesk", "resolved"}
Outcomes == {"agent_won", "agent_lost", "tie"}
Matches  == [run : Runs, ticket : Tickets, incident : Incidents, outcome : Outcomes]

Working  == {"select", "insert", "load", "check", "flush"}
Controls == Working \cup {"idle", "raise", "gaveup", "waiting", "backfill",
                          "done", "failed"}

NoSession == [batch |-> {},  \* tickets of the batch not yet matched
              new |-> {},    \* tickets this session inserts
              cands |-> {},  \* candidate incidents, loaded once per batch
              told |-> {},   \* the incidents loaded with their summary
              pend |-> {},   \* match rows added to the session
              sync |-> TRUE] \* a full sync, not the webhook's own ticket

Sessions == [batch : SUBSET Tickets, new : SUBSET Tickets,
             cands : SUBSET Incidents, told : SUBSET Incidents,
             pend : SUBSET Matches, sync : BOOLEAN]

NoPage == [read |-> "nothing", alerted |-> 0, matched |-> 0]

Pages == [read : {"nothing", "alerted", "matches"}, alerted : Nat, matched : Nat]

TypeOK ==
  /\ now \in Moments
  /\ status \in [Incidents -> IncidentStatuses]
  /\ enriching \subseteq Incidents
  /\ saved \subseteq Tickets
  /\ matches \subseteq Matches
  /\ rowLock \in [Incidents -> Runs \cup {NoRun}]
  /\ pc \in [Runs -> Controls]
  /\ tries \in [Runs -> 0..MaxRetries]
  /\ sess \in [Runs -> Sessions]
  /\ page \in Pages

Init ==
  /\ now \in {m \in Moments : \A n \in Moments : m <= n}
  /\ status = [i \in Incidents |-> "undelivered"]
  /\ enriching = {}
  /\ saved = {}
  /\ matches = {}
  /\ rowLock = [i \in Incidents |-> NoRun]
  /\ pc = [r \in Runs |-> IF r \in Syncs THEN "idle" ELSE "waiting"]
  /\ tries = [r \in Runs |-> 0]
  /\ sess = [r \in Runs |-> NoSession]
  /\ page = NoPage

(***************************************************************************)
(* The matcher's rules.                                                    *)
(***************************************************************************)

\* int() of a timedelta's seconds truncates toward zero.
WholeSeconds(ms) == IF ms >= 0 THEN ms \div 1000 ELSE -((-ms) \div 1000)

\* Mutant: a delta truncated to zero is a win.
ClassifyOutcomeAtZero(delta) ==
  CASE delta >= 0         -> "agent_won"
    [] delta < -TieGrace -> "agent_lost"
    [] OTHER              -> "tie"

ClassifyOutcome(delta) ==
  CASE delta > 0          -> "agent_won"
    [] delta < -TieGrace -> "agent_lost"
    [] OTHER              -> "tie"

Outcome(i, t) == ClassifyOutcome(WholeSeconds(Created[t] - AlertAt[i]))

InWindow(i, t) ==
  /\ AlertAt[i] - LookBack <= Created[t]
  /\ Created[t] <= AlertAt[i] + Window

\* Related with the model's summary of the incident and without it.
Related(i, t) ==
  InWindow(i, t) /\ \A told \in BOOLEAN : Confidence[told][i][t] >= Threshold

Delivered  == {i \in Incidents : status[i] # "undelivered"}
Summarized == Delivered \ enriching

\* Mutant: an enriched incident has left the race.
CandidatesAlerted == {i \in Delivered : status[i] = "alerted"}

\* resolved stands for every status the query excludes but the match's own.
Candidates ==
  {i \in Delivered : status[i] \notin {"matched_to_freshdesk", "resolved"}}

\* The best candidates in the window.  The list has no order, and only a
\* strictly better confidence replaces an earlier one.
Score(r, i, t) == Confidence[(i \in sess[r].told)][i][t]

Best(r, t) ==
  LET inWindow == {i \in sess[r].cands : InWindow(i, t)}
  IN  {i \in inWindow : \A j \in inWindow : Score(r, j, t) <= Score(r, i, t)}

(***************************************************************************)
(* Tickets Freshdesk returns: newest first, one page.                      *)
(***************************************************************************)
Newest(S) == {t \in S : \A u \in S : Created[u] <= Created[t]}

FirstPage(S) ==
  {t \in S : Cardinality({u \in S : Created[u] > Created[t]}) < PageSize}

Visible == {t \in Tickets : Created[t] <= now}
Recent  == {t \in Visible : Created[t] >= now - Lookup}

(***************************************************************************)
(* Sessions, locks and waits.                                              *)
(***************************************************************************)
Inserting(r) == IF pc[r] \in {"load", "check", "flush"} THEN sess[r].new ELSE {}
ToLock(r)    == {m.incident : m \in sess[r].pend}

\* The runs whose uncommitted rows or row locks r is waiting for.
Blockers(r) ==
  CASE pc[r] = "insert" -> {o \in Runs \ {r} : Inserting(o) \cap sess[r].new # {}}
    [] pc[r] = "flush"  -> {rowLock[i] : i \in ToLock(r)} \ {r, NoRun}
    [] OTHER            -> {}

\* r waits in a cycle, each run of it for the next.
Deadlocked(r) ==
  \E S \in SUBSET Runs : r \in S /\
    \E next \in [S -> S] :
      \A o \in S : next[o] \in Blockers(o) /\ \E p \in S : next[p] = o

\* Mutant: row locks outlive the transaction.
LocksKept(r) == rowLock

LocksFreed(r) ==
  [i \in Incidents |-> IF rowLock[i] = r THEN NoRun ELSE rowLock[i]]

Goto(r, to)   == pc' = [pc EXCEPT ![r] = to]
Session(r, s) == sess' = [sess EXCEPT ![r] = s]

\* An exception leaves the session: rollback.
Abort(r) ==
  /\ Goto(r, "raise")
  /\ Session(r, [NoSession EXCEPT !.sync = sess[r].sync])
  /\ rowLock' = LocksFreed(r)
  /\ UNCHANGED <<now, page, database, enriching, tries>>

(***************************************************************************)
(* The webhook request and the sync: fetch, then save the tickets.         *)
(***************************************************************************)

\* The webhook carries one ticket, which has just been created.
ReceiveWebhook(h) ==
  /\ h \in Hooks
  /\ pc[h] = "waiting"
  /\ HookTicket[h] \in Visible
  /\ Session(h, [NoSession EXCEPT !.batch = {HookTicket[h]}, !.sync = FALSE])
  /\ Goto(h, "select")
  /\ UNCHANGED <<now, page, database, enriching, rowLock, tries>>

\* What a run returns to when it has nothing more to do.
Rest(r) == IF r \in Syncs THEN "idle" ELSE "done"

\* get_tickets: every recent ticket and any older one updated lately; an API
\* error reads as no tickets.
FetchTickets(r) ==
  /\ pc[r] \in {"idle", "backfill"}
  /\ \/ \E older \in SUBSET (Visible \ Recent) :
          /\ Recent \cup older # {}
          /\ Session(r, [NoSession EXCEPT !.batch = FirstPage(Recent \cup older)])
          /\ Goto(r, "select")
     \/ /\ Recent = {} \/ "api" \in Faults
        /\ pc[r] = "backfill"
        /\ Goto(r, Rest(r))
        /\ UNCHANGED sess
  /\ UNCHANGED <<now, page, database, enriching, rowLock, tries>>

\* db.get each ticket.
SelectTickets(r) ==
  /\ pc[r] = "select"
  /\ Session(r, [sess[r] EXCEPT !.new = sess[r].batch \ saved])
  /\ Goto(r, "insert")
  /\ UNCHANGED <<now, page, database, enriching, rowLock, tries>>

\* Mutant: a concurrent insert of the ticket fails this one at once.
InsertTicketsNoWait(r) ==
  /\ pc[r] = "insert"
  /\ IF sess[r].new \cap saved # {} \/ Blockers(r) # {}
     THEN Abort(r)
     ELSE /\ Goto(r, "load")
          /\ UNCHANGED <<now, page, database, enriching, rowLock, tries, sess>>

\* Flush the new ones; the primary key lets one run in.
InsertTickets(r) ==
  /\ pc[r] = "insert"
  /\ Blockers(r) = {}
  /\ IF sess[r].new \cap saved # {}
     THEN Abort(r)
     ELSE /\ Goto(r, "load")
          /\ UNCHANGED <<now, page, database, enriching, rowLock, tries, sess>>

(***************************************************************************)
(* match_incidents_to_freshdesk.                                           *)
(***************************************************************************)
LoadCandidates(r) ==
  /\ pc[r] = "load"
  /\ Session(r, [sess[r] EXCEPT !.cands = Candidates,
                                !.told = Candidates \cap Summarized])
  /\ Goto(r, "check")
  /\ UNCHANGED <<now, page, database, enriching, rowLock, tries>>

\* Mutant: a ticket already matched is not noticed.
ExistingIgnored(r, t) == {}

\* Match rows of the ticket this session can see.
Existing(r, t) == {m \in matches \cup sess[r].pend : m.ticket = t}

\* The next ticket, newest first.  More than one existing row raises
\* MultipleResultsFound; one skips the ticket; a best candidate above the
\* threshold is matched.
CheckTicket(r) ==
  /\ pc[r] = "check"
  /\ \E t \in Newest(sess[r].batch) :
       LET rest == [sess[r] EXCEPT !.batch = @ \ {t}]
           best == {i \in Best(r, t) : Score(r, i, t) >= Threshold}
       IN
       \/ /\ Cardinality(Existing(r, t)) > 1
          /\ Abort(r)
       \/ /\ Cardinality(Existing(r, t)) = 1 \/ (Existing(r, t) = {} /\ best = {})
          /\ Session(r, rest)
          /\ UNCHANGED <<now, page, database, enriching, rowLock, pc, tries>>
       \/ /\ Existing(r, t) = {}
          /\ \E i \in best :
               Session(r, [rest EXCEPT !.pend = @ \cup
                 {[run |-> r, ticket |-> t, incident |-> i, outcome |-> Outcome(i, t)]}])
          /\ Goto(r, "flush")
          /\ UNCHANGED <<now, page, database, enriching, rowLock, tries>>

\* The INSERT of the match and the UPDATE of the incident's status, which waits
\* for the row lock.
FlushMatch(r) ==
  /\ pc[r] = "flush"
  /\ Blockers(r) = {}
  /\ rowLock' = [i \in Incidents |-> IF i \in ToLock(r) THEN r ELSE rowLock[i]]
  /\ Goto(r, "check")
  /\ UNCHANGED <<now, page, database, enriching, tries, sess>>

\* PostgreSQL breaks a cycle of waits by failing one of its members.
DeadlockVictim(r) == Deadlocked(r) /\ Abort(r)

\* Mutant: the match rows are not committed with the status.
CommittedLate(r) == matches

Committed(r) == matches \cup sess[r].pend

\* The batch is done: tickets, matches and statuses commit together.
CommitRun(r) ==
  /\ pc[r] = "check"
  /\ sess[r].batch = {}
  /\ saved' = saved \cup sess[r].new
  /\ matches' = Committed(r)
  /\ status' = [i \in Incidents |->
                  IF i \in ToLock(r) THEN "matched_to_freshdesk" ELSE status[i]]
  /\ rowLock' = LocksFreed(r)
  /\ Goto(r, IF sess[r].sync THEN Rest(r) ELSE "backfill")
  /\ Session(r, NoSession)
  /\ tries' = [tries EXCEPT ![r] = 0]
  /\ UNCHANGED <<now, page, enriching>>

(***************************************************************************)
(* Failure.  A webhook answers 500; its background sync was called         *)
(* directly and does not retry; a sync task retries.                       *)
(***************************************************************************)
EndHook(h) ==
  /\ h \in Hooks
  /\ pc[h] = "raise"
  /\ Goto(h, IF sess[h].sync THEN "done" ELSE "failed")
  /\ UNCHANGED <<now, page, database, enriching, rowLock, tries, sess>>

\* Mutant: one retry too many.
RetriesLeftOffByOne(s) == tries[s] <= MaxRetries

RetriesLeft(s) == tries[s] < MaxRetries

RetrySync(s) ==
  /\ s \in Syncs
  /\ pc[s] = "raise"
  /\ \/ /\ RetriesLeft(s)
        /\ tries' = [tries EXCEPT ![s] = @ + 1]
        /\ Goto(s, "idle")
     \/ /\ ~RetriesLeft(s)
        /\ Goto(s, "gaveup")
        /\ UNCHANGED tries
  /\ UNCHANGED <<now, page, database, enriching, rowLock, sess>>

\* Beat sends a new task.
NextCycle(s) ==
  /\ s \in Syncs
  /\ pc[s] = "gaveup"
  /\ Goto(s, "idle")
  /\ tries' = [tries EXCEPT ![s] = 0]
  /\ UNCHANGED <<now, page, database, enriching, rowLock, sess>>

DatabaseError(r) ==
  /\ "db" \in Faults
  /\ pc[r] \in Working
  /\ Abort(r)

(***************************************************************************)
(* The environment.                                                        *)
(***************************************************************************)
Tick ==
  /\ \E m \in Moments : m > now /\ now' = m
  /\ UNCHANGED <<page, database, enriching, rowLock, pc, tries, sess>>

\* AlertPipeline commits a delivered alert.
CommitDelivery(i) ==
  /\ status[i] = "undelivered"
  /\ AlertAt[i] <= now
  /\ status' = [status EXCEPT ![i] = "alerted"]
  /\ enriching' = enriching \cup {i}
  /\ UNCHANGED <<now, page, saved, matches, rowLock, pc, tries, sess>>

\* AlertPipeline commits the enrichment, over whatever status the row has.
CommitEnrichment(i) ==
  /\ "enrichment" \in Faults
  /\ i \in enriching
  /\ rowLock[i] = NoRun
  /\ enriching' = enriching \ {i}
  /\ status' = [status EXCEPT ![i] = "enriched"]
  /\ UNCHANGED <<now, page, saved, matches, rowLock, pc, tries, sess>>

OperatorResolves(i) ==
  /\ "operator" \in Faults
  /\ rowLock[i] = NoRun
  /\ status[i] \in {"alerted", "enriched", "matched_to_freshdesk"}
  /\ status' = [status EXCEPT ![i] = "resolved"]
  /\ UNCHANGED <<now, page, enriching, saved, matches, rowLock, pc, tries, sess>>

(***************************************************************************)
(* The scoreboard, one statement a step.                                   *)
(***************************************************************************)

\* Mutant: the rows of the table instead of the tickets they name.
MatchedRows == Cardinality(matches)

MatchedTickets == Cardinality({m.ticket : m \in matches})

\* Mutant: ties and losses do not count as tickets.
RowsWon == Cardinality({m \in matches : m.outcome = "agent_won"})

TotalMatched == Cardinality(matches)

Prevented  == page.alerted - TotalMatched
Unmatched  == IF Cardinality(saved) > page.matched THEN Cardinality(saved) - page.matched ELSE 0

CountAlerted ==
  /\ "reader" \in Faults
  /\ page.read = "nothing"
  /\ page' = [NoPage EXCEPT !.read = "alerted", !.alerted = Cardinality(Delivered)]
  /\ UNCHANGED race

\* Reports the outcomes and the alerts that prevented a ticket.
LoadMatches ==
  /\ page.read = "alerted"
  /\ page' = [NoPage EXCEPT !.read = "matches", !.matched = MatchedTickets]
  /\ UNCHANGED race

\* Reports the tickets the agent did not see coming.
CountTickets ==
  /\ page.read = "matches"
  /\ page' = NoPage
  /\ UNCHANGED race

(***************************************************************************)
(* The specification.                                                      *)
(***************************************************************************)
RunStep(r) ==
  \/ ReceiveWebhook(r) \/ FetchTickets(r) \/ SelectTickets(r) \/ InsertTickets(r)
  \/ LoadCandidates(r) \/ CheckTicket(r) \/ FlushMatch(r) \/ DeadlockVictim(r)
  \/ CommitRun(r) \/ EndHook(r) \/ RetrySync(r) \/ NextCycle(r)

Environment ==
  \/ Tick
  \/ \E i \in Incidents : CommitDelivery(i) \/ CommitEnrichment(i) \/ OperatorResolves(i)
  \/ \E r \in Runs : DatabaseError(r)

Summary == CountAlerted \/ LoadMatches \/ CountTickets

Next == (\E r \in Runs : RunStep(r)) \/ Environment \/ Summary

Spec == Init /\ [][Next]_vars

\* Beat and the web server keep every run going, and PostgreSQL serves the
\* waiters for a row lock or an uncommitted key in turn.  Nobody has to look at
\* the page.
FairSpec ==
  /\ Spec
  /\ \A r \in Runs : /\ WF_vars(RunStep(r))
                     /\ SF_vars(InsertTickets(r) \/ FlushMatch(r))

\* ... and the database stays up from some time on.
RecoveringSpec == FairSpec /\ <>[][\A r \in Runs : ~DatabaseError(r)]_vars

(***************************************************************************)
(* Properties.                                                             *)
(***************************************************************************)

\* A ticket is matched at most once: the check for an existing match row, made
\* before the new row is written, is enough when one sync runs at a time
\* (matcher.py, "Check if this ticket was already matched").
OneMatchPerTicket ==
  \A m, n \in matches : m.ticket = n.ticket => m = n

\* Truncating the delta to whole seconds favours neither side: a recorded win has
\* a delivered alert that precedes its ticket, if only by milliseconds, and a
\* recorded loss a ticket that precedes the alert by more than the grace.
OutcomeByTheRule ==
  \A m \in matches :
    /\ m.incident \in Delivered
    /\ m.outcome = "agent_won" => AlertAt[m.incident] < Created[m.ticket]
    /\ m.outcome = "agent_lost" =>
         Created[m.ticket] + 1000 * TieGrace < AlertAt[m.incident]

\* An answered webhook has left its ticket in the database, although the sync
\* inserts the same ticket concurrently and one of the two fails (README,
\* "persists the ticket and runs the matcher inside the request").
WebhookPersists ==
  \A h \in Hooks : pc[h] \in {"backfill", "done", "failed"} => HookTicket[h] \in saved

\* The scoreboard and the state machine agree: an incident is matched only
\* together with the row that says against which ticket.
MatchedHasRow ==
  \A i \in Incidents :
    status[i] = "matched_to_freshdesk" => \E m \in matches : m.incident = i

\* The page never claims more prevented tickets than there are alerted
\* incidents without a match row when it reads the rows, whatever was delivered
\* and matched since it counted the alerts (routes.py, "Incidents without any
\* ticket (prevented)").  It may claim fewer.
PreventedNeverOverstated ==
  [][LoadMatches =>
       Prevented <= Cardinality({i \in Delivered : \A m \in matches : m.incident # i})]_vars

\* Every ticket without a match row is in the page's count of unmatched tickets,
\* although the rows were read earlier and a ticket may have two (routes.py,
\* "Shown, not buried").
NothingBuried ==
  [][CountTickets =>
       Unmatched >= Cardinality({t \in saved : \A m \in matches : m.ticket # t})]_vars

\* Every sync cycle ends and the next can start, through lock waits, deadlocks
\* and failed retries.
SyncsKeepCycling == \A s \in Syncs : []<>(pc[s] = "idle")

\* A delivered incident with a related ticket is scored, unless the ticket goes
\* to another incident or the incident is closed, while one sync runs at a time.
RelatedTicketIsScored ==
  \A i \in Incidents, t \in Tickets :
    (i \in Delivered /\ t \in Recent /\ Related(i, t)) ~>
      \/ status[i] \in {"matched_to_freshdesk", "resolved"}
      \/ \E m \in matches : m.ticket = t

\* A win means the alert preceded the FIRST related ticket (README, Success
\* Metric), so no related ticket is older than the alert of a won incident.
WinBeatsFirstTicket ==
  \A m \in matches, t \in saved :
    m.outcome = "agent_won" /\ Related(m.incident, t) =>
      AlertAt[m.incident] < Created[t]
=============================================================================
