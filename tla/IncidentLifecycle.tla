------------------------- MODULE IncidentLifecycle -------------------------
(***************************************************************************)
(* The incident row and the functions of app/incidents/service.py that     *)
(* change it.  They all work on the copy a database session holds in       *)
(* memory: each operator maps that copy to the copy after the call.        *)
(* AlertPipeline says when a copy is loaded and when it is written back.   *)
(*                                                                         *)
(* A row keeps the columns the properties tell apart:                      *)
(*   fp        fingerprint                                                 *)
(*   status    position in the state machine                               *)
(*   ts        agent_alert_timestamp, the benchmark field: the task whose  *)
(*             delivery set it, or NoTask for NULL                         *)
(*   notif     notification_status                                         *)
(*   count     event_count                                                 *)
(*   enriched  llm_summary is not NULL                                     *)
(***************************************************************************)
EXTENDS Naturals

CONSTANTS Tasks,         \* Celery messages, one per delivery of an event
          NoTask,        \* NULL, where a task is expected
          Fingerprints   \* dedup keys computed by the normalizers

ASSUME NoTaskAssumption == NoTask \notin Tasks

LiveStatuses == {"new", "observing", "detected", "alerted", "enriched",
                 "notification_failed", "matched_to_freshdesk", "ignored"}
ClosedStatuses == {"resolved", "false_positive"}
Statuses == LiveStatuses \cup ClosedStatuses

Incidents == [fp : Fingerprints, status : Statuses \cup {"absent"}, ts : Tasks \cup {NoTask},
              notif : {"pending", "delivered", "failed"}, count : Nat,
              enriched : BOOLEAN]

IsOpen(i) == i.status \in LiveStatuses

StateTransitions ==
  [new                  |-> {"observing", "detected", "alerted", "ignored"},
   observing            |-> {"detected", "alerted", "resolved", "ignored"},
   detected             |-> {"alerted", "notification_failed", "ignored"},
   alerted              |-> {"enriched", "matched_to_freshdesk", "resolved",
                             "false_positive"},
   enriched             |-> {"matched_to_freshdesk", "resolved", "false_positive"},
   notification_failed  |-> {"detected", "alerted", "ignored"},
   matched_to_freshdesk |-> {"resolved"},
   resolved             |-> {"new"},
   ignored              |-> {},
   false_positive       |-> {}]

CanTransition(current, new) ==
  \/ current = new
  \/ new \in StateTransitions[current]

\* transition_incident: an illegal edge is logged and leaves the status alone;
\* the caller's other assignments stand.
Transition(i, new) ==
  IF CanTransition(i.status, new) THEN [i EXCEPT !.status = new] ELSE i

NewIncident(f) ==
  [fp |-> f, status |-> "new", ts |-> NoTask, notif |-> "pending",
   count |-> 1, enriched |-> FALSE]

\* The table before the row is inserted.
NoIncident(f) == [NewIncident(f) EXCEPT !.status = "absent", !.count = 0]

Absorb(i) == [i EXCEPT !.count = @ + 1]

\* Reaching the medium score moves a new incident to observing.
UpdateScore(i, medium) ==
  IF medium /\ i.status = "new" THEN [i EXCEPT !.status = "observing"] ELSE i

MarkDetected(i) == Transition(i, "detected")

\* The one place that sets the benchmark timestamp.
MarkDelivered(i, d) ==
  Transition([i EXCEPT !.ts = d, !.notif = "delivered"], "alerted")

MarkFailed(i) ==
  Transition([i EXCEPT !.notif = "failed"], "notification_failed")

MarkEnriched(i) ==
  Transition([i EXCEPT !.enriched = TRUE], "enriched")

\* The worker's test that the race for this incident has already been run.
AlreadyAlerted(i) ==
  \/ i.ts # NoTask
  \/ i.status \in {"alerted", "enriched", "matched_to_freshdesk"}
=============================================================================
