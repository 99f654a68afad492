--------------------------- MODULE AlertDelivery ---------------------------
(***************************************************************************)
(* One alert on its way: AlertPipeline's Deliver, Commit and Enrich taken  *)
(* apart.  Slack is tried several times with growing pauses, PagerDuty and *)
(* email once each, and the first confirmation sets the benchmark          *)
(* timestamp; the analysis follows as a reply.  A request can be refused,  *)
(* answered, or accepted with the answer lost.  A run is one execution of  *)
(* the task for the incident; crashes, failed commits and failed alerts    *)
(* lead to further runs.                                                   *)
(***************************************************************************)
EXTENDS Integers, Sequences

CONSTANTS MaxAttempts,   \* SLACK_MAX_RETRIES, at least 1
          SlackTime,     \* longest request: connect and read, each up to
                         \* SLACK_TIMEOUT_SECONDS
          Pause,         \* seconds slept after attempt k
          PagerDutyTime, \* longest PagerDuty request
          EmailTime,     \* longest SMTP dialogue
          LockTtl,       \* ALERT_LOCK_TTL_SECONDS
          SlackId,       \* the channel id chat.postMessage answers with
          MaxRuns        \* bound

ASSUME DeliveryAssumption ==
  /\ MaxAttempts \in Nat \ {0} /\ MaxRuns \in Nat \ {0}
  /\ {SlackTime, PagerDutyTime, EmailTime, LockTtl} \subseteq Nat
  /\ Pause \in [1..MaxAttempts -> Nat]
  /\ SlackId \notin {"slack", "pagerduty", "email", "none"}

VARIABLES config,    \* transports with credentials
          pc, run, attempt,
          slack,     \* messages in the Slack channel, a message's id its index
          paged,     \* runs that triggered the PagerDuty incident
          mailed,    \* runs that sent the email
          confirmed, \* history: <<run, channel>> whose confirmation arrived
          result,    \* AlertDeliveryResult of the run
          row,       \* the committed incident
          elapsed    \* seconds since the alert lock was taken

vars == <<config, pc, run, attempt, slack, paged, mailed, confirmed, result, row, elapsed>>
people == <<slack, paged, mailed, confirmed>>

Runs     == 1..MaxRuns
Configs  == [slack : {"api", "webhook", "none"}, pagerduty : BOOLEAN, email : BOOLEAN]
Channels == {"slack", "pagerduty", "email"}
Ends     == {"done", "crashed"}

\* ts and thread are a run and a message id, 0 for NULL.
NoResult == [delivered |-> FALSE, channel |-> "none", attempts |-> 0, thread |-> 0]
NewRow   == [ts |-> 0, notif |-> "pending", channel |-> "none", attempts |-> 0,
             thread |-> 0, enriched |-> FALSE]

Init ==
  /\ config \in Configs
  /\ pc = "detect" /\ run = 1 /\ attempt = 0
  /\ slack = <<>> /\ paged = {} /\ mailed = {} /\ confirmed = {}
  /\ result = NoResult
  /\ row = NewRow
  /\ elapsed = 0

\* A request takes no time or all it is allowed.  The clock stops with the
\* commit of the alert: nothing depends on the lock afterwards.
Takes(longest) ==
  IF row.ts = 0 THEN elapsed' \in {elapsed, elapsed + longest} ELSE UNCHANGED elapsed

(***************************************************************************)
(* _deliver_with_retry, for the alert (pc "post") and the reply ("reply")  *)
(***************************************************************************)

\* mark_detected, and the choice between retrying and not_configured.
Detect ==
  /\ pc = "detect"
  /\ attempt' = IF config.slack = "none" THEN 0 ELSE 1
  /\ pc' = IF config.slack = "none" THEN "page" ELSE "post"
  /\ result' = NoResult
  /\ UNCHANGED <<config, run, people, row, elapsed>>

\* Mutant: the thread comes from the row alone.
ReplyThreadOfRow == IF config.slack = "api" THEN row.thread ELSE 0

\* The thread of a reply: the API takes thread_ts, a webhook has no threads.
ReplyThread ==
  CASE config.slack # "api" -> 0
    [] config.slack = "api" /\ result.thread # 0 -> result.thread
    [] config.slack = "api" /\ result.thread = 0 -> row.thread

Message ==
  [run |-> run, text |-> IF pc = "post" THEN "alert" ELSE "analysis",
   thread |-> IF pc = "post" THEN 0 ELSE ReplyThread]

\* chat.postMessage answers with the message's ts and the id of the channel;
\* an incoming webhook with neither, and the orchestrator fills in "slack".
SlackResult ==
  [delivered |-> TRUE, attempts |-> attempt,
   channel |-> IF config.slack = "api" THEN SlackId ELSE "slack",
   thread  |-> IF config.slack = "api" THEN Len(slack) + 1 ELSE 0]

\* Mutant: the fall-through goes on after a confirmed alert.
PostAnsweredContinuing ==
  /\ pc \in {"post", "reply"}
  /\ slack' = Append(slack, Message)
  /\ IF pc = "post"
     THEN /\ result' = SlackResult
          /\ confirmed' = confirmed \cup {<<run, "slack">>}
          /\ pc' = "page"
     ELSE pc' = "store" /\ UNCHANGED <<result, confirmed>>
  /\ Takes(SlackTime)
  /\ UNCHANGED <<config, run, attempt, paged, mailed, row>>

PostAnswered ==
  /\ pc \in {"post", "reply"}
  /\ slack' = Append(slack, Message)
  /\ IF pc = "post"
     THEN /\ result' = SlackResult
          /\ confirmed' = confirmed \cup {<<run, "slack">>}
          /\ pc' = "record"
     ELSE pc' = "store" /\ UNCHANGED <<result, confirmed>>
  /\ Takes(SlackTime)
  /\ UNCHANGED <<config, run, attempt, paged, mailed, row>>

\* Mutant: one attempt too many.
AttemptsLeftOffByOne == attempt <= MaxAttempts

AttemptsLeft == attempt < MaxAttempts

\* Refused, or accepted with the answer lost: the code cannot tell.
PostFails ==
  /\ pc \in {"post", "reply"}
  /\ slack' \in {slack, Append(slack, Message)}
  /\ \/ /\ AttemptsLeft
        /\ pc' = IF pc = "post" THEN "pause" ELSE "pauseReply"
        /\ UNCHANGED result
     \/ /\ ~AttemptsLeft /\ pc = "post"
        /\ pc' = "page"
        /\ result' = [NoResult EXCEPT !.channel = "slack", !.attempts = attempt]
     \/ /\ ~AttemptsLeft /\ pc = "reply"
        /\ pc' = "store"
        /\ UNCHANGED result
  /\ Takes(SlackTime)
  /\ UNCHANGED <<config, run, attempt, paged, mailed, confirmed, row>>

\* Mutant: the pause is given in milliseconds where seconds are expected.
BackoffInMilliseconds ==
  /\ pc \in {"pause", "pauseReply"}
  /\ pc' = IF pc = "pause" THEN "post" ELSE "reply"
  /\ attempt' = attempt + 1
  /\ elapsed' = IF row.ts = 0 THEN elapsed + 1000 * Pause[attempt] ELSE elapsed
  /\ UNCHANGED <<config, run, people, result, row>>

Backoff ==
  /\ pc \in {"pause", "pauseReply"}
  /\ pc' = IF pc = "pause" THEN "post" ELSE "reply"
  /\ attempt' = attempt + 1
  /\ elapsed' = IF row.ts = 0 THEN elapsed + Pause[attempt] ELSE elapsed
  /\ UNCHANGED <<config, run, people, result, row>>

(***************************************************************************)
(* The fallbacks                                                           *)
(***************************************************************************)

Confirmation(channel) ==
  /\ result' = [delivered |-> TRUE, channel |-> channel, attempts |-> 1, thread |-> 0]
  /\ confirmed' = confirmed \cup {<<run, channel>>}
  /\ pc' = "record"

Page ==
  /\ pc = "page"
  /\ \/ config.pagerduty /\ paged' = paged \cup {run} /\ Confirmation("pagerduty")
     \/ /\ \/ config.pagerduty /\ paged' \in {paged, paged \cup {run}}
           \/ ~config.pagerduty /\ UNCHANGED paged
        /\ pc' = "mail"
        /\ UNCHANGED <<result, confirmed>>
  /\ IF config.pagerduty THEN Takes(PagerDutyTime) ELSE UNCHANGED elapsed
  /\ UNCHANGED <<config, run, attempt, slack, mailed, row>>

\* Mutant: a failed email counts for the failed alert.
MailReturningItsOwn ==
  /\ pc = "mail"
  /\ \/ config.email /\ mailed' = mailed \cup {run} /\ Confirmation("email")
     \/ /\ UNCHANGED mailed
        /\ result' = [NoResult EXCEPT !.channel = "email", !.attempts = 1]
        /\ pc' = "record"
        /\ UNCHANGED confirmed
  /\ UNCHANGED <<config, run, attempt, slack, paged, row, elapsed>>

\* When email fails too, the result is Slack's.
Mail ==
  /\ pc = "mail"
  /\ \/ config.email /\ mailed' = mailed \cup {run} /\ Confirmation("email")
     \/ /\ \/ config.email /\ mailed' \in {mailed, mailed \cup {run}}
           \/ ~config.email /\ UNCHANGED mailed
        /\ pc' = "record"
        /\ UNCHANGED <<result, confirmed>>
  /\ IF config.email THEN Takes(EmailTime) ELSE UNCHANGED elapsed
  /\ UNCHANGED <<config, run, attempt, slack, paged, row>>

(***************************************************************************)
(* The outcome, committed, and the enrichment after it                     *)
(***************************************************************************)

\* Only a channel called "slack" keeps its thread.
MarkDelivered(r) ==
  [row EXCEPT !.ts = run, !.notif = "delivered", !.channel = r.channel,
              !.attempts = r.attempts,
              !.thread = IF r.channel = "slack" THEN r.thread ELSE @]

\* Mutant: a failed alert is recorded like a delivered one.
MarkFailedStamping(r) == [row EXCEPT !.ts = run, !.notif = "failed",
                                     !.attempts = r.attempts]

MarkFailed(r) == [row EXCEPT !.notif = "failed", !.attempts = r.attempts]

Record ==
  /\ pc = "record"
  /\ row' = IF result.delivered THEN MarkDelivered(result) ELSE MarkFailed(result)
  /\ pc' = IF result.delivered THEN "summary" ELSE "done"
  /\ UNCHANGED <<config, run, attempt, people, result, elapsed>>

\* The commit raises: the lock is released and the task retried.
RecordFails ==
  /\ pc = "record"
  /\ pc' = "crashed"
  /\ UNCHANGED <<config, run, attempt, people, result, row, elapsed>>

\* The LLM answers, or the attempt is logged and nothing else happens.
Summarize ==
  /\ pc = "summary"
  /\ \/ /\ pc' = IF config.slack = "none" THEN "store" ELSE "reply"
        /\ attempt' = IF config.slack = "none" THEN 0 ELSE 1
     \/ pc' = "done" /\ UNCHANGED attempt
  /\ UNCHANGED <<config, run, people, result, row, elapsed>>

\* The reply is best effort: the summary is stored whether it arrived or not.
Store ==
  /\ pc = "store"
  /\ row' = [row EXCEPT !.enriched = TRUE]
  /\ pc' = "done"
  /\ UNCHANGED <<config, run, attempt, people, result, elapsed>>

Crash ==
  /\ pc \notin Ends
  /\ pc' = "crashed"
  /\ UNCHANGED <<config, run, attempt, people, result, row, elapsed>>

\* Mutant: the next run does not look at the timestamp.
NextRunAnyway ==
  /\ pc \in Ends /\ run < MaxRuns
  /\ run' = run + 1
  /\ pc' = "detect" /\ attempt' = 0 /\ elapsed' = 0
  /\ UNCHANGED <<config, people, result, row>>

\* A retry, the broker's redelivery, or a later event of an incident whose
\* alert failed.  A committed timestamp ends the matter (already_alerted).
NextRun ==
  /\ pc \in Ends /\ run < MaxRuns
  /\ row.ts = 0
  /\ run' = run + 1
  /\ pc' = "detect" /\ attempt' = 0 /\ elapsed' = 0
  /\ UNCHANGED <<config, people, result, row>>

Next ==
  \/ Detect \/ PostAnswered \/ PostFails \/ Backoff \/ Page \/ Mail
  \/ Record \/ RecordFails \/ Summarize \/ Store \/ Crash \/ NextRun

Spec == Init /\ [][Next]_vars

(***************************************************************************)
(* Properties                                                              *)
(***************************************************************************)

\* Types.
TypeOK ==
  /\ config \in Configs
  /\ pc \in {"detect", "post", "pause", "page", "mail", "record", "summary", "reply",
             "pauseReply", "store"} \cup Ends
  /\ run \in Runs /\ attempt \in 0..MaxAttempts /\ elapsed \in Nat
  /\ slack \in Seq([run : Runs, text : {"alert", "analysis"}, thread : Nat])
  /\ paged \subseteq Runs /\ mailed \subseteq Runs
  /\ confirmed \subseteq Runs \X Channels
  /\ result \in [delivered : BOOLEAN, channel : Channels \cup {SlackId, "none"},
                 attempts : 0..MaxAttempts, thread : Nat]
  /\ row \in [ts : 0..MaxRuns, notif : {"pending", "delivered", "failed"},
              channel : Channels \cup {SlackId, "none"}, attempts : 0..MaxAttempts,
              thread : Nat, enriched : BOOLEAN]

\* "It is therefore impossible for the agent to claim a win without an actual
\* delivered notification": the run that set the timestamp had exactly one
\* confirmation, by the channel the row names (with a bot token, Slack's id for
\* the channel), and people saw that run's alert.
OneConfirmationPerWin ==
  row.ts # 0 =>
    /\ {x \in confirmed : x[1] = row.ts} =
         {<<row.ts, IF row.channel = SlackId THEN "slack" ELSE row.channel>>}
    /\ \/ \E k \in DOMAIN slack : slack[k].run = row.ts /\ slack[k].text = "alert"
       \/ row.ts \in paged \cup mailed

\* A channel further down the order is used only by a run that every channel
\* before it has failed, so a fallback never doubles a confirmed alert.
FallbackOnlyAfterFailure ==
  \A r \in Runs :
    /\ r \in paged => <<r, "slack">> \notin confirmed
    /\ r \in mailed => <<r, "slack">> \notin confirmed /\ <<r, "pagerduty">> \notin confirmed

\* "The failed record keeps the Slack (primary) attempt count."
FailureKeepsSlackAttempts ==
  row.notif = "failed" =>
    row.attempts = IF config.slack = "none" THEN 0 ELSE MaxAttempts

\* The analysis is posted by the run that won, after its alert, and in a thread
\* only under an alert of that run; a thread is used whenever Slack gave one.
RepliesFollowTheAlert ==
  \A k \in DOMAIN slack :
    slack[k].text = "analysis" =>
      /\ row.ts = slack[k].run
      /\ slack[k].thread # 0 =>
           /\ slack[k].thread < k
           /\ slack[slack[k].thread] = [run |-> row.ts, text |-> "alert", thread |-> 0]
      /\ (config.slack = "api" /\ <<row.ts, "slack">> \in confirmed) => slack[k].thread # 0

\* The whole delivery fits into the lifetime of the alert lock, so that no
\* second task starts one meanwhile: the reason why AlertPipeline lets a lock
\* expire only when no task of its fingerprint runs.
DeliveryFitsTheLock ==
  pc \in {"detect", "post", "pause", "page", "mail", "record"} => elapsed < LockTtl

\* The race as the benchmark sees it, with runs as alerts.
Benchmark == INSTANCE BenchmarkRace WITH
  Incidents  <- {"incident"},
  Alerts     <- Runs,
  NoAlert    <- 0,
  ClaimFinal <- TRUE,
  confirmed  <- [i \in {"incident"} |-> {x[1] : x \in confirmed}],
  claim      <- [i \in {"incident"} |-> row.ts],
  enriched   <- [i \in {"incident"} |-> row.enriched]

\* Confirm, then claim once, then enrich, whatever the channels do.
ImplementsBenchmark == Benchmark!Spec
=============================================================================
