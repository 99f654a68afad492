--------------------------- MODULE DeliveryProofs ---------------------------
(***************************************************************************)
(* Proofs about AlertDelivery, for any number of attempts and runs and any *)
(* times: types, the single confirmation behind a win, the order of the    *)
(* channels, the time under the lock, and the abstract benchmark.          *)
(*                                                                         *)
(* The inductive argument: until a run has recorded its outcome the row    *)
(* has no timestamp; while the channels are being tried the run has no     *)
(* confirmation yet; and the run that holds a result to record got it from *)
(* the confirmation it has.                                                *)
(***************************************************************************)
EXTENDS AlertDelivery, TLAPS

Trying     == {"detect", "post", "pause", "page", "mail"}
Unrecorded == Trying \cup {"record"}
Enriching  == {"summary", "reply", "pauseReply", "store"}

\* The attempt in progress, or just over, is one of MaxAttempts.
AttemptInv ==
  /\ pc \in {"post", "reply"} => attempt \in 1..MaxAttempts
  /\ pc \in {"pause", "pauseReply"} => attempt \in 1..(MaxAttempts - 1)

LEMMA NumbersTyped ==
  /\ MaxAttempts \in Nat /\ MaxAttempts >= 1 /\ MaxRuns \in Nat /\ MaxRuns >= 1
  /\ SlackTime \in Nat /\ PagerDutyTime \in Nat /\ EmailTime \in Nat /\ LockTtl \in Nat
  /\ \A k \in 1..MaxAttempts : Pause[k] \in Nat
BY DeliveryAssumption

LEMMA MessageTyped ==
  ASSUME TypeOK
  PROVE  /\ Message \in [run : Runs, text : {"alert", "analysis"}, thread : Nat]
         /\ Append(slack, Message) \in Seq([run : Runs, text : {"alert", "analysis"},
                                            thread : Nat])
         /\ Len(slack) \in Nat
BY DEF TypeOK, Message, ReplyThread

LEMMA TimesTyped ==
  ASSUME TypeOK, NEW longest \in Nat, Takes(longest)
  PROVE  elapsed' \in Nat
BY DEF TypeOK, Takes

Results == [delivered : BOOLEAN, channel : Channels \cup {SlackId, "none"},
            attempts : 0..MaxAttempts, thread : Nat]
Rows    == [ts : 0..MaxRuns, notif : {"pending", "delivered", "failed"},
            channel : Channels \cup {SlackId, "none"}, attempts : 0..MaxAttempts,
            thread : Nat, enriched : BOOLEAN]

LEMMA ConfirmationTyped ==
  ASSUME TypeOK, NEW c \in Channels, Confirmation(c)
  PROVE  result' \in Results /\ confirmed' \subseteq Runs \X Channels /\ pc' = "record"
BY NumbersTyped DEF TypeOK, Confirmation, Results

LEMMA FailureTyped ==
  ASSUME TypeOK
  PROVE  [NoResult EXCEPT !.channel = "slack", !.attempts = attempt] \in Results
BY NumbersTyped DEF TypeOK, NoResult, Results, Channels

LEMMA RowsTyped ==
  ASSUME TypeOK
  PROVE  /\ MarkDelivered(result) \in Rows /\ MarkFailed(result) \in Rows
         /\ [row EXCEPT !.enriched = TRUE] \in Rows
<1>1. run \in 0..MaxRuns /\ row \in Rows /\ result \in Results
  BY NumbersTyped DEF TypeOK, Rows, Results, Runs
<1> QED
  BY <1>1 DEF MarkDelivered, MarkFailed, Rows, Results

LEMMA TypeInit == Init => TypeOK /\ AttemptInv
BY DeliveryAssumption DEF Init, TypeOK, AttemptInv, Runs, NoResult, NewRow

LEMMA TypeStep == TypeOK /\ AttemptInv /\ [Next]_vars => TypeOK' /\ AttemptInv'
<1> SUFFICES ASSUME TypeOK, AttemptInv, [Next]_vars PROVE TypeOK' /\ AttemptInv'
  OBVIOUS
<1> USE NumbersTyped DEF TypeOK, AttemptInv, Runs, Channels, Ends, NoResult, people
<1>1. CASE Detect
  BY <1>1 DEF Detect
<1>2. CASE PostAnswered
  <2>1. elapsed' \in Nat
    BY <1>2, TimesTyped DEF PostAnswered
  <2>2. slack' \in Seq([run : Runs, text : {"alert", "analysis"}, thread : Nat])
    BY <1>2, MessageTyped DEF PostAnswered
  <2>3. SlackResult \in [delivered : BOOLEAN, channel : Channels \cup {SlackId, "none"},
                         attempts : 0..MaxAttempts, thread : Nat]
    BY MessageTyped DEF SlackResult
  <2> QED
    BY <1>2, <2>1, <2>2, <2>3, SMTT(30) DEF PostAnswered
<1>3. CASE PostFails
  <2>1. elapsed' \in Nat
    BY <1>3, TimesTyped DEF PostFails
  <2>2. slack' \in Seq([run : Runs, text : {"alert", "analysis"}, thread : Nat])
    BY <1>3, MessageTyped DEF PostFails
  <2>3. result' \in Results
    BY <1>3, FailureTyped DEF PostFails, Results
  <2>4. TypeOK'
    BY <1>3, <2>1, <2>2, <2>3 DEF PostFails, Results
  <2>5. AttemptInv'
    BY <1>3 DEF PostFails, AttemptsLeft
  <2> HIDE NumbersTyped DEF TypeOK, AttemptInv
  <2> QED
    BY <2>4, <2>5
<1>4. CASE Backoff
  BY <1>4, SMTT(30) DEF Backoff
<1>5. CASE Page
  <2>1. elapsed' \in Nat
    BY <1>5, TimesTyped DEF Page
  <2>2. result' \in Results /\ confirmed' \subseteq Runs \X Channels
    BY <1>5, ConfirmationTyped DEF Page, Results
  <2>3. pc' \in {"mail", "record"}
    BY <1>5, ConfirmationTyped DEF Page
  <2> QED
    BY <1>5, <2>1, <2>2, <2>3 DEF Page, Results
<1>6. CASE Mail
  <2>1. elapsed' \in Nat
    BY <1>6, TimesTyped DEF Mail
  <2>2. result' \in Results /\ confirmed' \subseteq Runs \X Channels
    BY <1>6, ConfirmationTyped DEF Mail, Results
  <2>3. pc' \in {"mail", "record"}
    BY <1>6, ConfirmationTyped DEF Mail
  <2> QED
    BY <1>6, <2>1, <2>2, <2>3 DEF Mail, Results
<1>7. CASE Record
  BY <1>7, RowsTyped DEF Record, Rows
<1>8. CASE RecordFails \/ Crash
  BY <1>8 DEF RecordFails, Crash
<1>9. CASE Summarize
  BY <1>9 DEF Summarize
<1>10. CASE Store
  BY <1>10, RowsTyped DEF Store, Rows
<1>11. CASE NextRun
  BY <1>11 DEF NextRun
<1>12. CASE UNCHANGED vars
  BY <1>12 DEF vars
<1> QED
  BY <1>1, <1>2, <1>3, <1>4, <1>5, <1>6, <1>7, <1>8, <1>9, <1>10, <1>11, <1>12 DEF Next

LEMMA TypeInvariance == Spec => [](TypeOK /\ AttemptInv)
BY TypeInit, TypeStep, PTL DEF Spec

\* Every reachable state of a delivery is well typed; in particular no message
\* is posted more than SLACK_MAX_RETRIES times by one run (TypeOK).
THEOREM TypeCorrect == Spec => []TypeOK
BY TypeInvariance, PTL

(***************************************************************************)
(* One confirmation behind a win, fallbacks in order.                      *)
(***************************************************************************)

\* People saw an alert of run r; run r has one confirmation, by this channel.
Seen(posts, pages, mails, r) ==
  \/ \E k \in DOMAIN posts : posts[k].run = r /\ posts[k].text = "alert"
  \/ r \in pages \cup mails

Witnessed(confirms, r, channel) ==
  {x \in confirms : x[1] = r} = {<<r, IF channel = SlackId THEN "slack" ELSE channel>>}

\* Runs come one after the other, and only the last can have a timestamp.
RunInv ==
  /\ \A x \in confirmed : x[1] <= run
  /\ \A r \in paged \cup mailed : r <= run
  /\ row.ts \in {0, run}
  /\ pc \in Unrecorded => row.ts = 0
  /\ pc \in Enriching => row.ts = run

\* What a run that is trying the channels has not used yet.
TryingInv ==
  /\ pc \in Trying => \A x \in confirmed : x[1] # run
  /\ pc \in Trying \ {"mail"} => run \notin paged
  /\ pc \in Trying => run \notin mailed
  /\ pc \in Trying \ {"detect"} => ~result.delivered

WonInv ==
  /\ pc = "record" /\ result.delivered =>
       Witnessed(confirmed, run, result.channel) /\ Seen(slack, paged, mailed, run)
  /\ row.ts # 0 =>
       Witnessed(confirmed, row.ts, row.channel) /\ Seen(slack, paged, mailed, row.ts)
  /\ FallbackOnlyAfterFailure

WinInv == RunInv /\ TryingInv /\ WonInv

LEMMA WonStatesTheProperty == WonInv => OneConfirmationPerWin
BY DEF WonInv, Witnessed, Seen, OneConfirmationPerWin

\* What is in the channel stays there.
LEMMA SeenStays ==
  ASSUME NEW S, NEW posts \in Seq(S), NEW m \in S, NEW more \in {posts, Append(posts, m)},
         NEW pages, NEW mails, NEW r, Seen(posts, pages, mails, r),
         NEW pages2, pages \subseteq pages2, NEW mails2, mails \subseteq mails2
  PROVE  Seen(more, pages2, mails2, r)
<1>1. CASE r \in pages \cup mails
  BY <1>1 DEF Seen
<1>2. CASE \E k \in DOMAIN posts : posts[k].run = r /\ posts[k].text = "alert"
  <2>1. \A k \in DOMAIN posts : k \in DOMAIN more /\ more[k] = posts[k]
    OBVIOUS
  <2> QED
    BY <1>2, <2>1 DEF Seen
<1> QED
  BY <1>1, <1>2 DEF Seen

LEMMA PostedIsSeen ==
  ASSUME NEW S, NEW posts \in Seq(S), NEW m \in S, m.text = "alert",
         NEW pages, NEW mails
  PROVE  Seen(Append(posts, m), pages, mails, m.run)
<1>1. /\ Len(posts) + 1 \in DOMAIN Append(posts, m)
      /\ Append(posts, m)[Len(posts) + 1] = m
  OBVIOUS
<1> QED
  BY <1>1 DEF Seen

\* The first confirmation of a run is its only one.
LEMMA FirstConfirmation ==
  ASSUME NEW confirms \in SUBSET (Runs \X Channels), NEW r \in Runs,
         \A x \in confirms : x[1] # r, NEW c \in Channels, NEW channel,
         c = IF channel = SlackId THEN "slack" ELSE channel
  PROVE  Witnessed(confirms \cup {<<r, c>>}, r, channel)
<1>1. {x \in confirms \cup {<<r, c>>} : x[1] = r} = {<<r, c>>}
  OBVIOUS
<1> QED
  BY <1>1 DEF Witnessed

LEMMA WinInit == Init => WinInv
BY NumbersTyped DEF Init, WinInv, RunInv, TryingInv, WonInv, Unrecorded, Trying, Enriching,
   FallbackOnlyAfterFailure, NoResult, NewRow, Runs

\* A step that leaves confirmations, pages and mails alone, adds at most a
\* message and lets nobody begin a result keeps what was won.
LEMMA WonStays ==
  ASSUME TypeOK, WonInv, UNCHANGED <<confirmed, paged, mailed>>,
         slack' \in {slack, Append(slack, Message)},
         row'.ts = row.ts /\ row'.channel = row.channel,
         ~(pc' = "record" /\ result'.delivered)
  PROVE  WonInv'
<1> DEFINE S == [run : Runs, text : {"alert", "analysis"}, thread : Nat]
<1>1. slack \in Seq(S) /\ Message \in S
  BY MessageTyped DEF TypeOK
<1>2. ASSUME row.ts # 0 PROVE Seen(slack', paged', mailed', row.ts)
  <2>1. Seen(slack, paged, mailed, row.ts)
    BY <1>2 DEF WonInv
  <2> HIDE DEF S
  <2> QED
    BY <1>1, <2>1, SeenStays
<1> QED
  BY <1>2 DEF WonInv, FallbackOnlyAfterFailure

\* A confirmation through a fallback.
LEMMA FallbackWins ==
  ASSUME TypeOK, RunInv, TryingInv, WonInv, pc \in {"page", "mail"},
         NEW c \in {"pagerduty", "email"}, Confirmation(c),
         \/ c = "pagerduty" /\ pc = "page" /\ paged' = paged \cup {run} /\ UNCHANGED mailed
         \/ c = "email" /\ pc = "mail" /\ mailed' = mailed \cup {run} /\ UNCHANGED paged,
         UNCHANGED <<run, row, slack>>
  PROVE  RunInv' /\ TryingInv' /\ WonInv'
<1> USE DEF Trying, Unrecorded, Enriching
<1>1. /\ result' = [delivered |-> TRUE, channel |-> c, attempts |-> 1, thread |-> 0]
      /\ confirmed' = confirmed \cup {<<run, c>>} /\ pc' = "record"
  BY DEF Confirmation
<1>2. row.ts = 0 /\ run \in Runs /\ \A x \in confirmed : x[1] # run
  BY DEF TypeOK, RunInv, TryingInv
<1>3. Witnessed(confirmed', run, c)
  BY <1>1, <1>2, FirstConfirmation, DeliveryAssumption DEF TypeOK, Channels
<1>4. Seen(slack', paged', mailed', run)
  BY DEF Seen
<1>5. FallbackOnlyAfterFailure'
  <2>1. \A r \in Runs : <<r, "slack">> \in confirmed' => <<r, "slack">> \in confirmed
    BY <1>1
  <2>2. c = "email" => \A r \in Runs :
                         <<r, "pagerduty">> \in confirmed' => <<r, "pagerduty">> \in confirmed
    BY <1>1
  <2>3. c = "pagerduty" => run \notin mailed
    BY DEF TryingInv
  <2>4. <<run, "slack">> \notin confirmed /\ <<run, "pagerduty">> \notin confirmed
    BY <1>2
  <2>5. \A r \in Runs \ {run} : <<r, "pagerduty">> \in confirmed' => <<r, "pagerduty">> \in confirmed
    BY <1>1
  <2> QED
    BY <2>1, <2>2, <2>3, <2>4, <2>5 DEF WonInv, FallbackOnlyAfterFailure
<1>6. RunInv'
  <2>1. run \in Int
    BY <1>2, NumbersTyped DEF Runs
  <2>2. \A x \in confirmed' : x[1] <= run
    BY <1>1, <2>1 DEF RunInv
  <2>3. \A r \in paged' \cup mailed' : r <= run
    BY <2>1 DEF RunInv
  <2> QED
    BY <1>1, <1>2, <2>2, <2>3 DEF RunInv
<1>7. TryingInv'
  BY <1>1 DEF TryingInv
<1> QED
  BY <1>1, <1>2, <1>3, <1>4, <1>5, <1>6, <1>7 DEF WonInv

LEMMA WinStep == TypeOK /\ WinInv /\ [Next]_vars => WinInv'
<1> SUFFICES ASSUME TypeOK, WinInv, [Next]_vars PROVE RunInv' /\ TryingInv' /\ WonInv'
  BY DEF WinInv
<1> USE DEF Trying, Unrecorded, Enriching
<1>0. RunInv /\ TryingInv /\ WonInv /\ run \in Runs
  BY DEF WinInv, TypeOK
<1>1. CASE Detect
  <2>1. RunInv' /\ TryingInv'
    BY <1>0, <1>1 DEF Detect, people, RunInv, TryingInv, NoResult
  <2>2. WonInv'
    BY <1>0, <1>1, WonStays DEF Detect, people
  <2> QED
    BY <2>1, <2>2
<1>2. CASE PostAnswered
  <2>1. CASE pc = "post"
    <3>1. /\ result'.channel = IF config.slack = "api" THEN SlackId ELSE "slack"
          /\ confirmed' = confirmed \cup {<<run, "slack">>} /\ pc' = "record"
          /\ slack' = Append(slack, Message) /\ UNCHANGED <<run, row, paged, mailed>>
      BY <1>2, <2>1 DEF PostAnswered, SlackResult
    <3>2. row.ts = 0 /\ \A x \in confirmed : x[1] # run
      BY <1>0, <2>1 DEF RunInv, TryingInv
    <3>3. Witnessed(confirmed', run, result'.channel)
      BY <1>0, <3>1, <3>2, FirstConfirmation, DeliveryAssumption DEF TypeOK, Channels
    <3>4. Seen(slack', paged', mailed', run)
      <4>1. Message.run = run /\ Message.text = "alert"
        BY <2>1 DEF Message
      <4> QED
        BY <3>1, <4>1, MessageTyped, PostedIsSeen DEF TypeOK
    <3>5. FallbackOnlyAfterFailure'
      <4>1. run \notin paged /\ run \notin mailed
        BY <1>0, <2>1 DEF TryingInv
      <4> QED
        BY <1>0, <3>1, <4>1 DEF WonInv, FallbackOnlyAfterFailure
    <3>6. RunInv'
      BY <1>0, <3>1, <3>2, NumbersTyped DEF RunInv, Runs
    <3>7. TryingInv'
      BY <3>1 DEF TryingInv
    <3> QED
      BY <3>1, <3>2, <3>3, <3>4, <3>5, <3>6, <3>7 DEF WonInv
  <2>2. CASE pc = "reply"
    <3>1. RunInv' /\ TryingInv'
      BY <1>0, <1>2, <2>2 DEF PostAnswered, RunInv, TryingInv
    <3>2. WonInv'
      BY <1>0, <1>2, <2>2, WonStays DEF PostAnswered
    <3> QED
      BY <3>1, <3>2
  <2> QED
    BY <1>2, <2>1, <2>2 DEF PostAnswered
<1>3. CASE PostFails
  <2>0. pc' # "record" /\ pc' # "detect" /\ pc' # "mail" /\ pc' # "page" => UNCHANGED result
    BY <1>3 DEF PostFails
  <2>1. RunInv'
    BY <1>0, <1>3 DEF PostFails, RunInv
  <2>2. TryingInv'
    <3>1. result' = result \/ ~result'.delivered
      BY <1>3 DEF PostFails, NoResult
    <3> QED
      BY <1>0, <1>3, <3>1 DEF PostFails, TryingInv
  <2>3. WonInv'
    <3>1. /\ UNCHANGED <<confirmed, paged, mailed, row>> /\ pc' # "record"
          /\ slack' \in {slack, Append(slack, Message)}
      BY <1>3 DEF PostFails
    <3> QED
      BY <1>0, <3>1, WonStays
  <2> QED
    BY <2>1, <2>2, <2>3
<1>4. CASE Backoff
  <2>1. RunInv' /\ TryingInv'
    BY <1>0, <1>4 DEF Backoff, people, RunInv, TryingInv
  <2>2. WonInv'
    BY <1>0, <1>4, WonStays DEF Backoff, people
  <2> QED
    BY <2>1, <2>2
<1>5. CASE Page
  <2>1. CASE paged' = paged \cup {run} /\ Confirmation("pagerduty")
    BY <1>0, <1>5, <2>1, FallbackWins DEF Page
  <2>2. CASE pc' = "mail" /\ UNCHANGED <<result, confirmed>> /\ paged' \in {paged, paged \cup {run}}
    <3>1. RunInv' /\ TryingInv'
      BY <1>0, <1>5, <2>2, NumbersTyped DEF Page, RunInv, TryingInv, Runs
    <3>2. \A x \in confirmed : x[1] # run
      BY <1>0, <1>5 DEF Page, TryingInv
    <3>3. FallbackOnlyAfterFailure'
      BY <1>0, <1>5, <2>2, <3>2 DEF Page, WonInv, FallbackOnlyAfterFailure
    <3>4. row.ts = 0
      BY <1>0, <1>5 DEF Page, RunInv
    <3> QED
      BY <1>5, <2>2, <3>1, <3>3, <3>4 DEF Page, WonInv
  <2> QED
    BY <1>5, <2>1, <2>2 DEF Page
<1>6. CASE Mail
  <2>1. CASE mailed' = mailed \cup {run} /\ Confirmation("email")
    BY <1>0, <1>6, <2>1, FallbackWins DEF Mail
  <2>2. CASE pc' = "record" /\ UNCHANGED <<result, confirmed>> /\ mailed' \in {mailed, mailed \cup {run}}
    <3>1. RunInv' /\ TryingInv'
      BY <1>0, <1>6, <2>2, NumbersTyped DEF Mail, RunInv, TryingInv, Runs
    <3>2. (\A x \in confirmed : x[1] # run) /\ ~result.delivered
      BY <1>0, <1>6 DEF Mail, TryingInv
    <3>3. FallbackOnlyAfterFailure'
      BY <1>0, <1>6, <2>2, <3>2 DEF Mail, WonInv, FallbackOnlyAfterFailure
    <3>4. row.ts = 0
      BY <1>0, <1>6 DEF Mail, RunInv
    <3> QED
      BY <1>6, <2>2, <3>1, <3>2, <3>3, <3>4 DEF Mail, WonInv
  <2> QED
    BY <1>6, <2>1, <2>2 DEF Mail
<1>7. CASE Record
  <2>1. /\ result.delivered => row'.ts = run /\ row'.channel = result.channel
        /\ ~result.delivered => row'.ts = row.ts /\ row'.channel = row.channel
    BY <1>7 DEF Record, MarkDelivered, MarkFailed, TypeOK
  <2>2. RunInv' /\ TryingInv'
    BY <1>0, <1>7, <2>1 DEF Record, people, RunInv, TryingInv
  <2>3. WonInv'
    BY <1>0, <1>7, <2>1 DEF Record, people, WonInv, FallbackOnlyAfterFailure
  <2> QED
    BY <2>2, <2>3
<1>8. CASE RecordFails \/ Crash
  <2>1. RunInv' /\ TryingInv'
    BY <1>0, <1>8 DEF RecordFails, Crash, people, RunInv, TryingInv
  <2>2. WonInv'
    BY <1>0, <1>8, WonStays DEF RecordFails, Crash, people
  <2> QED
    BY <2>1, <2>2
<1>9. CASE Summarize
  <2>1. RunInv' /\ TryingInv'
    BY <1>0, <1>9 DEF Summarize, people, RunInv, TryingInv
  <2>2. WonInv'
    BY <1>0, <1>9, WonStays DEF Summarize, people
  <2> QED
    BY <2>1, <2>2
<1>10. CASE Store
  <2>0. row'.ts = row.ts /\ row'.channel = row.channel
    BY <1>10 DEF Store, TypeOK
  <2>1. RunInv' /\ TryingInv'
    BY <1>0, <1>10, <2>0 DEF Store, people, RunInv, TryingInv
  <2>2. WonInv'
    BY <1>0, <1>10, <2>0, WonStays DEF Store, people
  <2> QED
    BY <2>1, <2>2
<1>11. CASE NextRun
  <2>1. RunInv' /\ TryingInv'
    <3>1. /\ run' = run + 1 /\ pc' = "detect" /\ row.ts = 0
          /\ UNCHANGED <<row, confirmed, paged, mailed>>
      BY <1>11 DEF NextRun, people
    <3>2. (\A x \in confirmed : x[1] \in Int) /\ (\A r \in paged \cup mailed : r \in Int)
      BY NumbersTyped DEF TypeOK, Runs
    <3>3. run \in Int /\ (\A x \in confirmed : x[1] < run + 1)
      BY <1>0, <3>2, NumbersTyped DEF RunInv, Runs
    <3>4. \A r \in paged \cup mailed : r < run + 1
      BY <1>0, <3>2, <3>3 DEF RunInv
    <3>5. (\A x \in confirmed : x[1] <= run + 1 /\ x[1] # run + 1)
      BY <3>2, <3>3
    <3>6. (\A r \in paged \cup mailed : r <= run + 1 /\ r # run + 1)
      BY <3>2, <3>3, <3>4
    <3> QED
      BY <3>1, <3>5, <3>6 DEF RunInv, TryingInv
  <2>2. WonInv'
    BY <1>0, <1>11, WonStays DEF NextRun, people
  <2> QED
    BY <2>1, <2>2
<1>12. CASE UNCHANGED vars
  BY <1>0, <1>12 DEF vars, RunInv, TryingInv, WonInv, FallbackOnlyAfterFailure
<1> QED
  BY <1>1, <1>2, <1>3, <1>4, <1>5, <1>6, <1>7, <1>8, <1>9, <1>10, <1>11, <1>12 DEF Next

LEMMA WinInvariance == Spec => [](TypeOK /\ WinInv)
BY TypeInvariance, WinInit, WinStep, PTL DEF Spec

\* A run that claims the win has exactly one confirmation, of the channel its
\* row names, and people saw its alert (OneConfirmationPerWin).
THEOREM ConfirmedOnce == Spec => []OneConfirmationPerWin
BY WinInvariance, WonStatesTheProperty, PTL DEF WinInv

\* No fallback repeats an alert that an earlier channel confirmed
\* (FallbackOnlyAfterFailure).
THEOREM FallbacksInOrder == Spec => []FallbackOnlyAfterFailure
<1>1. WinInv => FallbackOnlyAfterFailure
  BY DEF WinInv, WonInv
<1> QED
  BY <1>1, WinInvariance, PTL

(***************************************************************************)
(* Replies and their threads.                                              *)
(***************************************************************************)

AlertOf(r) == [run |-> r, text |-> "alert", thread |-> 0]

\* The thread of a result is the run's own alert, and Slack's confirmation
\* brings one.
ThreadInv ==
  /\ row.thread = 0
  /\ result.channel = "slack" => result.thread = 0
  /\ pc \in Trying \ {"detect"} => result.thread = 0
  /\ pc \in {"record"} \cup Enriching =>
       /\ result.thread # 0 => result.thread \in DOMAIN slack
                               /\ slack[result.thread] = AlertOf(run)
       /\ config.slack = "api" /\ <<run, "slack">> \in confirmed => result.thread # 0

ReplyInv == ThreadInv /\ RepliesFollowTheAlert

LEMMA SequenceTyped ==
  ASSUME NEW S, NEW s \in Seq(S)
  PROVE  DOMAIN s = 1..Len(s) /\ (\A k \in 1..Len(s) : s[k] \in S)
OBVIOUS

LEMMA MessagesTyped ==
  ASSUME TypeOK
  PROVE  /\ DOMAIN slack = 1..Len(slack)
         /\ \A k \in 1..Len(slack) :
              slack[k] \in [run : Runs, text : {"alert", "analysis"}, thread : Nat]
<1>1. slack \in Seq([run : Runs, text : {"alert", "analysis"}, thread : Nat])
  BY DEF TypeOK
<1> QED
  BY <1>1, SequenceTyped

LEMMA NoReplyBeforeTheWin ==
  ASSUME TypeOK, RepliesFollowTheAlert, row.ts = 0
  PROVE  \A k \in DOMAIN slack : slack[k].text # "analysis"
<1>2. \A k \in DOMAIN slack : slack[k].run \in Runs
  BY MessagesTyped
<1>3. \A k \in DOMAIN slack : slack[k].text = "analysis" => slack[k].run = 0
  BY DEF RepliesFollowTheAlert
<1>4. 0 \notin Runs
  BY DeliveryAssumption DEF Runs
<1> QED
  BY <1>2, <1>3, <1>4

LEMMA Appended ==
  ASSUME TypeOK
  PROVE  /\ DOMAIN slack = 1..Len(slack) /\ Len(slack) \in Nat
         /\ DOMAIN Append(slack, Message) = 1..(Len(slack) + 1)
         /\ \A k \in 1..Len(slack) : Append(slack, Message)[k] = slack[k]
         /\ Append(slack, Message)[Len(slack) + 1] = Message
BY MessageTyped DEF TypeOK

LEMMA ReplyInit == Init => ReplyInv
BY DEF Init, ReplyInv, ThreadInv, RepliesFollowTheAlert, NoResult, NewRow, Trying, Enriching

\* Before the win there is no reply, and a step that posts none adds none.
LEMMA StillNoReply ==
  ASSUME TypeOK, RepliesFollowTheAlert, row.ts = 0,
         \/ UNCHANGED slack
         \/ pc = "post" /\ slack' \in {slack, Append(slack, Message)}
  PROVE  RepliesFollowTheAlert'
<1>1. \A k \in DOMAIN slack : slack[k].text # "analysis"
  BY NoReplyBeforeTheWin
<1>2. pc = "post" => Message.text = "alert"
  BY DEF Message
<1>3. \A k \in DOMAIN slack' : slack'[k].text # "analysis"
  BY <1>1, <1>2, Appended
<1> QED
  BY <1>3 DEF RepliesFollowTheAlert

\* A reply, answered or not.
LEMMA ReplyPosted ==
  ASSUME TypeOK, RunInv, ReplyInv, pc = "reply",
         slack' \in {slack, Append(slack, Message)}, pc' \in {"store", "pauseReply"},
         UNCHANGED <<config, run, row, confirmed, result>>
  PROVE  ReplyInv'
<1> USE DEF Enriching, Trying
<1>1. row.ts = run /\ row.thread = 0
  BY DEF RunInv, ReplyInv, ThreadInv
<1>2. /\ result.thread # 0 => result.thread \in DOMAIN slack
                              /\ slack[result.thread] = AlertOf(run)
      /\ config.slack = "api" /\ <<run, "slack">> \in confirmed => result.thread # 0
  BY DEF ReplyInv, ThreadInv
<1>3. ReplyThread = IF config.slack = "api" THEN result.thread ELSE 0
  BY <1>1 DEF ReplyThread
<1>4. Message = [run |-> run, text |-> "analysis", thread |-> ReplyThread]
  BY DEF Message
<1>5. ThreadInv'
  <2>1. \A k \in DOMAIN slack : k \in DOMAIN slack' /\ slack'[k] = slack[k]
    <3>1. CASE slack' = slack
      BY <3>1
    <3>2. CASE slack' = Append(slack, Message)
      BY <3>2, Appended
    <3> QED
      BY <3>1, <3>2
  <2>2. result.thread # 0 => result.thread \in DOMAIN slack'
                             /\ slack'[result.thread] = AlertOf(run)
    BY <1>2, <2>1
  <2>3. row.thread = 0 /\ (result.channel = "slack" => result.thread = 0)
    BY DEF ReplyInv, ThreadInv
  <2> QED
    BY <1>2, <2>2, <2>3 DEF ThreadInv, AlertOf
<1>6. CASE slack' = slack
  BY <1>5, <1>6 DEF ReplyInv, RepliesFollowTheAlert
<1>7. CASE slack' = Append(slack, Message)
  <2>1. ASSUME NEW k \in DOMAIN slack', slack'[k].text = "analysis"
        PROVE  /\ row.ts = slack'[k].run
               /\ slack'[k].thread # 0 =>
                    /\ slack'[k].thread < k
                    /\ slack'[slack'[k].thread] = AlertOf(row.ts)
               /\ (config.slack = "api" /\ <<row.ts, "slack">> \in confirmed)
                    => slack'[k].thread # 0
    <3>1. CASE k = Len(slack) + 1
      <4>1. slack'[k] = Message
        BY <1>7, <3>1, Appended
      <4>2. slack'[k].run = run /\ slack'[k].thread = ReplyThread
        BY <1>4, <4>1
      <4>3. ReplyThread # 0 => ReplyThread \in 1..Len(slack)
        BY <1>2, <1>3, Appended
      <4>4. ReplyThread # 0 => slack'[ReplyThread] = AlertOf(run)
        BY <1>2, <1>3, <1>7, <4>3, Appended
      <4>5. ReplyThread # 0 => ReplyThread < k
        BY <3>1, <4>3, Appended
      <4>6. (config.slack = "api" /\ <<row.ts, "slack">> \in confirmed) => ReplyThread # 0
        BY <1>1, <1>2, <1>3
      <4> QED
        BY <1>1, <4>2, <4>4, <4>5, <4>6
    <3>2. CASE k \in DOMAIN slack
      <4>1. slack'[k] = slack[k] /\ slack[k].thread \in Nat /\ k \in 1..Len(slack)
        BY <1>7, <3>2, MessagesTyped, Appended
      <4>2. /\ row.ts = slack[k].run
            /\ slack[k].thread # 0 => /\ slack[k].thread < k
                                      /\ slack[slack[k].thread] = AlertOf(row.ts)
            /\ (config.slack = "api" /\ <<row.ts, "slack">> \in confirmed)
                 => slack[k].thread # 0
        BY <2>1, <3>2, <4>1 DEF ReplyInv, RepliesFollowTheAlert, AlertOf
      <4>3. slack[k].thread # 0 => slack[k].thread \in 1..Len(slack)
        BY <4>1, <4>2, Appended
      <4>4. slack[k].thread # 0 => slack'[slack[k].thread] = slack[slack[k].thread]
        BY <1>7, <4>3, Appended
      <4> QED
        BY <4>1, <4>2, <4>4
    <3>3. k \in 1..(Len(slack) + 1) /\ Len(slack) \in Nat /\ DOMAIN slack = 1..Len(slack)
      BY <1>7, Appended
    <3>4. k = Len(slack) + 1 \/ k \in DOMAIN slack
      BY <3>3
    <3> QED
      BY <3>1, <3>2, <3>4
  <2> QED
    BY <1>5, <2>1 DEF ReplyInv, RepliesFollowTheAlert, AlertOf
<1> QED
  BY <1>6, <1>7

LEMMA ReplyStep == TypeOK /\ WinInv /\ ReplyInv /\ [Next]_vars => ReplyInv'
<1> SUFFICES ASSUME TypeOK, WinInv, ReplyInv, [Next]_vars PROVE ReplyInv'
  OBVIOUS
<1> USE DEF Enriching, Trying, Unrecorded
<1>0. RunInv /\ TryingInv /\ ThreadInv /\ RepliesFollowTheAlert
  BY DEF WinInv, ReplyInv
<1>1. CASE Detect
  <2>1. ThreadInv'
    BY <1>0, <1>1 DEF Detect, ThreadInv, NoResult
  <2>2. RepliesFollowTheAlert'
    BY <1>0, <1>1, StillNoReply DEF Detect, people, RunInv
  <2> QED
    BY <2>1, <2>2 DEF ReplyInv
<1>2. CASE PostAnswered
  <2>1. CASE pc = "post"
    <3>1. /\ result' = SlackResult /\ pc' = "record" /\ slack' = Append(slack, Message)
          /\ UNCHANGED <<config, run, row>>
      BY <1>2, <2>1 DEF PostAnswered
    <3>2. /\ result'.thread = IF config.slack = "api" THEN Len(slack) + 1 ELSE 0
          /\ result'.channel = IF config.slack = "api" THEN SlackId ELSE "slack"
      BY <3>1 DEF SlackResult
    <3>3. Message = AlertOf(run)
      BY <2>1 DEF Message, AlertOf
    <3>4. ThreadInv'
      BY <1>0, <3>1, <3>2, <3>3, Appended, DeliveryAssumption DEF ThreadInv
    <3>5. RepliesFollowTheAlert'
      BY <1>0, <2>1, <3>1, StillNoReply DEF RunInv
    <3> QED
      BY <3>4, <3>5 DEF ReplyInv
  <2>2. CASE pc = "reply"
    BY <1>0, <1>2, <2>2, ReplyPosted DEF PostAnswered
  <2> QED
    BY <1>2, <2>1, <2>2 DEF PostAnswered
<1>3. CASE PostFails
  <2>1. CASE pc = "post"
    <3>1. /\ slack' \in {slack, Append(slack, Message)} /\ pc' \in {"pause", "page"}
          /\ UNCHANGED <<config, run, row>>
          /\ result' = result \/ (result'.channel = "slack" /\ result'.thread = 0)
      BY <1>3, <2>1 DEF PostFails, NoResult
    <3>2. ThreadInv'
      BY <1>0, <2>1, <3>1 DEF ThreadInv
    <3>3. RepliesFollowTheAlert'
      BY <1>0, <2>1, <3>1, StillNoReply DEF RunInv
    <3> QED
      BY <3>2, <3>3 DEF ReplyInv
  <2>2. CASE pc = "reply"
    <3>1. /\ slack' \in {slack, Append(slack, Message)} /\ pc' \in {"store", "pauseReply"}
          /\ UNCHANGED <<config, run, row, confirmed, result>>
      BY <1>3, <2>2 DEF PostFails
    <3> QED
      BY <1>0, <2>2, <3>1, ReplyPosted
  <2> QED
    BY <1>3, <2>1, <2>2 DEF PostFails
<1>4. CASE Backoff
  BY <1>0, <1>4 DEF Backoff, people, ReplyInv, ThreadInv, RepliesFollowTheAlert
<1>5. CASE Page
  <2>1. ThreadInv'
    <3>1. <<run, "slack">> \notin confirmed /\ UNCHANGED <<config, run, row, slack>>
      BY <1>0, <1>5 DEF Page, TryingInv
    <3>2. \/ result' = result /\ confirmed' = confirmed
          \/ /\ result'.channel = "pagerduty" /\ result'.thread = 0
             /\ confirmed' = confirmed \cup {<<run, "pagerduty">>}
      BY <1>5 DEF Page, Confirmation
    <3>3. pc' \in {"mail", "record"} /\ result.thread = 0
      BY <1>0, <1>5 DEF Page, Confirmation, ThreadInv
    <3> QED
      BY <1>0, <3>1, <3>2, <3>3 DEF ThreadInv
  <2>2. RepliesFollowTheAlert'
    BY <1>0, <1>5, StillNoReply DEF Page, RunInv
  <2> QED
    BY <2>1, <2>2 DEF ReplyInv
<1>6. CASE Mail
  <2>1. ThreadInv'
    <3>1. <<run, "slack">> \notin confirmed /\ UNCHANGED <<config, run, row, slack>>
      BY <1>0, <1>6 DEF Mail, TryingInv
    <3>2. \/ result' = result /\ confirmed' = confirmed
          \/ /\ result'.channel = "email" /\ result'.thread = 0
             /\ confirmed' = confirmed \cup {<<run, "email">>}
      BY <1>6 DEF Mail, Confirmation
    <3>3. pc' = "record" /\ result.thread = 0
      BY <1>0, <1>6 DEF Mail, Confirmation, ThreadInv
    <3> QED
      BY <1>0, <3>1, <3>2, <3>3 DEF ThreadInv
  <2>2. RepliesFollowTheAlert'
    BY <1>0, <1>6, StillNoReply DEF Mail, RunInv
  <2> QED
    BY <2>1, <2>2 DEF ReplyInv
<1>7. CASE Record
  <2>1. row'.thread = 0
    BY <1>0, <1>7 DEF Record, MarkDelivered, MarkFailed, ThreadInv, TypeOK
  <2>2. ThreadInv'
    BY <1>0, <1>7, <2>1 DEF Record, people, ThreadInv
  <2>3. RepliesFollowTheAlert'
    BY <1>0, <1>7, StillNoReply DEF Record, people, RunInv
  <2> QED
    BY <2>2, <2>3 DEF ReplyInv
<1>8. CASE RecordFails \/ Crash
  BY <1>0, <1>8 DEF RecordFails, Crash, people, ReplyInv, ThreadInv, RepliesFollowTheAlert
<1>9. CASE Summarize
  BY <1>0, <1>9 DEF Summarize, people, ReplyInv, ThreadInv, RepliesFollowTheAlert
<1>10. CASE Store
  <2>1. row'.thread = row.thread /\ row'.ts = row.ts
    BY <1>10 DEF Store, TypeOK
  <2> QED
    BY <1>0, <1>10, <2>1 DEF Store, people, ReplyInv, ThreadInv, RepliesFollowTheAlert
<1>11. CASE NextRun
  BY <1>0, <1>11, StillNoReply DEF NextRun, people, ReplyInv, ThreadInv
<1>12. CASE UNCHANGED vars
  BY <1>0, <1>12 DEF vars, ReplyInv, ThreadInv, RepliesFollowTheAlert
<1> QED
  BY <1>1, <1>2, <1>3, <1>4, <1>5, <1>6, <1>7, <1>8, <1>9, <1>10, <1>11, <1>12 DEF Next

\* The analysis follows the alert it is about, in its thread when there is one,
\* however often posts are retried and answers lost (RepliesFollowTheAlert).
THEOREM RepliesInThread == Spec => []RepliesFollowTheAlert
<1>1. ReplyInv => RepliesFollowTheAlert
  BY DEF ReplyInv
<1> QED
  BY <1>1, WinInvariance, ReplyInit, ReplyStep, PTL DEF Spec

(***************************************************************************)
(* The attempts of a failed alert.                                         *)
(***************************************************************************)
SlackAttempts == IF config.slack = "none" THEN 0 ELSE MaxAttempts

\* Past Slack an undelivered result holds Slack's attempts.
FailedInv ==
  /\ pc \in {"post", "pause"} => config.slack # "none"
  /\ pc \in {"page", "mail"} \/ (pc = "record" /\ ~result.delivered) =>
       result.attempts = SlackAttempts
  /\ FailureKeepsSlackAttempts

LEMMA FailedStep ==
  ASSUME TypeOK, AttemptInv, FailedInv, [Next]_vars
  PROVE  FailedInv'
<1> USE DEF FailedInv, SlackAttempts, FailureKeepsSlackAttempts, people
<1>1. CASE Detect
  BY <1>1 DEF Detect, NoResult
<1>2. CASE PostAnswered
  BY <1>2 DEF PostAnswered, SlackResult
<1>3. CASE PostFails
  <2>1. ~AttemptsLeft /\ pc = "post" => attempt = MaxAttempts
    BY NumbersTyped DEF AttemptsLeft, AttemptInv
  <2> QED
    BY <1>3, <2>1 DEF PostFails, NoResult
<1>4. CASE Backoff
  BY <1>4 DEF Backoff
<1>5. CASE Page \/ Mail
  BY <1>5 DEF Page, Mail, Confirmation
<1>6. CASE Record
  <2>1. /\ MarkFailed(result).attempts = result.attempts
        /\ MarkDelivered(result).notif = "delivered"
    BY DEF MarkFailed, MarkDelivered, TypeOK
  <2> QED
    BY <1>6, <2>1 DEF Record
<1>7. CASE RecordFails \/ Crash \/ Summarize \/ NextRun
  BY <1>7 DEF RecordFails, Crash, Summarize, NextRun, Ends
<1>8. CASE Store
  BY <1>8 DEF Store, TypeOK
<1>9. CASE UNCHANGED vars
  BY <1>9 DEF vars
<1> QED
  BY <1>1, <1>2, <1>3, <1>4, <1>5, <1>6, <1>7, <1>8, <1>9 DEF Next

\* A failed alert is recorded with the attempts Slack had, whatever the
\* fallbacks did after it (FailureKeepsSlackAttempts).
THEOREM FailureCounted == Spec => []FailureKeepsSlackAttempts
<1>1. Init => FailedInv
  BY DEF Init, FailedInv, FailureKeepsSlackAttempts, NewRow, NoResult
<1>2. TypeOK /\ AttemptInv /\ FailedInv /\ [Next]_vars => FailedInv'
  BY FailedStep
<1>3. FailedInv => FailureKeepsSlackAttempts
  BY DEF FailedInv
<1> QED
  BY <1>1, <1>2, <1>3, TypeInvariance, PTL DEF Spec

(***************************************************************************)
(* The time under the lock.                                                *)
(***************************************************************************)

\* Before[k] is the longest time that passes before the k-th attempt: the
\* requests and the pauses of the attempts ahead of it.
Budgets(Before) ==
  /\ Before \in [1..MaxAttempts -> Nat]
  /\ \A j, k \in 1..MaxAttempts : j < k => Before[j] + SlackTime + Pause[j] <= Before[k]

\* How much of the time is spent, by how far the delivery has come.
TimeInv(Before) ==
  /\ pc = "detect" => elapsed = 0
  /\ pc = "post" => elapsed <= Before[attempt]
  /\ pc = "pause" => elapsed <= Before[attempt] + SlackTime
  /\ pc = "page" => elapsed <= Before[MaxAttempts] + SlackTime
  /\ pc = "mail" => elapsed <= Before[MaxAttempts] + SlackTime + PagerDutyTime
  /\ pc = "record" => elapsed <= Before[MaxAttempts] + SlackTime + PagerDutyTime + EmailTime

LEMMA BudgetsGrow ==
  ASSUME NEW Before, Budgets(Before), TypeOK, AttemptInv
  PROVE  /\ Before[MaxAttempts] \in Nat
         /\ pc = "post" => /\ Before[attempt] \in Nat /\ attempt \in 1..MaxAttempts
                           /\ Before[attempt] <= Before[MaxAttempts]
         /\ pc = "pause" => /\ attempt + 1 \in 1..MaxAttempts /\ Before[attempt] \in Nat
                            /\ Before[attempt + 1] \in Nat /\ Pause[attempt] \in Nat
                            /\ Before[attempt] + SlackTime + Pause[attempt]
                                 <= Before[attempt + 1]
<1> USE NumbersTyped DEF Budgets, AttemptInv
<1>1. Before[MaxAttempts] \in Nat
  OBVIOUS
<1>2. CASE pc = "post"
  <2>1. attempt \in 1..MaxAttempts /\ Before[attempt] \in Nat /\ Pause[attempt] \in Nat
    BY <1>2
  <2>2. CASE attempt = MaxAttempts
    BY <1>1, <1>2, <2>1, <2>2
  <2>3. CASE attempt < MaxAttempts
    <3>1. Before[attempt] + SlackTime + Pause[attempt] <= Before[MaxAttempts]
      BY <2>1, <2>3
    <3> QED
      BY <1>1, <1>2, <2>1, <3>1
  <2> QED
    BY <2>1, <2>2, <2>3
<1>3. CASE pc = "pause"
  <2>1. attempt \in 1..MaxAttempts /\ attempt + 1 \in 1..MaxAttempts /\ attempt < attempt + 1
    BY <1>3
  <2> QED
    BY <1>1, <1>3, <2>1
<1> QED
  BY <1>1, <1>2, <1>3

LEMMA TimeStep ==
  ASSUME NEW Before, Budgets(Before), Before[1] = 0,
         TypeOK, AttemptInv, WinInv, TimeInv(Before), [Next]_vars
  PROVE  TimeInv(Before)'
<1> USE BudgetsGrow, NumbersTyped DEF Ends
<1>0. /\ elapsed \in Nat /\ RunInv
      /\ \A longest \in Nat : Takes(longest) => elapsed' \in Nat /\ elapsed' <= elapsed + longest
  BY DEF TypeOK, WinInv, Takes
<1>1. CASE Detect
  BY <1>0, <1>1 DEF Detect, TimeInv
<1>2. CASE PostAnswered
  BY <1>0, <1>2 DEF PostAnswered, TimeInv
<1>3. CASE PostFails
  BY <1>0, <1>3 DEF PostFails, AttemptsLeft, TimeInv, AttemptInv
<1>4. CASE Backoff
  BY <1>0, <1>4 DEF Backoff, TimeInv, RunInv, Unrecorded, Trying
<1>5. CASE Page
  BY <1>0, <1>5 DEF Page, Confirmation, TimeInv
<1>6. CASE Mail
  BY <1>0, <1>6 DEF Mail, Confirmation, TimeInv
<1>7. CASE Record \/ RecordFails \/ Crash
  BY <1>7 DEF Record, RecordFails, Crash, TimeInv
<1>8. CASE Summarize \/ Store \/ NextRun
  BY <1>8 DEF Summarize, Store, NextRun, TimeInv
<1>9. CASE UNCHANGED vars
  BY <1>9 DEF vars, TimeInv
<1> QED
  BY <1>1, <1>2, <1>3, <1>4, <1>5, <1>6, <1>7, <1>8, <1>9 DEF Next

\* Times and attempts whose sum stays below the lock's lifetime never let a
\* delivery outlive its lock, with whatever requests that hang until their
\* timeout (DeliveryFitsTheLock).
THEOREM FitsTheLock ==
  ASSUME NEW Before, Budgets(Before), Before[1] = 0,
         Before[MaxAttempts] + SlackTime + PagerDutyTime + EmailTime < LockTtl
  PROVE  Spec => []DeliveryFitsTheLock
<1>1. Init => TimeInv(Before)
  BY DEF Init, TimeInv
<1>2. TypeOK /\ AttemptInv /\ WinInv /\ TimeInv(Before) /\ [Next]_vars => TimeInv(Before)'
  BY TimeStep
<1>3. TypeOK /\ AttemptInv /\ TimeInv(Before) => DeliveryFitsTheLock
  <2> SUFFICES ASSUME TypeOK, AttemptInv, TimeInv(Before) PROVE DeliveryFitsTheLock
    OBVIOUS
  <2>1. elapsed \in Nat /\ Pause \in [1..MaxAttempts -> Nat]
    BY DeliveryAssumption DEF TypeOK
  <2>2. CASE pc = "pause"
    <3>1. attempt < MaxAttempts /\ attempt \in 1..MaxAttempts
      BY <2>2, NumbersTyped DEF AttemptInv
    <3>2. Before[attempt] + SlackTime + Pause[attempt] <= Before[MaxAttempts]
      BY <3>1, NumbersTyped DEF Budgets
    <3>3. Before[attempt] \in Nat /\ Before[MaxAttempts] \in Nat /\ Pause[attempt] \in Nat
      BY <2>2, BudgetsGrow
    <3>4. elapsed <= Before[attempt] + SlackTime
      BY <2>2 DEF TimeInv
    <3>5. {elapsed, SlackTime, PagerDutyTime, EmailTime, LockTtl} \subseteq Nat
      BY <2>1, NumbersTyped
    <3>6. elapsed <= Before[MaxAttempts]
      BY <3>2, <3>3, <3>4, <3>5
    <3>7. elapsed < LockTtl
      BY <3>3, <3>5, <3>6
    <3> QED
      BY <3>7 DEF DeliveryFitsTheLock
  <2>3. CASE pc # "pause"
    BY <2>1, <2>3, BudgetsGrow, NumbersTyped, SMTT(30) DEF TimeInv, DeliveryFitsTheLock
  <2> QED
    BY <2>2, <2>3
<1> QED
  BY <1>1, <1>2, <1>3, TypeInvariance, WinInvariance, PTL DEF Spec

(***************************************************************************)
(* Refinement.                                                             *)
(***************************************************************************)
winners == [i \in {"incident"} |-> {x[1] : x \in confirmed}]
claims  == [i \in {"incident"} |-> row.ts]
riches  == [i \in {"incident"} |-> row.enriched]

LEMMA Hidden ==
  ASSUME confirmed' = confirmed, row'.ts = row.ts, row'.enriched = row.enriched
  PROVE  UNCHANGED <<winners, claims, riches>>
BY DEF winners, claims, riches

LEMMA Confirms ==
  ASSUME TypeOK, NEW c, confirmed' = confirmed \cup {<<run, c>>}, row' = row
  PROVE  Benchmark!Next
<1>0. \A x \in confirmed' : x \in confirmed \/ x[1] = run
  OBVIOUS
<1>1. {x[1] : x \in confirmed'} = {x[1] : x \in confirmed} \cup {run}
  <2>1. \A z : z \in {x[1] : x \in confirmed'} => z \in {x[1] : x \in confirmed} \cup {run}
    BY <1>0
  <2>2. <<run, c>> \in confirmed' /\ <<run, c>>[1] = run
    OBVIOUS
  <2>3. run \in {x[1] : x \in confirmed'}
    BY <2>2
  <2>4. \A z \in {x[1] : x \in confirmed} : z \in {x[1] : x \in confirmed'}
    OBVIOUS
  <2> QED
    BY <2>1, <2>3, <2>4
<1>2. winners' = [winners EXCEPT !["incident"] = @ \cup {run}] /\ UNCHANGED <<claims, riches>>
  BY <1>1 DEF winners, claims, riches
<1>3. PICK i \in {"incident"}, a \in Runs : i = "incident" /\ a = run
  BY DEF TypeOK
<1>4. Benchmark!Confirm(i, a)
  BY <1>2, <1>3 DEF Benchmark!Confirm, winners, claims, riches
<1> QED
  BY <1>4 DEF Benchmark!Next

LEMMA StepRefines ==
  ASSUME TypeOK, WinInv, Next
  PROVE  Benchmark!Next \/ UNCHANGED <<winners, claims, riches>>
<1> USE DEF people
<1>1. CASE Detect \/ PostFails \/ Backoff \/ RecordFails \/ Summarize \/ Crash \/ NextRun
  <2>1. confirmed' = confirmed /\ row' = row
    BY <1>1 DEF Detect, PostFails, Backoff, RecordFails, Summarize, Crash, NextRun
  <2> QED
    BY <2>1, Hidden
<1>2. CASE PostAnswered \/ Page \/ Mail
  <2>1. row' = row
    BY <1>2 DEF PostAnswered, Page, Mail
  <2>2. \/ confirmed' = confirmed
        \/ \E c \in Channels : confirmed' = confirmed \cup {<<run, c>>}
    BY <1>2 DEF PostAnswered, Page, Mail, Confirmation, Channels
  <2> QED
    BY <2>1, <2>2, Hidden, Confirms
<1>3. CASE Record
  <2>1. CASE ~result.delivered
    <3>1. row'.ts = row.ts /\ row'.enriched = row.enriched /\ confirmed' = confirmed
      BY <1>3, <2>1 DEF Record, MarkFailed, TypeOK
    <3> QED
      BY <3>1, Hidden
  <2>2. CASE result.delivered
    <3>1. /\ row'.ts = run /\ row'.enriched = row.enriched /\ confirmed' = confirmed
          /\ run \in Runs /\ row.ts = 0
      BY <1>3, <2>2 DEF Record, MarkDelivered, TypeOK, WinInv, RunInv, Unrecorded
    <3>2. \E x \in confirmed : x[1] = run
      BY <1>3, <2>2 DEF Record, WinInv, WonInv, Witnessed
    <3>3. /\ run \in winners["incident"] /\ claims["incident"] = 0
          /\ claims' = [claims EXCEPT !["incident"] = run]
          /\ UNCHANGED <<winners, riches>>
      BY <3>1, <3>2 DEF winners, claims, riches
    <3>4. Benchmark!Claim("incident", run)
      BY <3>3 DEF Benchmark!Claim, winners, claims, riches
    <3> QED
      BY <3>1, <3>4 DEF Benchmark!Next
  <2> QED
    BY <2>1, <2>2
<1>4. CASE Store
  <2>1. /\ row'.ts = row.ts /\ row'.enriched = TRUE /\ confirmed' = confirmed
        /\ row.ts = run /\ run # 0
    BY <1>4, NumbersTyped DEF Store, TypeOK, WinInv, RunInv, Enriching, Runs
  <2>2. /\ claims["incident"] # 0 /\ riches' = [riches EXCEPT !["incident"] = TRUE]
        /\ UNCHANGED <<winners, claims>>
    BY <2>1 DEF winners, claims, riches
  <2>3. Benchmark!Enrich("incident")
    BY <2>2 DEF Benchmark!Enrich, winners, claims, riches
  <2> QED
    BY <2>3 DEF Benchmark!Next
<1> QED
  BY <1>1, <1>2, <1>3, <1>4 DEF Next

\* Channel by channel the delivery is the abstract race: a confirmation, then
\* one claim for it that stays, then the enrichment (ImplementsBenchmark).
THEOREM DeliveryRefines == Spec => ImplementsBenchmark
<1>1. Init => Benchmark!Init
  BY DEF Init, Benchmark!Init, NewRow
<1>2. TypeOK /\ WinInv /\ [Next]_vars => [Benchmark!Next]_(Benchmark!raceVars)
  <2> SUFFICES ASSUME TypeOK, WinInv, [Next]_vars
               PROVE  Benchmark!Next \/ UNCHANGED Benchmark!raceVars
    OBVIOUS
  <2>1. CASE UNCHANGED vars
    BY <2>1, Hidden DEF vars, Benchmark!raceVars, winners, claims, riches
  <2>2. CASE Next
    BY <2>2, StepRefines DEF Benchmark!raceVars, winners, claims, riches
  <2> QED
    BY <2>1, <2>2
<1> QED
  BY <1>1, <1>2, WinInvariance, PTL DEF Spec, ImplementsBenchmark, Benchmark!Spec
=============================================================================
