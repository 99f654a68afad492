--------------------------- MODULE WebhookIngress ---------------------------
(***************************************************************************)
(* The way of an event into the queue: the receivers of Sentry, Datadog    *)
(* and product events (app/webhooks) with the checks they share in         *)
(* security.py, the nonces in Redis, the broker in the same Redis, and the *)
(* first thing the worker does with the message.                           *)
(*                                                                         *)
(* A sender sends an event once and again, with the same headers, when it  *)
(* has no answer it likes; copies travel for as long as they like, and     *)
(* are numbered as they arrive.  The web server interleaves its requests   *)
(* at every await, the nonce's SET being one.  AlertPipeline models what   *)
(* follows.                                                                *)
(***************************************************************************)
EXTENDS Integers, FiniteSets

CONSTANTS Events,
          Sources,   \* receivers
          SourceOf,  \* where an event is sent
          Offered,   \* the requests an event may be sent with
          Nonces, NoNonce, \* values of x-webhook-nonce
          Skew,      \* the sender's clock minus the server's
          Window,    \* REPLAY_WINDOW_SECONDS
          MaxCopies, MaxClock, \* bounds
          Faults     \* environment actions enabled in this instance

\* The headers that matter, and whether the body parses.
Requests == [nonce : Nonces \cup {NoNonce}, stamp : {"good", "garbled", "none"},
             json : BOOLEAN]

ASSUME IngressAssumption ==
  /\ SourceOf \in [Events -> Sources]
  /\ Offered \in [Events -> SUBSET Requests]
  /\ NoNonce \notin Nonces
  \* a sender does not use a nonce for two events
  /\ \A d, e \in Events : \A q \in Offered[d], r \in Offered[e] :
       SourceOf[d] = SourceOf[e] /\ q.nonce = r.nonce => d = e \/ q.nonce = NoNonce
  /\ Skew \in [Events -> Int]
  /\ {Window, MaxCopies, MaxClock} \subseteq Nat
  /\ Faults \subseteq {"redis", "crash", "secret", "worker"}

VARIABLES
  clock,
  request,   \* what an event is sent as, the same in every copy
  sent,      \* events sent at least once
  stamp,     \* when an event was stamped, by its sender's clock
  agreed,    \* sources whose sender has the secret the server expects
  copy,      \* state of each copy
  expires,   \* when the nonce key in Redis expires
  spent,     \* history: when a copy spent its event's nonce
  unchecked, \* history: events with a copy that skipped the nonce check
  queue,     \* copies in the broker
  rows,      \* copies with a row in raw_events
  gone       \* messages the workers gave up

vars == <<clock, request, sent, stamp, agreed, copy, expires, spent, unchecked,
          queue, rows, gone>>
nonces == <<expires, spent, unchecked>>
worked == <<rows, gone>>

Copies == Events \X (1..MaxCopies)
Keys   == Sources \X Nonces

\* refused before the nonce, failed behind it.
Stages == {"coming", "nonce", "body", "refused", "replayed", "accepted", "failed"}

\* A time before the clock starts: no key.
Never == -1

TypeOK ==
  /\ clock \in 0..MaxClock
  /\ request \in [Events -> Requests] /\ \A e \in Events : request[e] \in Offered[e]
  /\ sent \subseteq Events
  /\ stamp \in [Events -> Int]
  /\ agreed \subseteq Sources
  /\ copy \in [Copies -> Stages]
  /\ expires \in [Keys -> Int] /\ \A k \in Keys : expires[k] <= clock + Window
  /\ spent \in [Copies -> Int]
  /\ unchecked \subseteq Events
  /\ queue \subseteq Copies
  /\ rows \subseteq Copies
  /\ gone \subseteq Copies

Init ==
  /\ clock = 0
  /\ request \in {r \in [Events -> Requests] : \A e \in Events : r[e] \in Offered[e]}
  /\ sent = {}
  /\ stamp = [e \in Events |-> 0]
  /\ agreed \in SUBSET Sources
  /\ "secret" \in Faults \/ agreed = Sources
  /\ copy = [a \in Copies |-> "coming"]
  /\ expires = [k \in Keys |-> Never]
  /\ spent = [a \in Copies |-> Never]
  /\ unchecked = {} /\ queue = {} /\ rows = {} /\ gone = {}

Goto(a, to) == copy' = [copy EXCEPT ![a] = to]

\* Stamped when first sent; a resend repeats the headers.
Send(e) ==
  /\ e \notin sent
  /\ sent' = sent \cup {e}
  /\ stamp' = [stamp EXCEPT ![e] = clock + Skew[e]]
  /\ UNCHANGED <<clock, request, agreed, copy, nonces, queue, worked>>

(***************************************************************************)
(* The checks of a receiver.                                               *)
(***************************************************************************)

\* abs(time.time() - ts) <= window_seconds
Fresh(e) == stamp[e] - Window <= clock /\ clock <= stamp[e] + Window

TimestampAccepted(e) ==
  request[e].stamp = "none" \/ (request[e].stamp = "good" /\ Fresh(e))

\* Secret or signature, the timestamp if there is one, and on to the nonce if
\* there is one.
Receive(a) ==
  /\ a[1] \in sent
  /\ copy[a] = "coming" /\ \A i \in 1..(a[2] - 1) : copy[<<a[1], i>>] # "coming"
  /\ Goto(a, IF SourceOf[a[1]] \notin agreed \/ ~TimestampAccepted(a[1]) THEN "refused"
             ELSE IF request[a[1]].nonce = NoNonce THEN "body" ELSE "nonce")
  /\ UNCHANGED <<clock, request, sent, stamp, agreed, nonces, queue, worked>>

\* Mutant: ex takes milliseconds.
KeyLifeInMilliseconds == 1000 * Window

\* Mutant: the key goes one second before the stamp does.
KeyLifeShort == Window - 1

\* ex=window_seconds
KeyLife == Window

\* Mutant: the sources share the nonces.
KeyOfNonce(e) == <<CHOOSE s \in Sources : TRUE, request[e].nonce>>

KeyOf(e) == <<SourceOf[e], request[e].nonce>>

\* Redis drops a key when its time is over, not at its last instant.
Alive(k) == clock <= expires[k]

SetKey(k) == expires' = [expires EXCEPT ![k] = clock + KeyLife]

\* SET key NX EX window
ConsumeNonce(a) ==
  /\ copy[a] = "nonce"
  /\ IF Alive(KeyOf(a[1]))
     THEN Goto(a, "replayed") /\ UNCHANGED <<expires, spent>>
     ELSE /\ Goto(a, "body")
          /\ SetKey(KeyOf(a[1]))
          /\ spent' = [spent EXCEPT ![a] = clock]
  /\ UNCHANGED <<clock, request, sent, stamp, agreed, unchecked, queue, worked>>

\* An error of the call lets the request in; Redis may have executed it.
NonceStoreFails(a) ==
  /\ "redis" \in Faults
  /\ copy[a] = "nonce"
  /\ Goto(a, "body")
  /\ unchecked' = unchecked \cup {a[1]}
  /\ \/ ~Alive(KeyOf(a[1])) /\ SetKey(KeyOf(a[1]))
     \/ UNCHANGED expires
  /\ UNCHANGED <<clock, request, sent, stamp, agreed, spent, queue, worked>>

\* Mutant: answered first, queued by a task of the web server.
AnswerFirst(a) ==
  /\ copy[a] = "body"
  /\ IF request[a[1]].json
     THEN Goto(a, "accepted") /\ queue' \in {queue, queue \cup {a}}
     ELSE Goto(a, "failed") /\ UNCHANGED queue
  /\ UNCHANGED <<clock, request, sent, stamp, agreed, nonces, worked>>

\* Parse, or 400; delay(); 200.
Enqueue(a) ==
  /\ copy[a] = "body"
  /\ IF request[a[1]].json
     THEN Goto(a, "accepted") /\ queue' = queue \cup {a}
     ELSE Goto(a, "failed") /\ UNCHANGED queue
  /\ UNCHANGED <<clock, request, sent, stamp, agreed, nonces, worked>>

\* delay() raises, the answer is 500; the message may be in the queue.
EnqueueFails(a) ==
  /\ "redis" \in Faults
  /\ copy[a] = "body"
  /\ request[a[1]].json
  /\ Goto(a, "failed")
  /\ queue' \in {queue, queue \cup {a}}
  /\ UNCHANGED <<clock, request, sent, stamp, agreed, nonces, worked>>

\* The server stops with the requests it was serving.
Crash ==
  /\ "crash" \in Faults
  /\ \E a \in Copies : copy[a] \in {"nonce", "body"}
  /\ copy' = [a \in Copies |-> CASE copy[a] = "nonce" -> "refused"
                                 [] copy[a] = "body"  -> "failed"
                                 [] OTHER             -> copy[a]]
  /\ UNCHANGED <<clock, request, sent, stamp, agreed, nonces, queue, worked>>

(***************************************************************************)
(* The worker and the environment.                                         *)
(***************************************************************************)

\* A task of the worker commits, after whatever retries and redeliveries: the
\* row of a copy.  The idempotency key contains received_at, so a copy is an
\* event of its own; a redelivered message is not.
Work(a) ==
  /\ a \in queue
  /\ rows' = rows \cup {a}
  /\ queue' = queue \ {a}
  /\ UNCHANGED <<clock, request, sent, stamp, agreed, copy, nonces, gone>>

\* Every retry has failed, or the pool's child process died with the task: the
\* message is acknowledged and nothing is committed (AlertPipeline, RetryOrDrop
\* and Crash).
GiveUp(a) ==
  /\ "worker" \in Faults
  /\ a \in queue
  /\ gone' = gone \cup {a}
  /\ queue' = queue \ {a}
  /\ UNCHANGED <<clock, request, sent, stamp, agreed, copy, nonces, rows>>

\* The operator gives the sender the right secret.
FixSecret(s) ==
  /\ s \notin agreed
  /\ agreed' = agreed \cup {s}
  /\ UNCHANGED <<clock, request, sent, stamp, copy, nonces, queue, worked>>

Tick ==
  /\ clock < MaxClock
  /\ clock' = clock + 1
  /\ UNCHANGED <<request, sent, stamp, agreed, copy, nonces, queue, worked>>

Serve(a) == Receive(a) \/ ConsumeNonce(a) \/ NonceStoreFails(a) \/ Enqueue(a) \/ EnqueueFails(a)

Next ==
  \/ \E e \in Events : Send(e)
  \/ \E a \in Copies : Serve(a) \/ Work(a) \/ GiveUp(a)
  \/ \E s \in Sources : FixSecret(s)
  \/ Crash
  \/ Tick

Spec == Init /\ [][Next]_vars

\* Celery's workers keep taking messages, and finish them one way or the other.
FairSpec == Spec /\ \A a \in Copies : WF_vars(Work(a) \/ GiveUp(a))

(***************************************************************************)
(* Properties.                                                             *)
(***************************************************************************)

\* Copies that got past the nonce, whatever became of them.
Past(e) == {a \in {e} \X (1..MaxCopies) : copy[a] \in {"body", "accepted", "failed"}}

\* Redis has answered for every copy of an event that carries a nonce.
Checked(e) == request[e].nonce # NoNonce /\ e \notin unchecked

\* Of the copies of an event, no two get past the nonce within one window, by
\* whatever clock the event is stamped and whatever crashes in between: a nonce
\* is rejected if it "was already seen within the window" (security.py).  Once
\* the key is gone the next copy gets past it, as an event of its own to the
\* worker, even if the sender's clock is ahead and the stamp is still fresh.
OneCopyPerWindow ==
  \A e \in Events : Checked(e) =>
    \A a, b \in Past(e) : a = b \/ spent[a] + Window < spent[b] \/ spent[b] + Window < spent[a]

\* A copy refused as a replay is one: another copy of the same event got past
\* the nonce before.  A nonce is not shared between sources, and not used up by
\* a request that failed its authentication or its timestamp.
RefusedCopyWasSpent ==
  \A a \in Copies : copy[a] = "replayed" => Past(a[1]) # {}

\* What was answered with 200 reaches a worker, through restarts of the server,
\* and stays until the worker has committed it or given it up (README, "Why
\* Redis + Celery").
AcceptedReachesWorker ==
  \A a \in Copies : copy[a] = "accepted" ~> a \in rows \/ a \in gone
=============================================================================
