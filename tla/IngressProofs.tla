--------------------------- MODULE IngressProofs ---------------------------
(***************************************************************************)
(* Proofs about WebhookIngress: types, and what the nonce guarantees.      *)
(*                                                                         *)
(* The inductive argument: a copy gets past a nonce store that answers     *)
(* only by setting a key that was not alive, a key is only ever set to a   *)
(* later time, and so the key outlives by a window every copy that got     *)
(* past it: the next copy comes later than that.  A sender whose clock is  *)
(* not ahead stamps before the first copy sets the key, so its stamp is    *)
(* over by then; the stamp of a sender that is ahead may not be.           *)
(***************************************************************************)
EXTENDS WebhookIngress, TLAPS

USE DEF Copies, Never

LEMMA KeyTyped ==
  ASSUME TypeOK, NEW e \in Events, request[e].nonce # NoNonce
  PROVE  KeyOf(e) \in Keys
BY IngressAssumption DEF TypeOK, KeyOf, Keys, Requests

LEMMA TimesTyped ==
  ASSUME TypeOK
  PROVE  /\ clock \in Int /\ Window \in Nat /\ clock >= 0
         /\ \A e \in Events : stamp[e] \in Int /\ Skew[e] \in Int
         /\ \A k \in Keys : expires[k] \in Int
BY IngressAssumption DEF TypeOK

LEMMA SetKeyTyped ==
  ASSUME TypeOK, NEW k, SetKey(k), clock' = clock
  PROVE  expires' \in [Keys -> Int] /\ \A j \in Keys : expires'[j] <= clock' + Window
<1>1. clock \in Int /\ Window \in Nat /\ expires \in [Keys -> Int]
  BY IngressAssumption DEF TypeOK
<1>2. expires' = [expires EXCEPT ![k] = clock + Window]
  BY DEF SetKey, KeyLife
<1>3. \A j \in Keys : expires'[j] = IF j = k THEN clock + Window ELSE expires[j]
  BY <1>1, <1>2
<1>4. \A j \in Keys : expires[j] <= clock + Window
  BY DEF TypeOK
<1>5. \A j \in Keys : expires'[j] <= clock + Window
  BY <1>1, <1>3, <1>4
<1>6. expires' \in [Keys -> Int]
  <2>1. clock + Window \in Int
    BY <1>1
  <2> QED
    BY <1>1, <1>2, <2>1
<1> QED
  BY <1>5, <1>6

LEMMA TypeInit == Init => TypeOK
BY IngressAssumption DEF Init, TypeOK, Stages

LEMMA TypeStep == TypeOK /\ [Next]_vars => TypeOK'
<1> SUFFICES ASSUME TypeOK, [Next]_vars PROVE TypeOK'
  OBVIOUS
<1> USE IngressAssumption DEF TypeOK, Stages, nonces, worked
<1>1. ASSUME NEW e \in Events, Send(e) PROVE TypeOK'
  BY <1>1 DEF Send
<1>2. ASSUME NEW a \in Copies, Receive(a) PROVE TypeOK'
  BY <1>2 DEF Receive, Goto
<1>3. ASSUME NEW a \in Copies, ConsumeNonce(a) PROVE TypeOK'
  <2>1. expires' \in [Keys -> Int] /\ \A k \in Keys : expires'[k] <= clock' + Window
    <3>1. CASE SetKey(KeyOf(a[1]))
      BY <1>3, <3>1, SetKeyTyped DEF ConsumeNonce
    <3>2. CASE UNCHANGED expires
      BY <1>3, <3>2 DEF ConsumeNonce
    <3> QED
      BY <1>3, <3>1, <3>2 DEF ConsumeNonce
  <2>2. spent' \in [Copies -> Int]
    BY <1>3 DEF ConsumeNonce
  <2>3. copy' \in [Copies -> Stages]
    BY <1>3 DEF ConsumeNonce, Goto
  <2>4. UNCHANGED <<clock, request, sent, stamp, agreed, unchecked, queue, rows, gone>>
    BY <1>3 DEF ConsumeNonce
  <2> QED
    BY <2>1, <2>2, <2>3, <2>4
<1>4. ASSUME NEW a \in Copies, NonceStoreFails(a) PROVE TypeOK'
  <2>1. CASE SetKey(KeyOf(a[1]))
    BY <1>4, <2>1, SetKeyTyped DEF NonceStoreFails, Goto
  <2>2. CASE UNCHANGED expires
    BY <1>4, <2>2 DEF NonceStoreFails, Goto
  <2> QED
    BY <1>4, <2>1, <2>2 DEF NonceStoreFails
<1>5. ASSUME NEW a \in Copies, Enqueue(a) \/ EnqueueFails(a) PROVE TypeOK'
  <2>1. copy' \in [Copies -> Stages]
    BY <1>5 DEF Enqueue, EnqueueFails, Goto
  <2>2. queue' \subseteq Copies
    BY <1>5 DEF Enqueue, EnqueueFails
  <2>3. UNCHANGED <<clock, request, sent, stamp, agreed, expires, spent, unchecked, rows, gone>>
    BY <1>5 DEF Enqueue, EnqueueFails
  <2> QED
    BY <2>1, <2>2, <2>3
<1>6. ASSUME NEW a \in Copies, Work(a) \/ GiveUp(a) PROVE TypeOK'
  BY <1>6, ZenonT(40) DEF Work, GiveUp
<1>7. ASSUME NEW s \in Sources, FixSecret(s) PROVE TypeOK'
  BY <1>7 DEF FixSecret
<1>8. CASE Crash
  BY <1>8 DEF Crash
<1>9. CASE Tick
  BY <1>9 DEF Tick
<1>10. CASE UNCHANGED vars
  BY <1>10 DEF vars
<1> QED
  BY <1>1, <1>2, <1>3, <1>4, <1>5, <1>6, <1>7, <1>8, <1>9, <1>10 DEF Next, Serve

\* Every reachable state of the ingress is well typed, and no key outlives its
\* window (TypeOK), for any senders, requests, skews and faults.
THEOREM TypeCorrect == Spec => []TypeOK
BY TypeInit, TypeStep, PTL DEF Spec

(***************************************************************************)
(* The inductive invariant.                                                *)
(***************************************************************************)
UsesNonce(e) == request[e].nonce # NoNonce

\* Nothing gets past the nonce unsent, and a stamp is not from the future.
StampInv ==
  \A e \in Events :
    /\ Past(e) # {} => e \in sent
    /\ e \in sent /\ Skew[e] <= 0 => stamp[e] <= clock

\* A key in Redis was set by a copy of its event.
KeyInv ==
  \A e \in Events : UsesNonce(e) /\ expires[KeyOf(e)] # Never => Past(e) # {}

\* The key of a checked event outlives by a window every copy that got past it.
SpentInv ==
  \A e \in Events : Checked(e) =>
    \A a \in Past(e) : /\ spent[a] <= clock
                       /\ spent[a] + Window <= expires[KeyOf(e)]
                       /\ Skew[e] <= 0 => stamp[e] <= spent[a]

IngressInv == StampInv /\ KeyInv /\ SpentInv /\ OneCopyPerWindow

LEMMA InvInit == Init => IngressInv
<1> SUFFICES ASSUME Init PROVE IngressInv
  OBVIOUS
<1>1. TypeOK
  BY TypeInit
<1>2. \A e \in Events : Past(e) = {}
  BY DEF Init, Past
<1>3. \A e \in Events : UsesNonce(e) => expires[KeyOf(e)] = Never
  BY <1>1, KeyTyped DEF Init, UsesNonce
<1> QED
  BY <1>2, <1>3 DEF Init, IngressInv, StampInv, KeyInv, SpentInv, OneCopyPerWindow

\* Two events that share a nonce at one source are one event.
LEMMA KeysDiffer ==
  ASSUME TypeOK, NEW d \in Events, NEW e \in Events, UsesNonce(d), KeyOf(d) = KeyOf(e)
  PROVE  d = e
BY IngressAssumption DEF TypeOK, KeyOf, UsesNonce

\* A step that moves no key and no copy across the nonce keeps the invariant.
LEMMA OtherSteps ==
  ASSUME TypeOK, IngressInv, TypeOK',
         \A e \in Events : Past(e)' = Past(e),
         UNCHANGED <<request, expires, spent, unchecked>>, clock' >= clock,
         \A e \in Events :
           \/ e \in sent /\ e \in sent' /\ stamp'[e] = stamp[e]
           \/ e \notin sent /\ e \notin sent'
           \/ e \notin sent /\ e \in sent' /\ stamp'[e] = clock' + Skew[e]
  PROVE  IngressInv'
<1> USE IngressAssumption
<1>1. \A e \in Events : /\ KeyOf(e)' = KeyOf(e) /\ UsesNonce(e)' = UsesNonce(e)
                        /\ Checked(e)' = Checked(e)
  BY DEF KeyOf, UsesNonce, Checked
<1>2. StampInv'
  BY DEF IngressInv, StampInv, TypeOK
<1>3. KeyInv'
  BY <1>1 DEF IngressInv, KeyInv
<1>4. SpentInv'
  <2> SUFFICES ASSUME NEW e \in Events, Checked(e), NEW a \in Past(e)
               PROVE  /\ spent[a] <= clock'
                      /\ spent[a] + Window <= expires[KeyOf(e)]
                      /\ Skew[e] <= 0 => stamp'[e] <= spent[a]
    BY <1>1 DEF SpentInv
  <2>1. /\ spent[a] <= clock
        /\ spent[a] + Window <= expires[KeyOf(e)]
        /\ Skew[e] <= 0 => stamp[e] <= spent[a]
    BY DEF IngressInv, SpentInv
  <2>2. stamp'[e] = stamp[e]
    BY DEF IngressInv, StampInv
  <2>3. spent[a] \in Int /\ clock \in Int /\ clock' \in Int
    BY DEF TypeOK, Past
  <2> QED
    BY <2>1, <2>2, <2>3
<1>5. OneCopyPerWindow'
  BY <1>1 DEF IngressInv, OneCopyPerWindow
<1> QED
  BY <1>2, <1>3, <1>4, <1>5 DEF IngressInv

\* A copy gets past the nonce: it sets a key that was not alive, or its event's
\* check was skipped, or its event carries no nonce.
PassedBy(a) ==
  \/ ~UsesNonce(a[1]) /\ UNCHANGED nonces
  \/ /\ UsesNonce(a[1]) /\ ~Alive(KeyOf(a[1])) /\ SetKey(KeyOf(a[1]))
     /\ UNCHANGED unchecked /\ spent' = [spent EXCEPT ![a] = clock]
  \/ /\ UsesNonce(a[1]) /\ a[1] \in unchecked' /\ UNCHANGED spent
     /\ SetKey(KeyOf(a[1])) \/ UNCHANGED expires

LEMMA PassingStep ==
  ASSUME TypeOK, IngressInv, TypeOK', NEW a \in Copies,
         a[1] \in sent, a \notin Past(a[1]), Past(a[1])' = Past(a[1]) \cup {a},
         \A e \in Events \ {a[1]} : Past(e)' = Past(e),
         UNCHANGED <<clock, request, sent, stamp>>,
         \A e \in Events \ {a[1]} : e \in unchecked' <=> e \in unchecked,
         PassedBy(a)
  PROVE  IngressInv'
<1> USE IngressAssumption DEF nonces
<1>0. a[1] \in Events
  OBVIOUS
<1>1. \A e \in Events : KeyOf(e)' = KeyOf(e) /\ UsesNonce(e)' = UsesNonce(e)
  BY DEF KeyOf, UsesNonce
<1>2. \A b \in Copies \ {a} : spent'[b] = spent[b]
  BY DEF PassedBy, TypeOK
<1>3. \A e \in Events \ {a[1]} :
        /\ Checked(e)' = Checked(e)
        /\ UsesNonce(e) => expires'[KeyOf(e)] = expires[KeyOf(e)]
        /\ \A b \in Past(e) : spent'[b] = spent[b]
  <2> SUFFICES ASSUME NEW e \in Events \ {a[1]}
               PROVE  /\ Checked(e)' = Checked(e)
                      /\ UsesNonce(e) => expires'[KeyOf(e)] = expires[KeyOf(e)]
                      /\ \A b \in Past(e) : spent'[b] = spent[b]
    OBVIOUS
  <2>1. Checked(e)' = Checked(e)
    BY DEF Checked
  <2>2. ASSUME UsesNonce(e) PROVE expires'[KeyOf(e)] = expires[KeyOf(e)]
    <3>1. KeyOf(e) # KeyOf(a[1]) /\ KeyOf(e) \in Keys
      BY <2>2, KeysDiffer, KeyTyped DEF UsesNonce
    <3> QED
      BY <3>1 DEF PassedBy, SetKey, TypeOK
  <2>3. \A b \in Past(e) : b \in Copies \ {a}
    BY DEF Past
  <2> QED
    BY <1>2, <2>1, <2>2, <2>3
<1>4. StampInv'
  BY DEF IngressInv, StampInv
<1>5. KeyInv'
  BY <1>0, <1>1, <1>3 DEF IngressInv, KeyInv
\* What the copy's own event gains, when Redis answered for all of its copies.
<1>6. ASSUME Checked(a[1])'
      PROVE  /\ KeyOf(a[1]) \in Keys /\ Checked(a[1])
             /\ spent'[a] = clock /\ expires'[KeyOf(a[1])] = clock + Window
             /\ \A b \in Past(a[1]) : /\ spent'[b] = spent[b] /\ spent[b] \in Int
                                      /\ spent[b] <= clock
                                      /\ spent[b] + Window < clock
                                      /\ Skew[a[1]] <= 0 => stamp[a[1]] <= spent[b]
  <2>1. /\ UsesNonce(a[1]) /\ ~Alive(KeyOf(a[1])) /\ SetKey(KeyOf(a[1]))
        /\ UNCHANGED unchecked /\ spent' = [spent EXCEPT ![a] = clock]
    BY <1>6, <1>1 DEF PassedBy, Checked, UsesNonce
  <2>2. KeyOf(a[1]) \in Keys /\ Checked(a[1])
    BY <1>0, <1>6, <2>1, KeyTyped DEF UsesNonce, Checked
  <2>3. spent'[a] = clock /\ expires'[KeyOf(a[1])] = clock + Window
    BY <2>1, <2>2 DEF SetKey, KeyLife, TypeOK
  <2>4. ASSUME NEW b \in Past(a[1])
        PROVE  /\ spent'[b] = spent[b] /\ spent[b] \in Int /\ spent[b] <= clock
               /\ spent[b] + Window < clock
               /\ Skew[a[1]] <= 0 => stamp[a[1]] <= spent[b]
    <3>1. /\ spent[b] <= clock /\ spent[b] + Window <= expires[KeyOf(a[1])]
          /\ Skew[a[1]] <= 0 => stamp[a[1]] <= spent[b]
      BY <1>0, <2>2 DEF IngressInv, SpentInv
    <3>2. b \in Copies \ {a} /\ spent[b] \in Int
      BY DEF Past, TypeOK
    <3>3. ~(clock <= expires[KeyOf(a[1])])
      BY <2>1 DEF Alive
    <3> QED
      BY <1>2, <2>2, <3>1, <3>2, <3>3, TimesTyped
  <2> QED
    BY <2>2, <2>3, <2>4
<1>7. SpentInv'
  <2> SUFFICES ASSUME NEW e \in Events, Checked(e)', NEW b \in Past(e)'
               PROVE  /\ spent'[b] <= clock
                      /\ spent'[b] + Window <= expires'[KeyOf(e)]
                      /\ Skew[e] <= 0 => stamp[e] <= spent'[b]
    BY <1>1 DEF SpentInv
  <2>1. CASE e # a[1]
    BY <1>3, <2>1 DEF IngressInv, SpentInv, Checked, UsesNonce
  <2>2. CASE e = a[1] /\ b = a
    <3>1. Skew[e] <= 0 => stamp[e] <= clock
      BY <2>2 DEF IngressInv, StampInv
    <3> QED
      BY <1>6, <2>2, <3>1, TimesTyped
  <2>3. CASE e = a[1] /\ b # a
    <3>1. b \in Past(a[1])
      BY <2>3
    <3> QED
      BY <1>6, <2>3, <3>1, TimesTyped
  <2> QED
    BY <2>1, <2>2, <2>3
<1>8. OneCopyPerWindow'
  <2> SUFFICES ASSUME NEW e \in Events, Checked(e)', NEW b \in Past(e)', NEW c \in Past(e)'
               PROVE  \/ b = c
                      \/ spent'[b] + Window < spent'[c]
                      \/ spent'[c] + Window < spent'[b]
    BY DEF OneCopyPerWindow
  <2>1. CASE e # a[1]
    BY <1>3, <2>1 DEF IngressInv, OneCopyPerWindow
  <2>2. CASE e = a[1] /\ (b = a \/ c = a)
    BY <1>6, <2>2
  <2>3. CASE e = a[1] /\ b # a /\ c # a
    <3>1. b \in Past(a[1]) /\ c \in Past(a[1]) /\ Checked(a[1])
      BY <1>6, <2>3
    <3> QED
      BY <1>6, <2>3, <3>1 DEF IngressInv, OneCopyPerWindow
  <2> QED
    BY <2>1, <2>2, <2>3
<1> QED
  BY <1>4, <1>5, <1>7, <1>8 DEF IngressInv

\* What a copy's own step does to the copies past the nonce.
LEMMA PastOfMove ==
  ASSUME TypeOK, NEW a \in Copies, NEW to, Goto(a, to)
  PROVE  /\ \A e \in Events \ {a[1]} : Past(e)' = Past(e)
         /\ to \in {"body", "accepted", "failed"} => Past(a[1])' = Past(a[1]) \cup {a}
         /\ to \notin {"body", "accepted", "failed"} /\ a \notin Past(a[1]) =>
              Past(a[1])' = Past(a[1])
<1>1. \A b \in Copies : copy'[b] = IF b = a THEN to ELSE copy[b]
  BY DEF TypeOK, Goto
<1> QED
  BY <1>1 DEF Past

\* A copy that waits for Redis was sent, with a nonce.
WaitInv ==
  \A a \in Copies : copy[a] = "nonce" => a[1] \in sent /\ UsesNonce(a[1])

LEMMA WaitStep == TypeOK /\ WaitInv /\ [Next]_vars => WaitInv'
<1> SUFFICES ASSUME TypeOK, WaitInv, [Next]_vars,
                    NEW a \in Copies, copy'[a] = "nonce"
             PROVE  a[1] \in sent' /\ UsesNonce(a[1])'
  BY DEF WaitInv
<1> USE DEF TypeOK, WaitInv, UsesNonce
<1>1. ASSUME NEW b \in Copies, Receive(b) PROVE a[1] \in sent' /\ UsesNonce(a[1])'
  BY <1>1 DEF Receive, Goto
<1>2. ASSUME copy'[a] = copy[a], sent \subseteq sent', request' = request
      PROVE  a[1] \in sent' /\ UsesNonce(a[1])'
  BY <1>2
<1>3. ASSUME NEW b \in Copies,
             ConsumeNonce(b) \/ NonceStoreFails(b) \/ Enqueue(b) \/ EnqueueFails(b)
      PROVE  a[1] \in sent' /\ UsesNonce(a[1])'
  BY <1>2, <1>3 DEF ConsumeNonce, NonceStoreFails, Enqueue, EnqueueFails, Goto
<1>4. ASSUME NEW b \in Copies, Work(b) \/ GiveUp(b) PROVE a[1] \in sent' /\ UsesNonce(a[1])'
  BY <1>2, <1>4 DEF Work, GiveUp
<1>5. ASSUME NEW e \in Events, Send(e) PROVE a[1] \in sent' /\ UsesNonce(a[1])'
  BY <1>2, <1>5 DEF Send
<1>6. ASSUME NEW s \in Sources, FixSecret(s) PROVE a[1] \in sent' /\ UsesNonce(a[1])'
  BY <1>2, <1>6 DEF FixSecret
<1>7. CASE Crash
  BY <1>7 DEF Crash
<1>8. CASE Tick
  BY <1>2, <1>8 DEF Tick
<1>9. CASE UNCHANGED vars
  BY <1>2, <1>9 DEF vars
<1> QED
  BY <1>1, <1>3, <1>4, <1>5, <1>6, <1>7, <1>8, <1>9 DEF Next, Serve

LEMMA InvStep == TypeOK /\ WaitInv /\ IngressInv /\ TypeOK' /\ [Next]_vars => IngressInv'
<1> SUFFICES ASSUME TypeOK, WaitInv, IngressInv, TypeOK', [Next]_vars PROVE IngressInv'
  OBVIOUS
<1> USE IngressAssumption DEF nonces, worked
<1>1. ASSUME NEW e \in Events, Send(e) PROVE IngressInv'
  <2>1. \A d \in Events : Past(d)' = Past(d)
    BY <1>1 DEF Send, Past
  <2> QED
    BY <1>1, <2>1, TimesTyped, OtherSteps DEF Send, TypeOK
<1>2. ASSUME NEW a \in Copies, Receive(a) PROVE IngressInv'
  <2>1. a[1] \in Events /\ a \notin Past(a[1])
    BY <1>2 DEF Receive, Past
  <2>2. CASE Goto(a, "body") /\ ~UsesNonce(a[1])
    BY <1>2, <2>1, <2>2, PastOfMove, PassingStep DEF Receive, PassedBy
  <2>3. CASE Goto(a, "refused") \/ Goto(a, "nonce")
    <3>1. \A d \in Events : Past(d)' = Past(d)
      BY <2>1, <2>3, PastOfMove
    <3> QED
      BY <1>2, <3>1, TimesTyped, OtherSteps DEF Receive
  <2> QED
    BY <1>2, <2>2, <2>3 DEF Receive, UsesNonce
<1>3. ASSUME NEW a \in Copies, ConsumeNonce(a) \/ NonceStoreFails(a) PROVE IngressInv'
  <2>1. a[1] \in sent /\ UsesNonce(a[1]) /\ a \notin Past(a[1]) /\ a[1] \in Events
    BY <1>3 DEF ConsumeNonce, NonceStoreFails, WaitInv, Past
  <2>2. CASE Goto(a, "body")
    BY <1>3, <2>1, <2>2, PastOfMove, PassingStep DEF ConsumeNonce, NonceStoreFails, PassedBy
  <2>3. CASE Goto(a, "replayed") /\ UNCHANGED <<clock, request, sent, stamp, nonces>>
    <3>1. \A d \in Events : Past(d)' = Past(d)
      BY <2>1, <2>3, PastOfMove
    <3> QED
      BY <2>3, <3>1, TimesTyped, OtherSteps
  <2> QED
    BY <1>3, <2>2, <2>3 DEF ConsumeNonce, NonceStoreFails
<1>4. ASSUME NEW a \in Copies, Enqueue(a) \/ EnqueueFails(a) PROVE IngressInv'
  <2>1. a \in Past(a[1]) /\ a[1] \in Events
    BY <1>4 DEF Enqueue, EnqueueFails, Past
  <2>2. Goto(a, "accepted") \/ Goto(a, "failed")
    BY <1>4 DEF Enqueue, EnqueueFails
  <2>3. \A d \in Events : Past(d)' = Past(d)
    <3>1. Past(a[1])' = Past(a[1]) \cup {a} /\ \A d \in Events \ {a[1]} : Past(d)' = Past(d)
      BY <2>2, PastOfMove
    <3> QED
      BY <2>1, <3>1
  <2> QED
    BY <1>4, <2>3, TimesTyped, OtherSteps DEF Enqueue, EnqueueFails
<1>5. ASSUME NEW a \in Copies, Work(a) \/ GiveUp(a) PROVE IngressInv'
  <2>1. \A d \in Events : Past(d)' = Past(d)
    BY <1>5 DEF Work, GiveUp, Past
  <2> QED
    BY <1>5, <2>1, TimesTyped, OtherSteps DEF Work, GiveUp
<1>6. ASSUME NEW s \in Sources, FixSecret(s) PROVE IngressInv'
  <2>1. \A d \in Events : Past(d)' = Past(d)
    BY <1>6 DEF FixSecret, Past
  <2> QED
    BY <1>6, <2>1, TimesTyped, OtherSteps DEF FixSecret
<1>7. CASE Crash
  <2>1. \A d \in Events : Past(d)' = Past(d)
    BY <1>7 DEF Crash, Past
  <2> QED
    BY <1>7, <2>1, TimesTyped, OtherSteps DEF Crash
<1>8. CASE Tick
  <2>1. \A d \in Events : Past(d)' = Past(d)
    BY <1>8 DEF Tick, Past
  <2> QED
    BY <1>8, <2>1, TimesTyped, OtherSteps DEF Tick
<1>9. CASE UNCHANGED vars
  <2>1. \A d \in Events : Past(d)' = Past(d)
    BY <1>9 DEF vars, Past
  <2> QED
    BY <1>9, <2>1, TimesTyped, OtherSteps DEF vars
<1> QED
  BY <1>1, <1>2, <1>3, <1>4, <1>5, <1>6, <1>7, <1>8, <1>9 DEF Next, Serve

LEMMA Invariance == Spec => [](TypeOK /\ WaitInv /\ IngressInv)
<1>1. Init => WaitInv
  BY DEF Init, WaitInv
<1> QED
  BY <1>1, TypeInit, TypeStep, InvInit, WaitStep, InvStep, PTL DEF Spec

\* Two copies of an event that got past the nonce did so more than a window
\* apart (OneCopyPerWindow), for any senders, copies, clocks, windows and
\* crashes, as long as Redis answered for every copy that came to it.
THEOREM EntersOncePerWindow == Spec => []OneCopyPerWindow
<1>1. IngressInv => OneCopyPerWindow
  BY DEF IngressInv
<1> QED
  BY <1>1, Invariance, PTL

\* What security.py promises of both headers together, for the senders it is
\* true of: at most one copy has entered while the stamp is fresh, when the
\* sender's clock is not ahead of the server's.
OneCopyWhileFresh ==
  \A e \in Events : Checked(e) /\ Skew[e] <= 0 /\ Fresh(e) => \A a, b \in Past(e) : a = b

\* A sender whose clock is not ahead gets one copy of an event in while its
\* stamp is fresh (OneCopyWhileFresh).  A sender whose clock is ahead may get a
\* second one in: the key is gone before the stamp is too old.
THEOREM EntersOnce == Spec => []OneCopyWhileFresh
<1>1. TypeOK /\ IngressInv => OneCopyWhileFresh
  <2> SUFFICES ASSUME TypeOK, IngressInv, NEW e \in Events, Checked(e), Skew[e] <= 0, Fresh(e),
                      NEW a \in Past(e), NEW b \in Past(e), a # b
               PROVE  FALSE
    BY DEF OneCopyWhileFresh
  <2>1. /\ spent[a] <= clock /\ stamp[e] <= spent[a]
        /\ spent[b] <= clock /\ stamp[e] <= spent[b]
    BY DEF IngressInv, SpentInv
  <2>2. spent[a] + Window < spent[b] \/ spent[b] + Window < spent[a]
    BY DEF IngressInv, OneCopyPerWindow
  <2>3. clock <= stamp[e] + Window
    BY DEF Fresh
  <2>4. spent[a] \in Int /\ spent[b] \in Int
    BY DEF Past, TypeOK
  <2> QED
    BY <2>1, <2>2, <2>3, <2>4, TimesTyped
<1> QED
  BY <1>1, Invariance, PTL

LEMMA PastGrows ==
  ASSUME TypeOK, [Next]_vars, NEW e \in Events
  PROVE  Past(e) \subseteq Past(e)'
<1> SUFFICES ASSUME NEW a \in Copies, copy[a] \in {"body", "accepted", "failed"}
             PROVE  copy'[a] \in {"body", "accepted", "failed"}
  BY DEF Past
<1> QED
  BY DEF Next, Serve, Send, Receive, ConsumeNonce, NonceStoreFails, Enqueue, EnqueueFails,
         Crash, Work, GiveUp, FixSecret, Tick, vars, nonces, worked, Goto, TypeOK

\* A copy is refused as a replay only when another copy of the same event got
\* past the nonce check (RefusedCopyWasSpent), whatever became of that copy
\* afterwards, Redis failures included.
THEOREM NoFalseReplay == Spec => []RefusedCopyWasSpent
<1>1. Init => RefusedCopyWasSpent
  BY DEF Init, RefusedCopyWasSpent
<1>2. TypeOK /\ WaitInv /\ IngressInv /\ RefusedCopyWasSpent /\ [Next]_vars
        => RefusedCopyWasSpent'
  <2> SUFFICES ASSUME TypeOK, WaitInv, IngressInv, RefusedCopyWasSpent, [Next]_vars,
                      NEW a \in Copies, copy'[a] = "replayed"
               PROVE  Past(a[1])' # {}
    BY DEF RefusedCopyWasSpent
  <2>1. CASE copy[a] = "replayed"
    BY <2>1, PastGrows DEF RefusedCopyWasSpent
  <2>2. CASE copy[a] # "replayed"
    <3>1. a[1] \in Events /\ ConsumeNonce(a) /\ Alive(KeyOf(a[1]))
      BY <2>2 DEF Next, Serve, Send, Receive, ConsumeNonce, NonceStoreFails, Enqueue,
                  EnqueueFails, Crash, Work, GiveUp, FixSecret, Tick, vars, nonces, worked, Goto, TypeOK
    <3>2. UsesNonce(a[1]) /\ KeyOf(a[1]) \in Keys
      BY <3>1, KeyTyped DEF ConsumeNonce, WaitInv, UsesNonce
    <3>3. Past(a[1]) # {}
      BY <3>1, <3>2, TimesTyped DEF Alive, IngressInv, KeyInv
    <3> QED
      BY <3>1, <3>3, PastGrows
  <2> QED
    BY <2>1, <2>2
<1> QED
  BY <1>1, <1>2, Invariance, PTL DEF Spec
=============================================================================
