----------------------------- MODULE RaceProofs -----------------------------
(***************************************************************************)
(* Proofs about FreshdeskRace, for any incidents, tickets, runs and times: *)
(* types, the row behind a matched incident, the official rule behind a    *)
(* win, the ticket behind an answered webhook, one match per ticket while  *)
(* a single sync runs, and the counters of the scoreboard.                 *)
(*                                                                         *)
(* The inductive argument: what a session is about to commit already has   *)
(* the property the database needs, and what it relies on never leaves the *)
(* database; a webhook's own ticket is in the table or in its session at   *)
(* every point where the request may end; what the page has counted never  *)
(* decreases before it counts the rest.                                    *)
(***************************************************************************)
EXTENDS FreshdeskRace, FiniteSetTheorems, TLAPS

LEMMA SessionsTyped ==
  /\ NoSession \in Sessions
  /\ \A s \in Sessions, b \in BOOLEAN : [NoSession EXCEPT !.sync = b] \in Sessions
BY DEF NoSession, Sessions

LEMMA FreedTyped ==
  ASSUME TypeOK, NEW r \in Runs
  PROVE  LocksFreed(r) \in [Incidents -> Runs \cup {NoRun}]
BY DEF TypeOK, LocksFreed

LEMMA OutcomeTyped ==
  ASSUME NEW i, NEW t
  PROVE  Outcome(i, t) \in Outcomes
BY DEF Outcome, ClassifyOutcome, Outcomes

LEMMA AbortTyped ==
  ASSUME TypeOK, NEW r \in Runs, Abort(r)
  PROVE  TypeOK'
<1>1. [NoSession EXCEPT !.sync = sess[r].sync] \in Sessions
  BY DEF TypeOK, NoSession, Sessions
<1>2. sess' \in [Runs -> Sessions] /\ pc' \in [Runs -> Controls]
  BY <1>1 DEF Abort, Session, Goto, TypeOK, Controls
<1> QED
  BY <1>2, FreedTyped DEF Abort, database, TypeOK

LEMMA TypeInit == Init => TypeOK
BY RaceAssumption, SessionsTyped
DEF Init, TypeOK, Controls, IncidentStatuses, NoPage, Pages, Runs

\* What the matcher adds to a session.
NewMatch(r, t, i) == [run |-> r, ticket |-> t, incident |-> i, outcome |-> Outcome(i, t)]

LEMMA BestIsCandidate ==
  ASSUME NEW r, NEW t, NEW i \in Best(r, t)
  PROVE  i \in sess[r].cands
BY DEF Best

\* The check of ticket t ends the session, skips the ticket, or matches it.
Ended(r, t) == Cardinality(Existing(r, t)) > 1 /\ Abort(r)

Skipped(r, t) ==
  /\ Session(r, [sess[r] EXCEPT !.batch = @ \ {t}])
  /\ UNCHANGED <<now, page, database, enriching, rowLock, pc, tries>>

Matched(r, t, i) ==
  /\ Existing(r, t) = {}
  /\ Session(r, [sess[r] EXCEPT !.batch = @ \ {t}, !.pend = @ \cup {NewMatch(r, t, i)}])
  /\ Goto(r, "flush")
  /\ UNCHANGED <<now, page, database, enriching, rowLock, tries>>

LEMMA CheckSplits ==
  ASSUME TypeOK, NEW r \in Runs, CheckTicket(r)
  PROVE  \E t \in sess[r].batch :
           /\ t \in Tickets
           /\ Ended(r, t) \/ Skipped(r, t) \/ \E i \in Best(r, t) : Matched(r, t, i)
<1>1. sess[r] \in Sessions
  BY DEF TypeOK
<1>2. PICK t \in Newest(sess[r].batch) :
        \/ Ended(r, t)
        \/ Skipped(r, t)
        \/ /\ Existing(r, t) = {}
           /\ \E i \in Best(r, t) :
                Session(r, [[sess[r] EXCEPT !.batch = @ \ {t}] EXCEPT
                              !.pend = @ \cup {NewMatch(r, t, i)}])
           /\ Goto(r, "flush")
           /\ UNCHANGED <<now, page, database, enriching, rowLock, tries>>
  BY DEF CheckTicket, Ended, Skipped, NewMatch
<1>3. t \in Tickets /\ t \in sess[r].batch
  BY <1>1 DEF Newest, Sessions
<1>4. ASSUME NEW i PROVE [[sess[r] EXCEPT !.batch = @ \ {t}] EXCEPT
                            !.pend = @ \cup {NewMatch(r, t, i)}]
                         = [sess[r] EXCEPT !.batch = @ \ {t},
                                           !.pend = @ \cup {NewMatch(r, t, i)}]
  BY <1>1 DEF Sessions
<1> QED
  BY <1>2, <1>3, <1>4 DEF Matched

LEMMA CheckTyped ==
  ASSUME TypeOK, NEW r \in Runs, CheckTicket(r)
  PROVE  TypeOK'
<1>1. sess[r] \in Sessions
  BY DEF TypeOK
<1>2. PICK t \in sess[r].batch :
        /\ t \in Tickets
        /\ Ended(r, t) \/ Skipped(r, t) \/ \E i \in Best(r, t) : Matched(r, t, i)
  BY CheckSplits
<1>3. CASE Ended(r, t)
  BY <1>3, AbortTyped DEF Ended
<1>4. CASE Skipped(r, t)
  <2>1. [sess[r] EXCEPT !.batch = @ \ {t}] \in Sessions
    BY <1>1 DEF Sessions
  <2> QED
    BY <1>4, <2>1 DEF Skipped, Session, database, TypeOK
<1>5. ASSUME NEW i \in Best(r, t), Matched(r, t, i) PROVE TypeOK'
  <2>1. i \in Incidents
    BY <1>1, BestIsCandidate DEF Sessions
  <2>2. NewMatch(r, t, i) \in Matches
    BY <1>2, <2>1, OutcomeTyped DEF NewMatch, Matches
  <2>3. [sess[r] EXCEPT !.batch = @ \ {t}, !.pend = @ \cup {NewMatch(r, t, i)}] \in Sessions
    BY <1>1, <2>2 DEF Sessions
  <2>4. sess' \in [Runs -> Sessions] /\ pc' \in [Runs -> Controls]
    BY <1>5, <2>3 DEF Matched, Session, Goto, TypeOK, Controls, Working
  <2> QED
    BY <1>5, <2>4 DEF Matched, database, TypeOK
<1> QED
  BY <1>2, <1>3, <1>4, <1>5

LEMMA RunStepTyped ==
  ASSUME TypeOK, NEW r \in Runs, RunStep(r)
  PROVE  TypeOK'
<1> USE DEF Goto, Session, database, Controls, Working
<1>0. sess[r] \in Sessions /\ NoSession \in Sessions
  BY SessionsTyped DEF TypeOK
<1>1. CASE ReceiveWebhook(r)
  <2>1. [NoSession EXCEPT !.batch = {HookTicket[r]}, !.sync = FALSE] \in Sessions
    BY <1>1, RaceAssumption DEF ReceiveWebhook, NoSession, Sessions, Visible
  <2> QED
    BY <1>1, <2>1 DEF ReceiveWebhook, TypeOK
<1>2. CASE FetchTickets(r)
  <2>1. ASSUME NEW older \in SUBSET (Visible \ Recent)
        PROVE  [NoSession EXCEPT !.batch = FirstPage(Recent \cup older)] \in Sessions
    <3>1. FirstPage(Recent \cup older) \subseteq Tickets
      BY DEF FirstPage, Recent, Visible
    <3> QED
      BY <3>1 DEF NoSession, Sessions
  <2>2. sess' \in [Runs -> Sessions] /\ pc' \in [Runs -> Controls]
    BY <1>2, <2>1 DEF FetchTickets, Rest, TypeOK
  <2> QED
    BY <1>2, <2>2 DEF FetchTickets, TypeOK
<1>3. CASE SelectTickets(r)
  <2>1. [sess[r] EXCEPT !.new = sess[r].batch \ saved] \in Sessions
    BY <1>0 DEF Sessions
  <2> QED
    BY <1>3, <2>1 DEF SelectTickets, TypeOK
<1>4. CASE InsertTickets(r)
  <2>1. CASE Abort(r)
    BY <2>1, AbortTyped
  <2>2. CASE Goto(r, "load") /\ UNCHANGED <<now, page, database, enriching, rowLock, tries, sess>>
    BY <2>2 DEF TypeOK
  <2> QED
    BY <1>4, <2>1, <2>2 DEF InsertTickets
<1>5. CASE LoadCandidates(r)
  <2>1. Candidates \subseteq Incidents
    BY DEF Candidates, Delivered
  <2>2. [sess[r] EXCEPT !.cands = Candidates, !.told = Candidates \cap Summarized] \in Sessions
    BY <1>0, <2>1 DEF Sessions
  <2> QED
    BY <1>5, <2>2 DEF LoadCandidates, TypeOK
<1>6. CASE CheckTicket(r)
  BY <1>6, CheckTyped
<1>7. CASE FlushMatch(r)
  BY <1>7 DEF FlushMatch, TypeOK
<1>8. CASE DeadlockVictim(r)
  BY <1>8, AbortTyped DEF DeadlockVictim
<1>9. CASE CommitRun(r)
  <2>1. saved' \subseteq Tickets /\ matches' \subseteq Matches
    BY <1>0, <1>9 DEF CommitRun, Committed, Sessions, TypeOK
  <2>2. status' \in [Incidents -> IncidentStatuses]
    BY <1>9 DEF CommitRun, IncidentStatuses, TypeOK
  <2>3. rowLock' \in [Incidents -> Runs \cup {NoRun}]
    BY <1>9, FreedTyped DEF CommitRun
  <2>4. tries' \in [Runs -> 0..MaxRetries]
    BY <1>9, RaceAssumption DEF CommitRun, TypeOK
  <2>5. pc' \in [Runs -> Controls] /\ sess' \in [Runs -> Sessions]
    BY <1>0, <1>9 DEF CommitRun, Rest, TypeOK
  <2> QED
    BY <1>9, <2>1, <2>2, <2>3, <2>4, <2>5 DEF CommitRun, TypeOK
<1>10. CASE EndHook(r)
  BY <1>10 DEF EndHook, TypeOK
<1>11. CASE RetrySync(r)
  <2>1. tries[r] \in 0..MaxRetries /\ MaxRetries \in Nat
    BY RaceAssumption DEF TypeOK
  <2>2. RetriesLeft(r) => tries[r] + 1 \in 0..MaxRetries
    BY <2>1 DEF RetriesLeft
  <2>3. tries' \in [Runs -> 0..MaxRetries]
    BY <1>11, <2>2 DEF RetrySync, TypeOK
  <2>4. pc' \in [Runs -> Controls]
    BY <1>11 DEF RetrySync, TypeOK
  <2> QED
    BY <1>11, <2>3, <2>4 DEF RetrySync, TypeOK
<1>12. CASE NextCycle(r)
  BY <1>12, RaceAssumption DEF NextCycle, TypeOK
<1> QED
  BY <1>1, <1>2, <1>3, <1>4, <1>5, <1>6, <1>7, <1>8, <1>9, <1>10, <1>11, <1>12 DEF RunStep

LEMMA EnvironmentTyped ==
  ASSUME TypeOK, Environment
  PROVE  TypeOK'
<1>1. CASE Tick
  BY <1>1 DEF Tick, database, TypeOK
<1>2. ASSUME NEW i \in Incidents,
             CommitDelivery(i) \/ CommitEnrichment(i) \/ OperatorResolves(i)
      PROVE  TypeOK'
  BY <1>2 DEF CommitDelivery, CommitEnrichment, OperatorResolves, TypeOK, IncidentStatuses
<1>3. ASSUME NEW r \in Runs, DatabaseError(r) PROVE TypeOK'
  BY <1>3, AbortTyped DEF DatabaseError
<1> QED
  BY <1>1, <1>2, <1>3 DEF Environment

(***************************************************************************)
(* The counters are numbers.                                               *)
(***************************************************************************)
LEMMA MatchesFinite ==
  IsFiniteSet(Matches)
<1> DEFINE S == (Runs \X Tickets) \X (Incidents \X Outcomes)
           f == [x \in S |-> [run |-> x[1][1], ticket |-> x[1][2],
                              incident |-> x[2][1], outcome |-> x[2][2]]]
<1>1. IsFiniteSet(Outcomes)
  <2>1. Outcomes = ({"agent_won"} \cup {"agent_lost"}) \cup {"tie"}
    BY DEF Outcomes
  <2> QED
    BY <2>1, FS_Singleton, FS_Union
<1>2. IsFiniteSet(Runs \X Tickets) /\ IsFiniteSet(Incidents \X Outcomes)
  BY <1>1, FS_Product, RaceAssumption
<1>3. IsFiniteSet(S)
  BY <1>2, FS_Product
<1>4. f \in Surjection(S, Matches)
  <2>1. f \in [S -> Matches]
    BY DEF Matches
  <2>2. ASSUME NEW m \in Matches PROVE \E x \in S : f[x] = m
    <3> DEFINE y == << <<m.run, m.ticket>>, <<m.incident, m.outcome>> >>
    <3>1. y \in S
      BY DEF Matches
    <3>2. f[y] = m
      BY <3>1 DEF Matches
    <3> QED
      BY <3>1, <3>2
  <2> QED
    BY <2>1, <2>2 DEF Surjection
<1> HIDE DEF S, f
<1> QED
  BY <1>3, <1>4, FS_Surjection

\* Rows name no more incidents or tickets than there are rows.
LEMMA RowsName ==
  ASSUME NEW M \in SUBSET Matches
  PROVE  /\ IsFiniteSet(M) /\ Cardinality(M) \in Nat
         /\ IsFiniteSet({m.incident : m \in M}) /\ IsFiniteSet({m.ticket : m \in M})
         /\ Cardinality({m.incident : m \in M}) <= Cardinality(M)
<1> DEFINE f == [m \in M |-> m.incident]
           g == [m \in M |-> m.ticket]
<1>1. IsFiniteSet(M) /\ Cardinality(M) \in Nat
  BY MatchesFinite, FS_Subset, FS_CardinalityType
<1>2. f \in Surjection(M, {m.incident : m \in M})
  BY DEF Surjection
<1>3. g \in Surjection(M, {m.ticket : m \in M})
  BY DEF Surjection
<1> HIDE DEF f, g
<1> QED
  BY <1>1, <1>2, <1>3, FS_Surjection

LEMMA Countable ==
  ASSUME TypeOK
  PROVE  /\ IsFiniteSet(Delivered) /\ Cardinality(Delivered) \in Nat
         /\ IsFiniteSet(saved) /\ Cardinality(saved) \in Nat
         /\ matches \in SUBSET Matches /\ MatchedTickets \in Nat /\ TotalMatched \in Nat
<1>1. IsFiniteSet(Delivered) /\ IsFiniteSet(saved)
  BY FS_Subset, RaceAssumption DEF Delivered, TypeOK
<1>2. matches \in SUBSET Matches
  BY DEF TypeOK
<1> QED
  BY <1>1, <1>2, RowsName, FS_CardinalityType DEF MatchedTickets, TotalMatched

LEMMA PageMoves ==
  ASSUME Summary
  PROVE  \/ page' = [read |-> "alerted", alerted |-> Cardinality(Delivered), matched |-> 0]
         \/ page' = [read |-> "matches", alerted |-> 0, matched |-> MatchedTickets]
         \/ page' = [read |-> "nothing", alerted |-> 0, matched |-> 0]
<1>1. CASE CountAlerted
  BY <1>1 DEF CountAlerted, NoPage
<1>2. CASE LoadMatches
  BY <1>2 DEF LoadMatches, NoPage
<1>3. CASE CountTickets
  BY <1>3 DEF CountTickets, NoPage
<1> QED
  BY <1>1, <1>2, <1>3 DEF Summary

LEMMA SummaryTyped ==
  ASSUME TypeOK, Summary
  PROVE  TypeOK'
<1>1. Cardinality(Delivered) \in Nat /\ MatchedTickets \in Nat
  BY Countable
<1>2. page' \in Pages
  BY <1>1, PageMoves DEF Pages
<1>3. UNCHANGED race
  BY DEF Summary, CountAlerted, LoadMatches, CountTickets
<1> QED
  BY <1>2, <1>3 DEF race, TypeOK

LEMMA TypeStep == TypeOK /\ [Next]_vars => TypeOK'
<1>1. UNCHANGED vars /\ TypeOK => TypeOK'
  BY DEF vars, race, TypeOK
<1> QED
  BY <1>1, RunStepTyped, EnvironmentTyped, SummaryTyped DEF Next

\* The race is well typed for any numbers of runs, incidents and tickets.
THEOREM TypeCorrect == Spec => []TypeOK
BY TypeInit, TypeStep, PTL DEF Spec

(***************************************************************************)
(* What a step changes.                                                    *)
(***************************************************************************)
Others(r) == \A o \in Runs \ {r} : pc'[o] = pc[o] /\ sess'[o] = sess[o]

\* The steps that are not the page's own.
LEMMA StepCases ==
  ASSUME [Next]_vars
  PROVE  (\E r \in Runs : RunStep(r)) \/ Environment \/ UNCHANGED race
BY DEF Next, Summary, CountAlerted, LoadMatches, CountTickets, vars

\* A step of run r: nothing is committed, or CommitRun.
LEMMA RunStepShape ==
  ASSUME TypeOK, NEW r \in Runs, RunStep(r)
  PROVE  /\ Others(r)
         /\ CommitRun(r) \/ UNCHANGED database
BY DEF RunStep, ReceiveWebhook, FetchTickets, SelectTickets, InsertTickets, LoadCandidates,
   CheckTicket, FlushMatch, DeadlockVictim, CommitRun, EndHook, RetrySync, NextCycle, Abort,
   Goto, Session, Others, TypeOK

LEMMA AbortShape ==
  ASSUME TypeOK, NEW r \in Runs, Abort(r)
  PROVE  /\ Others(r) /\ UNCHANGED database
         /\ pc'[r] = "raise" /\ sess'[r].pend = {} /\ sess'[r].cands = {}
         /\ (sess'[r].sync <=> sess[r].sync) /\ rowLock' = LocksFreed(r)
<1>1. [NoSession EXCEPT !.sync = sess[r].sync].pend = {}
      /\ [NoSession EXCEPT !.sync = sess[r].sync].cands = {}
      /\ [NoSession EXCEPT !.sync = sess[r].sync].sync = sess[r].sync
  BY DEF NoSession
<1> QED
  BY <1>1 DEF Abort, Goto, Session, Others, TypeOK

LEMMA EnvironmentShape ==
  ASSUME TypeOK, Environment
  PROVE  /\ UNCHANGED <<saved, matches>>
         /\ \/ UNCHANGED <<pc, sess, rowLock>>
            \/ \E r \in Runs : DatabaseError(r) /\ Abort(r)
BY DEF Environment, Tick, CommitDelivery, CommitEnrichment, OperatorResolves,
   DatabaseError, Abort, database

\* A delivered incident stays one.
LEMMA DeliveredStays ==
  ASSUME TypeOK, [Next]_vars
  PROVE  Delivered \subseteq Delivered'
<1>1. ASSUME NEW r \in Runs, RunStep(r) PROVE Delivered \subseteq Delivered'
  <2>1. CASE UNCHANGED database
    BY <2>1 DEF database, Delivered
  <2>2. CASE CommitRun(r)
    BY <2>2 DEF CommitRun, Delivered, TypeOK
  <2> QED
    BY <1>1, <2>1, <2>2, RunStepShape
<1>2. CASE Environment
  BY <1>2 DEF Environment, Tick, CommitDelivery, CommitEnrichment, OperatorResolves,
     DatabaseError, Abort, database, Delivered, TypeOK
<1>3. CASE UNCHANGED race
  BY <1>3 DEF race, database, Delivered
<1> QED
  BY <1>1, <1>2, <1>3, StepCases

(***************************************************************************)
(* A matched incident has its row.                                         *)
(***************************************************************************)
LEMMA MatchedStep == TypeOK /\ MatchedHasRow /\ [Next]_vars => MatchedHasRow'
<1> SUFFICES ASSUME TypeOK, MatchedHasRow, [Next]_vars PROVE MatchedHasRow'
  OBVIOUS
<1>1. ASSUME NEW r \in Runs, RunStep(r) PROVE MatchedHasRow'
  <2>1. CASE UNCHANGED database
    BY <2>1 DEF database, MatchedHasRow
  <2>2. CASE CommitRun(r)
    <3>1. /\ matches' = matches \cup sess[r].pend
          /\ \A i \in Incidents :
               status'[i] = IF i \in ToLock(r) THEN "matched_to_freshdesk" ELSE status[i]
      BY <2>2 DEF CommitRun, Committed
    <3>2. \A i \in ToLock(r) : \E m \in sess[r].pend : m.incident = i
      BY DEF ToLock
    <3> QED
      BY <3>1, <3>2 DEF MatchedHasRow
  <2> QED
    BY <1>1, <2>1, <2>2, RunStepShape
<1>2. CASE Environment
  BY <1>2 DEF Environment, Tick, CommitDelivery, CommitEnrichment, OperatorResolves,
     DatabaseError, Abort, database, MatchedHasRow, TypeOK
<1>3. CASE UNCHANGED race
  BY <1>3 DEF race, database, MatchedHasRow
<1> QED
  BY <1>1, <1>2, <1>3, StepCases

\* The state machine and the scoreboard never disagree about whether an
\* incident was matched (MatchedHasRow).
THEOREM MatchesRecorded == Spec => []MatchedHasRow
<1>1. Init => MatchedHasRow
  BY DEF Init, MatchedHasRow
<1> QED
  BY <1>1, TypeCorrect, MatchedStep, PTL DEF Spec

(***************************************************************************)
(* A win is a win by the official rule.                                    *)
(***************************************************************************)
LEMMA WholeSecondsSign ==
  ASSUME NEW ms \in Int, WholeSeconds(ms) > 0
  PROVE  ms > 0
<1> SUFFICES ASSUME ms <= 0 PROVE FALSE
  OBVIOUS
<1>1. CASE ms = 0
  BY <1>1 DEF WholeSeconds
<1>2. CASE ms < 0
  <2>1. -ms \in Nat /\ WholeSeconds(ms) = -((-ms) \div 1000)
    BY <1>2 DEF WholeSeconds
  <2> QED
    BY <2>1
<1> QED
  BY <1>1, <1>2

LEMMA OutcomeIsEarned ==
  ASSUME NEW i \in Incidents, NEW t \in Tickets
  PROVE  /\ Outcome(i, t) = "agent_won" => AlertAt[i] < Created[t]
         /\ Outcome(i, t) = "agent_lost" => Created[t] + 1000 * TieGrace < AlertAt[i]
<1> DEFINE ms == Created[t] - AlertAt[i]
<1>1. AlertAt[i] \in Int /\ Created[t] \in Int /\ TieGrace \in Nat
  BY RaceAssumption
<1>2. ASSUME Outcome(i, t) = "agent_won"
      PROVE  AlertAt[i] < Created[t]
  <2>1. WholeSeconds(ms) > 0
    BY <1>2 DEF Outcome, ClassifyOutcome
  <2>2. ms > 0
    BY <1>1, <2>1, WholeSecondsSign
  <2> QED
    BY <1>1, <2>2
<1>3. ASSUME Outcome(i, t) = "agent_lost"
      PROVE  Created[t] + 1000 * TieGrace < AlertAt[i]
  <2>1. WholeSeconds(ms) < -TieGrace
    BY <1>3 DEF Outcome, ClassifyOutcome
  <2>2. ms \in Int
    BY <1>1
  <2> HIDE DEF ms
  <2>3. ms < 0 /\ (-ms) \div 1000 > TieGrace
    BY <1>1, <2>1, <2>2 DEF WholeSeconds
  <2>4. -ms > 1000 * TieGrace
    BY <1>1, <2>2, <2>3
  <2> QED
    BY <1>1, <2>4 DEF ms
<1> QED
  BY <1>2, <1>3

Official(m) ==
  /\ m.incident \in Delivered
  /\ m.outcome = "agent_won" => AlertAt[m.incident] < Created[m.ticket]
  /\ m.outcome = "agent_lost" => Created[m.ticket] + 1000 * TieGrace < AlertAt[m.incident]

\* Candidates are delivered, and rows on their way hold what they claim.
OfficialInv ==
  /\ \A m \in matches : Official(m)
  /\ \A r \in Runs : /\ sess[r].cands \subseteq Delivered
                     /\ \A m \in sess[r].pend : Official(m)

LEMMA OfficialStep == TypeOK /\ OfficialInv /\ [Next]_vars => OfficialInv'
<1> SUFFICES ASSUME TypeOK, OfficialInv, [Next]_vars PROVE OfficialInv'
  OBVIOUS
<1>0. \A m : Official(m) => Official(m)'
  BY DeliveredStays DEF Official
<1>1. ASSUME NEW r \in Runs, Others(r), \A m \in matches' : Official(m),
             sess'[r].cands \subseteq Delivered, \A m \in sess'[r].pend : Official(m)
      PROVE  OfficialInv'
  BY <1>0, <1>1, DeliveredStays DEF OfficialInv, Others
<1>2. ASSUME NEW r \in Runs, Abort(r) PROVE OfficialInv'
  BY <1>1, <1>2, AbortShape DEF database, OfficialInv
<1>3. ASSUME NEW r \in Runs, RunStep(r) PROVE OfficialInv'
  <2> USE DEF Goto, Session, database
  <2>0. sess[r] \in Sessions /\ Others(r)
    BY <1>3, RunStepShape DEF TypeOK
  <2>1. CASE CommitRun(r)
    <3>1. matches' = matches \cup sess[r].pend /\ sess'[r].pend = {} /\ sess'[r].cands = {}
      BY <2>1 DEF CommitRun, Committed, NoSession, TypeOK
    <3> QED
      BY <1>1, <2>0, <3>1 DEF OfficialInv
  <2>2. CASE LoadCandidates(r)
    <3>1. /\ sess'[r].cands = Candidates /\ sess'[r].pend = sess[r].pend /\ matches' = matches
      BY <2>0, <2>2 DEF LoadCandidates, TypeOK, Sessions
    <3> QED
      BY <1>1, <2>0, <3>1 DEF OfficialInv, Candidates
  <2>3. CASE CheckTicket(r)
    <3>1. PICK t \in sess[r].batch :
            /\ t \in Tickets
            /\ Ended(r, t) \/ Skipped(r, t) \/ \E i \in Best(r, t) : Matched(r, t, i)
      BY <2>3, CheckSplits
    <3>2. CASE Ended(r, t)
      BY <1>2, <3>2 DEF Ended
    <3>3. CASE Skipped(r, t)
      <4>1. /\ sess'[r].cands = sess[r].cands /\ sess'[r].pend = sess[r].pend
            /\ matches' = matches
        BY <2>0, <3>3 DEF Skipped, Sessions, TypeOK
      <4> QED
        BY <1>1, <2>0, <4>1 DEF OfficialInv
    <3>4. ASSUME NEW i \in Best(r, t), Matched(r, t, i) PROVE OfficialInv'
      <4>1. /\ sess'[r].cands = sess[r].cands /\ matches' = matches
            /\ sess'[r].pend = sess[r].pend \cup {NewMatch(r, t, i)}
        BY <2>0, <3>4 DEF Matched, Sessions, TypeOK
      <4>2. i \in Delivered /\ i \in Incidents
        BY <2>0, BestIsCandidate DEF OfficialInv, Sessions
      <4>3. Official(NewMatch(r, t, i))
        BY <3>1, <4>2, OutcomeIsEarned DEF Official, NewMatch
      <4> QED
        BY <1>1, <2>0, <4>1, <4>3 DEF OfficialInv
    <3> QED
      BY <3>1, <3>2, <3>3, <3>4
  <2>4. CASE /\ UNCHANGED matches
             /\ sess'[r].cands \in {sess[r].cands, {}} /\ sess'[r].pend \in {sess[r].pend, {}}
    BY <1>1, <2>0, <2>4 DEF OfficialInv
  <2>5. CASE ReceiveWebhook(r) \/ FetchTickets(r) \/ SelectTickets(r)
    <3>1. CASE ReceiveWebhook(r)
      BY <2>0, <2>4, <3>1 DEF ReceiveWebhook, NoSession, TypeOK
    <3>2. CASE FetchTickets(r)
      <4>1. /\ matches' = matches
            /\ \/ sess' = sess
               \/ sess'[r].cands = {} /\ sess'[r].pend = {}
        <5>1. matches' = matches /\ (sess' = sess
                \/ \E b : sess' = [sess EXCEPT ![r] = [NoSession EXCEPT !.batch = b]])
          BY <3>2 DEF FetchTickets
        <5>2. \A b : /\ [NoSession EXCEPT !.batch = b].cands = {}
                     /\ [NoSession EXCEPT !.batch = b].pend = {}
          BY DEF NoSession
        <5>3. ASSUME NEW b, sess' = [sess EXCEPT ![r] = [NoSession EXCEPT !.batch = b]]
              PROVE  sess'[r].cands = {} /\ sess'[r].pend = {}
          <6>1. sess'[r] = [NoSession EXCEPT !.batch = b]
            BY <5>3 DEF TypeOK
          <6> QED
            BY <5>2, <6>1
        <5>4. CASE sess' = sess
          BY <5>1, <5>4
        <5>5. CASE \E b : sess' = [sess EXCEPT ![r] = [NoSession EXCEPT !.batch = b]]
          BY <5>1, <5>3, <5>5
        <5> QED
          BY <5>1, <5>4, <5>5
      <4> QED
        BY <2>4, <4>1
    <3>3. CASE SelectTickets(r)
      BY <2>0, <2>4, <3>3 DEF SelectTickets, Sessions, TypeOK
    <3> QED
      BY <2>5, <3>1, <3>2, <3>3
  <2>6. CASE InsertTickets(r) \/ FlushMatch(r) \/ EndHook(r) \/ RetrySync(r) \/ NextCycle(r)
    <3>1. Abort(r) \/ UNCHANGED <<matches, sess>>
      BY <2>6 DEF InsertTickets, FlushMatch, EndHook, RetrySync, NextCycle
    <3> QED
      BY <1>2, <2>4, <3>1
  <2> QED
    BY <1>2, <1>3, <2>1, <2>2, <2>3, <2>5, <2>6 DEF RunStep, DeadlockVictim
<1>4. CASE Environment
  <2>1. CASE UNCHANGED <<matches, sess>>
    BY <1>0, <2>1, DeliveredStays DEF OfficialInv
  <2> QED
    BY <1>2, <1>4, <2>1, EnvironmentShape
<1>5. CASE UNCHANGED race
  BY <1>0, <1>5, DeliveredStays DEF race, database, OfficialInv
<1> QED
  BY <1>3, <1>4, <1>5, StepCases

\* Whatever is truncated, raced or retried, a recorded win has a delivered alert
\* that precedes its ticket, and a recorded loss a ticket that precedes the alert
\* by more than the grace (OutcomeByTheRule).
THEOREM OutcomesAreOfficial == Spec => []OutcomeByTheRule
<1>1. Init => OfficialInv
  BY DEF Init, OfficialInv, NoSession
<1>2. OfficialInv => OutcomeByTheRule
  BY DEF OfficialInv, Official, OutcomeByTheRule
<1> QED
  BY <1>1, <1>2, TypeCorrect, OfficialStep, PTL DEF Spec

(***************************************************************************)
(* An answered webhook has stored its ticket.                              *)
(***************************************************************************)

\* The tickets a run works on are in the table or in its session, and the
\* tickets of match rows too.
StoredInv ==
  /\ \A m \in matches : m.ticket \in saved
  /\ \A r \in Runs :
       /\ pc[r] \in Working => \A m \in sess[r].pend : m.ticket \in saved \cup sess[r].new
       /\ pc[r] \in Working \ {"select"} => sess[r].batch \subseteq saved \cup sess[r].new
       /\ pc[r] = "select" => sess[r].pend = {}

\* A webhook's own session: one ticket, and no row lock until it has ended.
OwnTicket(h) == pc[h] \in Working /\ ~sess[h].sync

HookInv ==
  /\ \A r \in Syncs : sess[r].sync
  /\ \A h \in Hooks :
       /\ pc[h] \notin {"idle", "gaveup"}
       /\ pc[h] \in {"backfill", "done", "failed", "raise"} => HookTicket[h] \in saved
       /\ pc[h] \in Working /\ sess[h].sync => HookTicket[h] \in saved
       /\ OwnTicket(h) /\ pc[h] = "select" => sess[h].batch = {HookTicket[h]}
       /\ OwnTicket(h) /\ pc[h] # "select" =>
            /\ HookTicket[h] \in saved \cup sess[h].new
            /\ sess[h].new \subseteq {HookTicket[h]}
            /\ sess[h].batch \subseteq {HookTicket[h]}
            /\ sess[h].pend # {} => sess[h].batch = {}
            /\ pc[h] = "flush" => sess[h].batch = {}

\* Who holds a row lock has flushed; a webhook's own session is then over.
LockInv ==
  \A i \in Incidents, r \in Runs :
    rowLock[i] = r => /\ pc[r] \in {"check", "flush"}
                      /\ ~sess[r].sync => pc[r] = "check" /\ sess[r].batch = {}

\* Nobody waits in a cycle through a webhook's own session: its row waits for
\* runs, and only runs that hold nothing wait for it.
LEMMA HooksDoNotDeadlock ==
  ASSUME TypeOK, HookInv, LockInv, NEW h \in Hooks, OwnTicket(h)
  PROVE  ~Deadlocked(h)
<1> SUFFICES ASSUME Deadlocked(h) PROVE FALSE
  OBVIOUS
<1>0. PICK S \in SUBSET Runs :
        h \in S /\ \E next \in [S -> S] :
                     \A o \in S : next[o] \in Blockers(o) /\ \E p \in S : next[p] = o
  BY DEF Deadlocked
<1>1. PICK next \in [S -> S] :
        /\ h \in S
        /\ \A o \in S : next[o] \in Blockers(o) /\ \E p \in S : next[p] = o
  BY <1>0
<1>2. \A o \in S : Blockers(o) # {} => pc[o] \in {"insert", "flush"}
  BY DEF Blockers
<1>3. \A o \in S : pc[o] \in {"insert", "flush"}
  BY <1>1, <1>2
<1>4. PICK p \in S : next[p] = h
  BY <1>1
<1>5. \A i \in Incidents : rowLock[i] # h
  BY <1>1, <1>3 DEF LockInv, OwnTicket
<1>6. \A o \in S, q \in S : pc[o] = "flush" /\ q \in Blockers(o) =>
        \E i \in Incidents : rowLock[i] = q
  BY DEF Blockers, ToLock, TypeOK, Sessions, Matches
<1>7. pc[p] = "insert"
  BY <1>1, <1>3, <1>4, <1>5, <1>6
<1>8. PICK q \in S : next[q] = p
  BY <1>1
<1>9. \A i \in Incidents : rowLock[i] # p
  BY <1>7 DEF LockInv
<1>10. pc[q] = "insert"
  BY <1>1, <1>3, <1>6, <1>8, <1>9
<1>11. p \in Blockers(q) /\ Inserting(p) = {}
  BY <1>1, <1>7, <1>8 DEF Inserting
<1> QED
  BY <1>10, <1>11 DEF Blockers

\* What each kind of step does to the session it runs in.
LEMMA FetchShape ==
  ASSUME TypeOK, NEW r \in Runs, FetchTickets(r)
  PROVE  /\ Others(r) /\ UNCHANGED <<database, rowLock>> /\ pc[r] \in {"idle", "backfill"}
         /\ \/ pc'[r] = Rest(r) /\ sess' = sess
            \/ pc'[r] = "select" /\ sess'[r].sync /\ sess'[r].pend = {}
<1>1. \/ \E b : Session(r, [NoSession EXCEPT !.batch = b]) /\ Goto(r, "select")
      \/ Goto(r, Rest(r)) /\ UNCHANGED sess
  BY DEF FetchTickets
<1>2. UNCHANGED <<database, rowLock>> /\ pc[r] \in {"idle", "backfill"} /\ Others(r)
  BY RunStepShape DEF FetchTickets, RunStep
<1>3. ASSUME NEW b, Session(r, [NoSession EXCEPT !.batch = b]), Goto(r, "select")
      PROVE  pc'[r] = "select" /\ sess'[r].sync /\ sess'[r].pend = {}
  <2>1. sess'[r] = [NoSession EXCEPT !.batch = b]
    BY <1>3 DEF Session, TypeOK
  <2> QED
    BY <1>3, <2>1 DEF NoSession, Goto, TypeOK
<1>4. ASSUME Goto(r, Rest(r)) PROVE pc'[r] = Rest(r)
  BY <1>4 DEF Goto, TypeOK
<1> QED
  BY <1>1, <1>2, <1>3, <1>4

LEMMA ReceiveShape ==
  ASSUME TypeOK, NEW r \in Runs, ReceiveWebhook(r)
  PROVE  /\ Others(r) /\ UNCHANGED <<database, rowLock>> /\ r \in Hooks
         /\ pc'[r] = "select" /\ ~sess'[r].sync /\ sess'[r].pend = {}
         /\ sess'[r].batch = {HookTicket[r]}
<1>1. sess'[r] = [NoSession EXCEPT !.batch = {HookTicket[r]}, !.sync = FALSE]
  BY DEF ReceiveWebhook, Session, TypeOK
<1> QED
  BY <1>1, RunStepShape DEF ReceiveWebhook, RunStep, NoSession, Goto, TypeOK

LEMMA SelectShape ==
  ASSUME TypeOK, NEW r \in Runs, SelectTickets(r)
  PROVE  /\ Others(r) /\ UNCHANGED <<database, rowLock>>
         /\ pc[r] = "select" /\ pc'[r] = "insert"
         /\ sess'[r].new = sess[r].batch \ saved
         /\ sess'[r].batch = sess[r].batch /\ sess'[r].pend = sess[r].pend
         /\ (sess'[r].sync <=> sess[r].sync)
BY RunStepShape DEF SelectTickets, RunStep, Goto, Session, Sessions, TypeOK

LEMMA InsertShape ==
  ASSUME TypeOK, NEW r \in Runs, InsertTickets(r)
  PROVE  /\ pc[r] = "insert"
         /\ \/ Abort(r) /\ sess[r].new \cap saved # {}
            \/ /\ Others(r) /\ UNCHANGED <<database, rowLock, sess>> /\ pc'[r] = "load"
BY RunStepShape DEF InsertTickets, RunStep, Goto, TypeOK

LEMMA LoadShape ==
  ASSUME TypeOK, NEW r \in Runs, LoadCandidates(r)
  PROVE  /\ Others(r) /\ UNCHANGED <<database, rowLock>>
         /\ pc[r] = "load" /\ pc'[r] = "check"
         /\ sess'[r].new = sess[r].new /\ sess'[r].batch = sess[r].batch
         /\ sess'[r].pend = sess[r].pend /\ (sess'[r].sync <=> sess[r].sync)
BY RunStepShape DEF LoadCandidates, RunStep, Goto, Session, Sessions, TypeOK

LEMMA SkippedShape ==
  ASSUME TypeOK, NEW r \in Runs, NEW t, Skipped(r, t)
  PROVE  /\ Others(r) /\ UNCHANGED <<database, rowLock, pc>>
         /\ sess'[r].new = sess[r].new /\ sess'[r].batch = sess[r].batch \ {t}
         /\ sess'[r].pend = sess[r].pend /\ (sess'[r].sync <=> sess[r].sync)
BY DEF Skipped, Others, Session, Sessions, TypeOK

LEMMA MatchedShape ==
  ASSUME TypeOK, NEW r \in Runs, NEW t, NEW i, Matched(r, t, i)
  PROVE  /\ Others(r) /\ UNCHANGED <<database, rowLock>> /\ pc'[r] = "flush"
         /\ sess'[r].new = sess[r].new /\ sess'[r].batch = sess[r].batch \ {t}
         /\ sess'[r].pend = sess[r].pend \cup {NewMatch(r, t, i)}
         /\ (sess'[r].sync <=> sess[r].sync)
BY DEF Matched, Others, Goto, Session, Sessions, TypeOK

LEMMA FlushShape ==
  ASSUME TypeOK, NEW r \in Runs, FlushMatch(r)
  PROVE  /\ Others(r) /\ UNCHANGED <<database, sess>>
         /\ pc[r] = "flush" /\ pc'[r] = "check"
         /\ \A i \in Incidents : rowLock'[i] \in {rowLock[i], r}
BY RunStepShape DEF FlushMatch, RunStep, Goto, TypeOK

LEMMA CommitShape ==
  ASSUME TypeOK, NEW r \in Runs, CommitRun(r)
  PROVE  /\ Others(r) /\ pc[r] = "check" /\ sess[r].batch = {}
         /\ saved' = saved \cup sess[r].new /\ matches' = matches \cup sess[r].pend
         /\ rowLock' = LocksFreed(r)
         /\ pc'[r] = (IF sess[r].sync THEN Rest(r) ELSE "backfill")
         /\ sess'[r] = NoSession /\ NoSession.sync
BY RunStepShape
DEF CommitRun, Committed, RunStep, Goto, Session, NoSession, TypeOK

LEMMA EndShape ==
  ASSUME TypeOK, NEW r \in Runs, EndHook(r) \/ RetrySync(r) \/ NextCycle(r)
  PROVE  /\ Others(r) /\ UNCHANGED <<database, rowLock, sess>>
         /\ pc[r] \in {"raise", "gaveup"} /\ pc'[r] \in {"idle", "gaveup", "done", "failed"}
         /\ r \in Hooks => pc[r] = "raise" /\ pc'[r] \in {"done", "failed"}
BY RunStepShape, RaceAssumption
DEF EndHook, RetrySync, NextCycle, RunStep, Goto, TypeOK

LEMMA StoredStep == TypeOK /\ StoredInv /\ [Next]_vars => StoredInv'
<1> SUFFICES ASSUME TypeOK, StoredInv, [Next]_vars PROVE StoredInv'
  OBVIOUS
<1> USE DEF database, Working
\* One run's session changes and the table only grows.
<1>1. ASSUME NEW r \in Runs, Others(r), saved \subseteq saved',
             \A m \in matches' : m.ticket \in saved',
             pc'[r] \in Working => \A m \in sess'[r].pend : m.ticket \in saved' \cup sess'[r].new,
             pc'[r] \in Working \ {"select"} => sess'[r].batch \subseteq saved' \cup sess'[r].new,
             pc'[r] = "select" => sess'[r].pend = {}
      PROVE  StoredInv'
  BY <1>1 DEF StoredInv, Others
<1>2. ASSUME NEW r \in Runs, Abort(r) PROVE StoredInv'
  BY <1>1, <1>2, AbortShape DEF StoredInv
<1>3. ASSUME NEW r \in Runs, RunStep(r) PROVE StoredInv'
  <2>1. CASE ReceiveWebhook(r)
    BY <1>1, <2>1, ReceiveShape DEF StoredInv
  <2>2. CASE FetchTickets(r)
    BY <1>1, <2>2, FetchShape DEF StoredInv, Rest
  <2>3. CASE SelectTickets(r)
    BY <1>1, <2>3, SelectShape DEF StoredInv
  <2>4. CASE InsertTickets(r)
    BY <1>1, <1>2, <2>4, InsertShape DEF StoredInv
  <2>5. CASE LoadCandidates(r)
    BY <1>1, <2>5, LoadShape DEF StoredInv
  <2>6. CASE CheckTicket(r)
    <3>1. PICK t \in sess[r].batch :
            /\ t \in Tickets
            /\ Ended(r, t) \/ Skipped(r, t) \/ \E i \in Best(r, t) : Matched(r, t, i)
      BY <2>6, CheckSplits
    <3>2. pc[r] = "check"
      BY <2>6 DEF CheckTicket
    <3>3. CASE Ended(r, t)
      BY <1>2, <3>3 DEF Ended
    <3>4. CASE Skipped(r, t)
      BY <1>1, <3>2, <3>4, SkippedShape DEF StoredInv
    <3>5. ASSUME NEW i, Matched(r, t, i) PROVE StoredInv'
      <4>1. NewMatch(r, t, i).ticket = t /\ t \in saved \cup sess[r].new
        BY <3>1, <3>2 DEF NewMatch, StoredInv
      <4> QED
        BY <1>1, <3>2, <3>5, <4>1, MatchedShape DEF StoredInv
    <3> QED
      BY <3>1, <3>3, <3>4, <3>5
  <2>7. CASE FlushMatch(r)
    BY <1>1, <2>7, FlushShape DEF StoredInv
  <2>8. CASE DeadlockVictim(r)
    BY <1>2, <2>8 DEF DeadlockVictim
  <2>9. CASE CommitRun(r)
    <3>1. pc'[r] \notin Working /\ \A m \in matches' : m.ticket \in saved'
      BY <2>9, CommitShape DEF StoredInv, Rest
    <3> QED
      BY <1>1, <2>9, <3>1, CommitShape
  <2>10. CASE EndHook(r) \/ RetrySync(r) \/ NextCycle(r)
    BY <1>1, <2>10, EndShape DEF StoredInv
  <2> QED
    BY <1>3, <2>1, <2>2, <2>3, <2>4, <2>5, <2>6, <2>7, <2>8, <2>9, <2>10 DEF RunStep
<1>4. CASE Environment
  BY <1>2, <1>4, EnvironmentShape DEF StoredInv
<1>5. CASE UNCHANGED race
  BY <1>5 DEF race, StoredInv
<1> QED
  BY <1>3, <1>4, <1>5, StepCases

LEMMA StoredInvariance == Spec => []StoredInv
<1>1. Init => StoredInv
  BY DEF Init, StoredInv, NoSession, Working
<1> QED
  BY <1>1, TypeCorrect, StoredStep, PTL DEF Spec

LEMMA LockStep ==
  ASSUME TypeOK, HookInv, LockInv, [Next]_vars
  PROVE  LockInv'
<1> USE RaceAssumption
\* A step that takes no lock and leaves those it has in order.
<1>1. ASSUME NEW r \in Runs, Others(r),
             \A i \in Incidents : rowLock'[i] = rowLock[i],
             \A i \in Incidents : rowLock[i] = r =>
               /\ pc'[r] \in {"check", "flush"}
               /\ ~sess'[r].sync => pc'[r] = "check" /\ sess'[r].batch = {}
      PROVE  LockInv'
  <2>1. ASSUME NEW i \in Incidents, NEW o \in Runs, rowLock'[i] = o
        PROVE  /\ pc'[o] \in {"check", "flush"}
               /\ ~sess'[o].sync => pc'[o] = "check" /\ sess'[o].batch = {}
    <3>1. rowLock[i] = o
      BY <1>1, <2>1
    <3>2. CASE o = r
      BY <1>1, <3>1, <3>2
    <3>3. CASE o # r
      BY <1>1, <3>1, <3>3 DEF LockInv, Others
    <3> QED
      BY <3>2, <3>3
  <2> QED
    BY <2>1 DEF LockInv
<1>2. ASSUME NEW r \in Runs, Others(r), rowLock' = LocksFreed(r) PROVE LockInv'
  BY <1>2 DEF LockInv, LocksFreed, Others
<1>3. ASSUME NEW r \in Runs, Abort(r) PROVE LockInv'
  BY <1>2, <1>3, AbortShape
<1>4. ASSUME NEW r \in Runs, RunStep(r) PROVE LockInv'
  <2>1. CASE ReceiveWebhook(r)
    BY <1>1, <2>1, ReceiveShape, ZenonT(40) DEF ReceiveWebhook, LockInv
  <2>2. CASE FetchTickets(r)
    <3>1. \A i \in Incidents : rowLock[i] # r
      BY <2>2, FetchShape DEF LockInv
    <3>2. Others(r) /\ rowLock' = rowLock
      BY <2>2, FetchShape
    <3> QED
      BY <1>1, <3>1, <3>2
  <2>3. CASE SelectTickets(r)
    <3>1. \A i \in Incidents : rowLock[i] # r
      BY <2>3, SelectShape DEF LockInv
    <3>2. Others(r) /\ rowLock' = rowLock
      BY <2>3, SelectShape
    <3> QED
      BY <1>1, <3>1, <3>2
  <2>4. CASE InsertTickets(r)
    BY <1>1, <1>3, <2>4, InsertShape, ZenonT(40) DEF LockInv
  <2>5. CASE LoadCandidates(r)
    BY <1>1, <2>5, LoadShape DEF LockInv
  <2>6. CASE CheckTicket(r)
    <3>1. PICK t \in sess[r].batch :
            /\ t \in Tickets
            /\ Ended(r, t) \/ Skipped(r, t) \/ \E i \in Best(r, t) : Matched(r, t, i)
      BY <2>6, CheckSplits
    <3>2. CASE Ended(r, t)
      BY <1>3, <3>2 DEF Ended
    <3>5. \A i \in Incidents : rowLock[i] = r => sess[r].sync /\ pc[r] \in {"check", "flush"}
      BY <3>1 DEF LockInv
    <3>3. CASE Skipped(r, t)
      <4>1. Others(r) /\ rowLock' = rowLock /\ pc' = pc /\ (sess'[r].sync <=> sess[r].sync)
        BY <3>3, SkippedShape
      <4> QED
        BY <1>1, <3>5, <4>1
    <3>4. ASSUME NEW i, Matched(r, t, i) PROVE LockInv'
      <4>1. /\ Others(r) /\ rowLock' = rowLock /\ pc'[r] = "flush"
            /\ (sess'[r].sync <=> sess[r].sync)
        BY <3>4, MatchedShape
      <4> QED
        BY <1>1, <3>5, <4>1
    <3> QED
      BY <3>1, <3>2, <3>3, <3>4
  <2>7. CASE FlushMatch(r)
    <3>1. ~sess[r].sync => sess[r].batch = {}
      BY <2>7, FlushShape DEF HookInv, OwnTicket, Working, Runs
    <3>2. /\ Others(r) /\ sess' = sess /\ pc'[r] = "check"
          /\ \A i \in Incidents : rowLock'[i] \in {rowLock[i], r}
      BY <2>7, FlushShape
    <3>3. ASSUME NEW i \in Incidents, NEW o \in Runs, rowLock'[i] = o
          PROVE  /\ pc'[o] \in {"check", "flush"}
                 /\ ~sess'[o].sync => pc'[o] = "check" /\ sess'[o].batch = {}
      <4>1. CASE o = r
        BY <3>1, <3>2, <4>1
      <4>2. CASE o # r
        BY <3>2, <3>3, <4>2 DEF LockInv, Others
      <4> QED
        BY <4>1, <4>2
    <3> QED
      BY <3>3 DEF LockInv
  <2>8. CASE DeadlockVictim(r)
    BY <1>3, <2>8 DEF DeadlockVictim
  <2>9. CASE CommitRun(r)
    BY <1>2, <2>9, CommitShape
  <2>10. CASE EndHook(r) \/ RetrySync(r) \/ NextCycle(r)
    BY <1>1, <2>10, EndShape, ZenonT(40) DEF LockInv
  <2> QED
    BY <1>4, <2>1, <2>2, <2>3, <2>4, <2>5, <2>6, <2>7, <2>8, <2>9, <2>10 DEF RunStep
<1>5. CASE Environment
  BY <1>3, <1>5, EnvironmentShape DEF LockInv
<1>6. CASE UNCHANGED race
  BY <1>6 DEF race, LockInv
<1> QED
  BY <1>4, <1>5, <1>6, StepCases

\* The invariant of one run, so that a step is about the run that takes it.
RunHookInv(r) ==
  /\ r \in Syncs => sess[r].sync
  /\ r \in Hooks =>
       /\ pc[r] \notin {"idle", "gaveup"}
       /\ pc[r] \in {"backfill", "done", "failed", "raise"} => HookTicket[r] \in saved
       /\ pc[r] \in Working /\ sess[r].sync => HookTicket[r] \in saved
       /\ OwnTicket(r) /\ pc[r] = "select" => sess[r].batch = {HookTicket[r]}
       /\ OwnTicket(r) /\ pc[r] # "select" =>
            /\ HookTicket[r] \in saved \cup sess[r].new
            /\ sess[r].new \subseteq {HookTicket[r]}
            /\ sess[r].batch \subseteq {HookTicket[r]}
            /\ sess[r].pend # {} => sess[r].batch = {}
            /\ pc[r] = "flush" => sess[r].batch = {}

LEMMA HookByRun == HookInv <=> \A r \in Runs : RunHookInv(r)
BY RaceAssumption DEF HookInv, RunHookInv, Runs

\* A webhook's own session is aborted only when its ticket is in the table.
LEMMA AbortHook ==
  ASSUME TypeOK, NEW r \in Runs, RunHookInv(r), Abort(r), pc[r] \in Working,
         r \in Hooks /\ OwnTicket(r) => HookTicket[r] \in saved
  PROVE  RunHookInv(r)'
<1>1. pc'[r] = "raise" /\ (sess'[r].sync <=> sess[r].sync) /\ saved' = saved
  BY AbortShape DEF database
<1>2. r \in Hooks => HookTicket[r] \in saved
  BY DEF RunHookInv, OwnTicket
<1> QED
  BY <1>1, <1>2 DEF RunHookInv, OwnTicket, Working

LEMMA HookStep ==
  ASSUME "db" \notin Faults, TypeOK, StoredInv, HookInv, LockInv, [Next]_vars
  PROVE  HookInv'
<1> USE DEF database, Working
<1>0. \A r \in Runs : RunHookInv(r)
  BY HookByRun
<1>1. ASSUME NEW r \in Runs, Others(r), saved \subseteq saved', RunHookInv(r)'
      PROVE  HookInv'
  <2>1. ASSUME NEW o \in Runs \ {r} PROVE RunHookInv(o)'
    BY <1>0, <1>1, <2>1 DEF RunHookInv, OwnTicket, Others
  <2>2. \A o \in Runs : RunHookInv(o)'
    BY <1>1, <2>1
  <2> QED
    BY <2>2, RaceAssumption DEF HookInv, RunHookInv, OwnTicket, Runs
<1>2. ASSUME NEW r \in Runs, RunStep(r) PROVE HookInv'
  <2>0. RunHookInv(r) /\ r \in Syncs \cup Hooks
    BY <1>0 DEF Runs
  <2>1. CASE ReceiveWebhook(r)
    <3>1. RunHookInv(r)'
      BY <2>1, RaceAssumption, ReceiveShape DEF RunHookInv, OwnTicket
    <3> QED
      BY <1>1, <2>1, <3>1, ReceiveShape
  <2>2. CASE FetchTickets(r)
    <3>1. r \in Hooks => HookTicket[r] \in saved
      BY <2>0, <2>2, FetchShape DEF RunHookInv
    <3>2. r \in Hooks => Rest(r) = "done"
      BY RaceAssumption DEF Rest
    <3>3. RunHookInv(r)'
      BY <2>0, <2>2, <3>1, <3>2, FetchShape DEF RunHookInv, OwnTicket
    <3> QED
      BY <1>1, <2>2, <3>3, FetchShape
  <2>3. CASE SelectTickets(r)
    <3>1. RunHookInv(r)'
      BY <2>0, <2>3, SelectShape DEF RunHookInv, OwnTicket, StoredInv
    <3> QED
      BY <1>1, <2>3, <3>1, SelectShape
  <2>4. CASE InsertTickets(r)
    <3>1. CASE Abort(r) /\ sess[r].new \cap saved # {}
      <4>1. RunHookInv(r)'
        BY <2>0, <2>4, <3>1, AbortHook, InsertShape DEF RunHookInv, OwnTicket
      <4> QED
        BY <1>1, <3>1, <4>1, AbortShape
    <3>2. CASE Others(r) /\ UNCHANGED <<database, rowLock, sess>> /\ pc'[r] = "load"
      <4>1. RunHookInv(r)'
        BY <2>0, <2>4, <3>2, InsertShape DEF RunHookInv, OwnTicket
      <4> QED
        BY <1>1, <3>2, <4>1
    <3> QED
      BY <2>4, <3>1, <3>2, InsertShape
  <2>5. CASE LoadCandidates(r)
    <3>1. RunHookInv(r)'
      BY <2>0, <2>5, LoadShape DEF RunHookInv, OwnTicket
    <3> QED
      BY <1>1, <2>5, <3>1, LoadShape
  <2>6. CASE CheckTicket(r)
    <3>1. PICK t \in sess[r].batch :
            /\ t \in Tickets
            /\ Ended(r, t) \/ Skipped(r, t) \/ \E i \in Best(r, t) : Matched(r, t, i)
      BY <2>6, CheckSplits
    <3>2. pc[r] = "check"
      BY <2>6 DEF CheckTicket
    <3>3. CASE Ended(r, t)
      <4>1. Existing(r, t) # {}
        BY <3>3, FS_EmptySet DEF Ended
      <4>2. ASSUME r \in Hooks, OwnTicket(r) PROVE HookTicket[r] \in saved
        <5>1. t = HookTicket[r] /\ sess[r].pend = {}
          BY <2>0, <3>1, <3>2, <4>2 DEF RunHookInv
        <5>2. \E m \in matches : m.ticket = t
          BY <4>1, <5>1 DEF Existing
        <5> QED
          BY <5>1, <5>2 DEF StoredInv
      <4>3. RunHookInv(r)'
        BY <2>0, <3>2, <3>3, <4>2, AbortHook DEF Ended
      <4> QED
        BY <1>1, <3>3, <4>3, AbortShape DEF Ended
    <3>4. CASE Skipped(r, t)
      <4>1. RunHookInv(r)'
        BY <2>0, <3>2, <3>4, SkippedShape DEF RunHookInv, OwnTicket
      <4> QED
        BY <1>1, <3>4, <4>1, SkippedShape
    <3>5. ASSUME NEW i, Matched(r, t, i) PROVE HookInv'
      <4>1. RunHookInv(r)'
        BY <2>0, <3>1, <3>2, <3>5, MatchedShape DEF RunHookInv, OwnTicket
      <4> QED
        BY <1>1, <3>5, <4>1, MatchedShape
    <3> QED
      BY <3>1, <3>3, <3>4, <3>5
  <2>7. CASE FlushMatch(r)
    <3>1. RunHookInv(r)'
      BY <2>0, <2>7, FlushShape DEF RunHookInv, OwnTicket
    <3> QED
      BY <1>1, <2>7, <3>1, FlushShape
  <2>8. CASE DeadlockVictim(r)
    <3>1. Abort(r) /\ Deadlocked(r)
      BY <2>8 DEF DeadlockVictim
    <3>2. pc[r] \in Working
      BY <3>1 DEF Deadlocked, Blockers
    <3>3. r \in Hooks => ~OwnTicket(r)
      BY <3>1, HooksDoNotDeadlock
    <3>4. RunHookInv(r)'
      BY <2>0, <3>1, <3>2, <3>3, AbortHook
    <3> QED
      BY <1>1, <3>1, <3>4, AbortShape
  <2>9. CASE CommitRun(r)
    <3>1. r \in Hooks => HookTicket[r] \in saved'
      BY <2>0, <2>9, CommitShape DEF RunHookInv, OwnTicket
    <3>2. /\ pc'[r] \in {"idle", "done", "backfill"} /\ sess'[r].sync
          /\ r \in Hooks => pc'[r] # "idle"
      BY <2>9, CommitShape, RaceAssumption DEF Rest
    <3>3. RunHookInv(r)'
      BY <3>1, <3>2 DEF RunHookInv, OwnTicket
    <3> QED
      BY <1>1, <2>9, <3>3, CommitShape
  <2>10. CASE EndHook(r) \/ RetrySync(r) \/ NextCycle(r)
    <3>1. RunHookInv(r)'
      BY <2>0, <2>10, EndShape DEF RunHookInv, OwnTicket
    <3> QED
      BY <1>1, <2>10, <3>1, EndShape
  <2> QED
    BY <1>2, <2>1, <2>2, <2>3, <2>4, <2>5, <2>6, <2>7, <2>8, <2>9, <2>10 DEF RunStep
<1>3. CASE Environment
  BY <1>3, EnvironmentShape DEF DatabaseError, HookInv, OwnTicket
<1>4. CASE UNCHANGED race
  BY <1>4 DEF race, HookInv, OwnTicket
<1> QED
  BY <1>2, <1>3, <1>4, StepCases

\* While the database answers, a webhook request never ends without its ticket
\* in the table, even when it answers with an error: the other insert of the
\* same ticket has committed, and no deadlock goes through the request's own
\* session (WebhookPersists).
THEOREM WebhookStores ==
  ASSUME "db" \notin Faults
  PROVE  Spec => []WebhookPersists
<1>1. Init => HookInv /\ LockInv
  BY RaceAssumption DEF Init, HookInv, LockInv, OwnTicket, NoSession, Working, Runs
<1>2. TypeOK /\ StoredInv /\ HookInv /\ LockInv /\ [Next]_vars => HookInv' /\ LockInv'
  BY HookStep, LockStep
<1>3. HookInv => WebhookPersists
  BY DEF HookInv, WebhookPersists
<1> QED
  BY <1>1, <1>2, <1>3, TypeCorrect, StoredInvariance, PTL DEF Spec

(***************************************************************************)
(* One sync at a time matches a ticket once.                               *)
(***************************************************************************)
SingleInv ==
  /\ OneMatchPerTicket
  /\ \A r \in Runs : \A m, n \in matches \cup sess[r].pend : m.ticket = n.ticket => m = n

LEMMA SingleStep ==
  ASSUME \A a, b \in Runs : a = b, TypeOK, SingleInv, [Next]_vars
  PROVE  SingleInv'
<1> USE DEF database
<1>1. ASSUME NEW r \in Runs, OneMatchPerTicket',
             \A m, n \in matches' \cup sess'[r].pend : m.ticket = n.ticket => m = n
      PROVE  SingleInv'
  BY <1>1 DEF SingleInv
<1>2. ASSUME NEW r \in Runs, matches' = matches, sess'[r].pend \in {sess[r].pend, {}}
      PROVE  SingleInv'
  BY <1>1, <1>2 DEF SingleInv, OneMatchPerTicket
<1>3. ASSUME NEW r \in Runs, Abort(r) PROVE SingleInv'
  BY <1>2, <1>3, AbortShape
<1>4. ASSUME NEW r \in Runs, RunStep(r) PROVE SingleInv'
  <2>1. CASE CommitRun(r)
    BY <1>1, <2>1, CommitShape DEF SingleInv, OneMatchPerTicket, NoSession
  <2>2. CASE CheckTicket(r)
    <3>1. PICK t \in sess[r].batch :
            /\ t \in Tickets
            /\ Ended(r, t) \/ Skipped(r, t) \/ \E i \in Best(r, t) : Matched(r, t, i)
      BY <2>2, CheckSplits
    <3>2. CASE Ended(r, t)
      BY <1>3, <3>2 DEF Ended
    <3>3. CASE Skipped(r, t)
      BY <1>2, <3>3, SkippedShape
    <3>4. ASSUME NEW i, Matched(r, t, i) PROVE SingleInv'
      <4>1. /\ matches' = matches /\ NewMatch(r, t, i).ticket = t
            /\ sess'[r].pend = sess[r].pend \cup {NewMatch(r, t, i)}
        BY <3>4, MatchedShape DEF NewMatch
      <4>2. \A m \in matches \cup sess[r].pend : m.ticket # t
        BY <3>4 DEF Matched, Existing
      <4> QED
        BY <1>1, <4>1, <4>2 DEF SingleInv, OneMatchPerTicket
    <3> QED
      BY <3>1, <3>2, <3>3, <3>4
  <2>3. CASE ReceiveWebhook(r) \/ FetchTickets(r) \/ SelectTickets(r)
    BY <1>2, <2>3, ReceiveShape, FetchShape, SelectShape
  <2>4. CASE InsertTickets(r)
    BY <1>2, <1>3, <2>4, InsertShape
  <2>5. CASE LoadCandidates(r) \/ FlushMatch(r)
    BY <1>2, <2>5, LoadShape, FlushShape
  <2>6. CASE DeadlockVictim(r)
    BY <1>3, <2>6 DEF DeadlockVictim
  <2>7. CASE EndHook(r) \/ RetrySync(r) \/ NextCycle(r)
    BY <1>2, <2>7, EndShape
  <2> QED
    BY <1>4, <2>1, <2>2, <2>3, <2>4, <2>5, <2>6, <2>7 DEF RunStep
<1>5. CASE Environment
  <2>1. CASE UNCHANGED <<matches, sess>>
    BY <2>1 DEF SingleInv, OneMatchPerTicket
  <2> QED
    BY <1>3, <1>5, <2>1, EnvironmentShape
<1>6. CASE UNCHANGED race
  BY <1>6 DEF race, SingleInv, OneMatchPerTicket
<1> QED
  BY <1>4, <1>5, <1>6, StepCases

\* A single sync process never matches a ticket twice, through any number of
\* failures and retries (OneMatchPerTicket); two of them can, which is why the
\* matcher stops at MultipleResultsFound.
THEOREM MatchedOnce ==
  ASSUME \A a, b \in Runs : a = b
  PROVE  Spec => []OneMatchPerTicket
<1>1. Init => SingleInv
  BY DEF Init, SingleInv, OneMatchPerTicket, NoSession
<1>2. TypeOK /\ SingleInv /\ [Next]_vars => SingleInv'
  BY SingleStep
<1>3. SingleInv => OneMatchPerTicket
  BY DEF SingleInv
<1> QED
  BY <1>1, <1>2, <1>3, TypeCorrect, PTL DEF Spec

(***************************************************************************)
(* The scoreboard.                                                         *)
(***************************************************************************)
LEMMA MatchesStay ==
  ASSUME TypeOK, [Next]_vars
  PROVE  matches \subseteq matches'
<1>1. ASSUME NEW r \in Runs, RunStep(r) PROVE matches \subseteq matches'
  BY <1>1, RunStepShape, CommitShape DEF database
<1>2. CASE Environment
  BY <1>2, EnvironmentShape
<1> QED
  BY <1>1, <1>2, StepCases DEF race

LEMMA PageSteps ==
  ASSUME [Next]_vars
  PROVE  (Summary /\ UNCHANGED race) \/ UNCHANGED page
<1>1. ASSUME NEW r \in Runs, RunStep(r) PROVE UNCHANGED page
  BY <1>1 DEF RunStep, ReceiveWebhook, FetchTickets, SelectTickets, InsertTickets,
     LoadCandidates, CheckTicket, FlushMatch, DeadlockVictim, CommitRun, EndHook, RetrySync,
     NextCycle, Abort
<1>2. CASE Environment
  BY <1>2 DEF Environment, Tick, CommitDelivery, CommitEnrichment, OperatorResolves,
     DatabaseError, Abort
<1>3. CASE Summary
  BY <1>3 DEF Summary, CountAlerted, LoadMatches, CountTickets
<1> QED
  BY <1>1, <1>2, <1>3 DEF Next, vars

\* What the page has counted is still there when it counts the rest.
PageInv ==
  /\ page.read = "alerted" => page.alerted <= Cardinality(Delivered)
  /\ page.read = "matches" => page.matched <= MatchedTickets

LEMMA PageStep ==
  ASSUME TypeOK, PageInv, [Next]_vars
  PROVE  PageInv'
<1>0. TypeOK /\ TypeOK' /\ page \in Pages
  BY TypeStep DEF TypeOK
<1>1. CASE [Next]_vars /\ UNCHANGED page
  <2>1. /\ IsFiniteSet(Delivered') /\ Cardinality(Delivered') \in Nat
        /\ matches' \in SUBSET Matches
    BY <1>0, Countable, FS_Subset, FS_CardinalityType, RaceAssumption DEF TypeOK, Delivered
  <2>2. Cardinality(Delivered) <= Cardinality(Delivered')
    BY <1>0, <1>1, <2>1, DeliveredStays, FS_Subset
  <2>3. IsFiniteSet({m.ticket : m \in matches'})
    BY <2>1, RowsName
  <2>4. {m.ticket : m \in matches} \subseteq {m.ticket : m \in matches'}
    BY <1>0, <1>1, MatchesStay
  <2>5. MatchedTickets <= MatchedTickets'
    BY <2>3, <2>4, FS_Subset DEF MatchedTickets
  <2>6. Cardinality(Delivered) \in Nat /\ MatchedTickets \in Nat /\ MatchedTickets' \in Nat
    BY <1>0, <2>3, Countable, FS_CardinalityType DEF MatchedTickets
  <2> QED
    BY <1>0, <1>1, <2>1, <2>2, <2>5, <2>6 DEF PageInv, Pages
<1>2. CASE Summary /\ UNCHANGED race
  <2>1. Delivered' = Delivered /\ MatchedTickets' = MatchedTickets
    BY <1>2 DEF race, Delivered, MatchedTickets
  <2>2. Cardinality(Delivered) \in Nat /\ MatchedTickets \in Nat
    BY <1>0, Countable
  <2>3. /\ page'.read = "alerted" => page'.alerted = Cardinality(Delivered)
        /\ page'.read = "matches" => page'.matched = MatchedTickets
    BY <1>2, PageMoves
  <2> QED
    BY <2>1, <2>2, <2>3 DEF PageInv
<1> QED
  BY <1>1, <1>2, PageSteps

LEMMA PageInvariance == Spec => []PageInv
<1>1. Init => PageInv
  BY DEF Init, NoPage, PageInv
<1>2. TypeOK /\ PageInv /\ [Next]_vars => PageInv'
  BY PageStep
<1> QED
  BY <1>1, <1>2, TypeCorrect, PTL DEF Spec

\* The alerted incidents are those without a row and at most as many as there
\* are rows.
LEMMA PreventedBound ==
  ASSUME TypeOK
  PROVE  Cardinality(Delivered) - TotalMatched
           <= Cardinality({i \in Delivered : \A m \in matches : m.incident # i})
<1> DEFINE Free == {i \in Delivered : \A m \in matches : m.incident # i}
           Named == {m.incident : m \in matches}
<1>1. /\ IsFiniteSet(Delivered) /\ IsFiniteSet(Named)
      /\ Cardinality(Named) <= TotalMatched /\ TotalMatched \in Nat
  BY Countable, RowsName DEF TotalMatched
<1>2. Free = Delivered \ Named
  OBVIOUS
<1>3. Cardinality(Free) = Cardinality(Delivered) - Cardinality(Delivered \cap Named)
  BY <1>1, <1>2, FS_Difference
<1>4. Cardinality(Delivered \cap Named) <= Cardinality(Named)
  BY <1>1, FS_Intersection
<1>5. /\ Cardinality(Delivered) \in Nat /\ Cardinality(Named) \in Nat
      /\ Cardinality(Delivered \cap Named) \in Nat
  BY <1>1, FS_CardinalityType, FS_Intersection
<1> HIDE DEF Free, Named
<1>6. Cardinality(Delivered) - TotalMatched <= Cardinality(Free)
  BY <1>1, <1>3, <1>4, <1>5
<1> QED
  BY <1>6 DEF Free

\* The page claims no prevented ticket too many, whatever is delivered and
\* matched while it reads (PreventedNeverOverstated).
THEOREM PreventedIsEarned == Spec => PreventedNeverOverstated
<1>1. ASSUME TypeOK, PageInv, LoadMatches
      PROVE  Prevented <= Cardinality({i \in Delivered : \A m \in matches : m.incident # i})
  <2>1. page.alerted \in Nat /\ page.alerted <= Cardinality(Delivered)
    BY <1>1 DEF TypeOK, Pages, PageInv, LoadMatches
  <2>2. Cardinality(Delivered) \in Nat /\ TotalMatched \in Nat /\ TypeOK
    BY <1>1, Countable DEF TypeOK
  <2>3. Cardinality({i \in Delivered : \A m \in matches : m.incident # i}) \in Nat
    BY <1>1, <2>2, Countable, FS_Subset, FS_CardinalityType
  <2> QED
    BY <2>1, <2>2, <2>3, PreventedBound DEF Prevented
<1> QED
  BY <1>1, TypeCorrect, PageInvariance, PTL DEF PreventedNeverOverstated

\* A ticket with a row is a stored ticket, so the tickets without one are those
\* stored less those with a row.
LEMMA UnmatchedBound ==
  ASSUME TypeOK, StoredInv
  PROVE  Cardinality({t \in saved : \A m \in matches : m.ticket # t})
           = Cardinality(saved) - MatchedTickets
<1> DEFINE Bare == {t \in saved : \A m \in matches : m.ticket # t}
           Taken == {m.ticket : m \in matches}
<1>1. IsFiniteSet(saved) /\ Taken \subseteq saved
  BY Countable DEF StoredInv
<1>2. Bare = saved \ Taken /\ saved \cap Taken = Taken
  BY <1>1
<1> HIDE DEF Bare, Taken
<1>3. Cardinality(saved \ Taken) = Cardinality(saved) - Cardinality(saved \cap Taken)
  BY <1>1, FS_Difference
<1> USE DEF Bare, Taken
<1>4. Cardinality(Bare) = Cardinality(saved) - Cardinality(Taken)
  BY <1>2, <1>3
<1> QED
  BY <1>4 DEF MatchedTickets

\* Every ticket without a match row is in the page's count of unmatched tickets
\* (NothingBuried).
THEOREM UnmatchedAreShown == Spec => NothingBuried
<1>1. ASSUME TypeOK, PageInv, StoredInv, CountTickets
      PROVE  Unmatched >= Cardinality({t \in saved : \A m \in matches : m.ticket # t})
  <2>1. page.matched \in Nat /\ page.matched <= MatchedTickets
    BY <1>1 DEF TypeOK, Pages, PageInv, CountTickets
  <2>2. Cardinality(saved) \in Nat /\ MatchedTickets \in Nat /\ TypeOK
    BY <1>1, Countable DEF TypeOK
  <2> QED
    BY <1>1, <2>1, <2>2, UnmatchedBound DEF Unmatched
<1> QED
  BY <1>1, StoredInvariance, TypeCorrect, PageInvariance, PTL DEF NothingBuried
=============================================================================
