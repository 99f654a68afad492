-------------------------- MODULE MCFreshdeskRace --------------------------
(***************************************************************************)
(* Instances of FreshdeskRace.  Seconds in the comments, milliseconds in   *)
(* the values.  Alerts go out at 1000 s (i1) and 1100 s (i2).              *)
(***************************************************************************)
EXTENDS FreshdeskRace, MatchExplanation, TLC

CONSTANTS s1, s2, h1, h2, i1, i2, k1, k2, k3

MinuteLookBack == 600000
DayWindow      == 86400000
TwoHours       == 7200000
HundredPerPage == 100

OneAlert  == i1 :> 1000000
TwoAlerts == i1 :> 1000000 @@ i2 :> 1100000

NoHooks   == [h \in {} |-> k1]
OneHook   == h1 :> k1
TwoHooks  == h1 :> k1 @@ h2 :> k3

\* One ticket before the alert, one after it.
EarlyAndLate == k1 :> 700000 @@ k3 :> 1200000
\* Before both alerts, between them, after them.
Three == k1 :> 900000 @@ k2 :> 1050000 @@ k3 :> 1200000
\* At the edges of the outcome: half a second before the alert of i1, on the
\* grace of i2's and half a second after it.
Close == k1 :> 999500 @@ k2 :> 1070000 @@ k3 :> 1100500

(***************************************************************************)
(* What the tickets and the incidents say.  k1 is about withdrawals and    *)
(* deposits, k2 about deposits, k3 about withdrawals; i1 is a withdrawal   *)
(* outage, i2 a deposit outage.  The summary of i1 talks of k2's subject   *)
(* and lifts their score from 35 to 55, the new title of i2 shares no word *)
(* with k3 and lets it fall from 60 to 40.                                 *)
(***************************************************************************)
Keywords ==
  [withdrawal |-> [en |-> {"withdraw", "payout"}, es |-> {"retiro", "retirar"}],
   deposit    |-> [en |-> {"deposit", "credit"},  es |-> {"deposito", "abono"}],
   failed     |-> [en |-> {"failed", "error"},    es |-> {"no puedo", "problema"}]]

AllTerms == {"withdraw", "payout", "retiro", "retirar", "deposit", "credit",
             "deposito", "abono", "failed", "error", "no puedo", "problema",
             "paynet", "nequi", "card"}

About == i1 :> [action |-> "withdrawal", primary |-> "MX", countries |-> {"MX"},
                provider |-> "paynet", method |-> "card",
                fingerprint |-> {"withdrawal"}, title |-> {"timeouts"},
                summary |-> {"deposit", "missing"}] @@
         i2 :> [action |-> "deposit", primary |-> "CO", countries |-> {"CO", "PE"},
                provider |-> "nequi", method |-> Unknown,
                fingerprint |-> {"deposit"}, title |-> {"errors"},
                summary |-> {"settlement", "provider", "callback", "signature"}]

Says == k1 :> [text |-> {"retiro", "deposito", "no puedo", "problema"},
               words |-> {"retiro", "deposito", "puedo", "problema"}, tags |-> {"MX"}] @@
        k2 :> [text |-> {"deposit"},
               words |-> {"deposit", "missing", "yesterday"}, tags |-> {}] @@
        k3 :> [text |-> {"withdraw", "error", "card"},
               words |-> {"withdraw", "errors"}, tags |-> {"AR"}]

IncidentFacts(i) == [alerted |-> AlertAt[i]] @@ About[i]
TicketFacts(t)   == [created |-> Created[t]] @@ Says[t]

Explained ==
  [told \in BOOLEAN |-> [i \in Incidents |-> [t \in Tickets |->
     ExplainMatch(IncidentFacts(i), TicketFacts(t), told)]]]

TwoMoments   == {1000000, 1300000}
ThreeMoments == {950000, 1150000, 1300000}
CloseMoments == {950000, 1085000, 1300000}
=============================================================================
