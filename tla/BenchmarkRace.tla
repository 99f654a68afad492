--------------------------- MODULE BenchmarkRace ---------------------------
(***************************************************************************)
(* What the agent promises about the benchmark, free of sessions, locks    *)
(* and retries: an incident may claim a timestamp only for an alert some   *)
(* channel confirmed, keeps its claim, and is enriched only afterwards.    *)
(* AlertPipeline implements it; the claim is agent_alert_timestamp.        *)
(***************************************************************************)
CONSTANTS Incidents,   \* incident rows
          Alerts,      \* delivery attempts
          NoAlert,     \* no claim yet
          ClaimFinal   \* is the first claim final, or may a later alert of
                       \* the same incident replace it

VARIABLES confirmed,   \* alerts a channel confirmed, per incident
          claim,       \* the alert whose time is the benchmark timestamp
          enriched     \* the LLM summary is stored

raceVars == <<confirmed, claim, enriched>>

Init ==
  /\ confirmed = [i \in Incidents |-> {}]
  /\ claim = [i \in Incidents |-> NoAlert]
  /\ enriched = [i \in Incidents |-> FALSE]

\* A channel confirms alert a.  Its database record may follow, or never.
Confirm(i, a) ==
  /\ confirmed' = [confirmed EXCEPT ![i] = @ \cup {a}]
  /\ UNCHANGED <<claim, enriched>>

Claim(i, a) ==
  /\ a \in confirmed[i]
  /\ ClaimFinal => claim[i] = NoAlert
  /\ claim' = [claim EXCEPT ![i] = a]
  /\ UNCHANGED <<confirmed, enriched>>

Enrich(i) ==
  /\ claim[i] # NoAlert
  /\ enriched' = [enriched EXCEPT ![i] = TRUE]
  /\ UNCHANGED <<confirmed, claim>>

Next ==
  \E i \in Incidents :
    \/ \E a \in Alerts : Confirm(i, a) \/ Claim(i, a)
    \/ Enrich(i)

Spec == Init /\ [][Next]_raceVars
=============================================================================
