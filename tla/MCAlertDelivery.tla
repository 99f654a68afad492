-------------------------- MODULE MCAlertDelivery --------------------------
(***************************************************************************)
(* Instances of AlertDelivery for TLC, with the times of app/config.py.    *)
(***************************************************************************)
EXTENDS AlertDelivery

\* SLACK_RETRY_BACKOFF_SECONDS * 2^(k - 1), in half-seconds.  Nothing is slept
\* after the last attempt.
DefaultPause == [k \in 1..MaxAttempts |-> 2^(k - 1)]
=============================================================================
