-------------------------- MODULE MCWebhookIngress --------------------------
(***************************************************************************)
(* An instance of WebhookIngress for TLC: two senders that chose the same  *)
(* nonce.  The first stamps what it sends, from a clock that is a window   *)
(* ahead; the second sends what it likes.                                  *)
(***************************************************************************)
EXTENDS WebhookIngress, TLC

CONSTANTS e1, e2, n

Receivers == e1 :> "sentry" @@ e2 :> "datadog"

Complete == [nonce |-> n, stamp |-> "good", json |-> TRUE]

Requested == e1 :> {Complete} @@
             e2 :> {[Complete EXCEPT !.stamp = "none", !.json = FALSE],
                    [Complete EXCEPT !.nonce = NoNonce, !.stamp = "garbled"],
                    [Complete EXCEPT !.nonce = NoNonce, !.stamp = "none"]}

Clocks == e1 :> 1 @@ e2 :> 0
=============================================================================
