-------------------------- MODULE MCAlertPipeline --------------------------
(***************************************************************************)
(* Instances of AlertPipeline for TLC.  Each run names in its .cfg which    *)
(* messages and events exist and how they map.                             *)
(***************************************************************************)
EXTENDS AlertPipeline, TLC

CONSTANTS t1, t2, t3, t4, e1, e2, e3, e4, f1, f2

\* Two events, the first delivered twice by the broker.
DuplicateDelivery == t1 :> e1 @@ t2 :> e1 @@ t3 :> e2
\* The same with two more events after it.
OneEach4          == t1 :> e1 @@ t2 :> e2 @@ t3 :> e3 @@ t4 :> e4
OneEach3          == t1 :> e1 @@ t2 :> e2 @@ t3 :> e3
OneEach2          == t1 :> e1 @@ t2 :> e2

OneFingerprint4  == e1 :> f1 @@ e2 :> f1 @@ e3 :> f1 @@ e4 :> f1
OneFingerprint3  == e1 :> f1 @@ e2 :> f1 @@ e3 :> f1
OneFingerprint2  == e1 :> f1 @@ e2 :> f1
TwoFingerprints2 == e1 :> f1 @@ e2 :> f2
TwoFingerprints3 == e1 :> f1 @@ e2 :> f2 @@ e3 :> f1
=============================================================================
