---------------------------- MODULE MCClassifier -----------------------------
(* Values of the constants of Classifier for TLC. *)
EXTENDS Classifier, TLC
CONSTANTS t1, t2, t3, t4

\* Two tasks ask the same, one has a rule that is not sure enough, and one a
\* rule that settles it.
MCKey == t1 :> "k1" @@ t2 :> "k2" @@ t3 :> "k1" @@ t4 :> "k2"
MCRule == t1 :> 0 @@ t2 :> 70 @@ t3 :> 0 @@ t4 :> 90
=============================================================================
