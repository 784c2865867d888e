------------------------------ MODULE MCReview -------------------------------
(* Values of the constants of Review for TLC. *)
EXTENDS Review
LOCAL INSTANCE TLC

MCFilters ==
    {[name |-> "below_threshold"], [name |-> "unconfirmed_only"],
     [name |-> "since_date"], [name |-> "failed_on_replay"]}
        \cup {[name |-> "by_intent", intent |-> i] : i \in Intents}

MCModes == {"per_action", "overview", "per_intent_batch", "diff_baseline"}

\* Passes are alike: both are audited.
Symmetry == Permutations(Passes)
=============================================================================
