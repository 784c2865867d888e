--------------------------- MODULE MCGoldPromotion ---------------------------
(* Instances of GoldPromotion for TLC. *)
EXTENDS GoldPromotion, TLC

\* Jobs are interchangeable and so are tables (used by the safety runs only).
Symmetry == Permutations(Job) \union Permutations(Table)
=============================================================================
