--------------------------- MODULE MCBronzeUpkeep ----------------------------
(* Instances of BronzeUpkeep for TLC. *)
EXTENDS BronzeUpkeep
=============================================================================
