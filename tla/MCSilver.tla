------------------------------ MODULE MCSilver -------------------------------
(* Instances of Silver for TLC. *)
EXTENDS Silver
=============================================================================
