----------------------------- MODULE MCWsManager -----------------------------
(* Instances of WsManager for TLC. *)
EXTENDS WsManager, TLC

\* Connections are interchangeable and so are runs (used by the safety run only).
Symmetry == Permutations(Conn) \union Permutations(Run)
=============================================================================
