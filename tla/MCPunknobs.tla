----------------------------- MODULE MCPunknobs -----------------------------
(* Instances of Punknobs for TLC. *)
EXTENDS Punknobs, TLC
=============================================================================
