--------------------------- MODULE MCEvdevRemoval ---------------------------
(* Instances of EvdevRemoval for TLC. *)
EXTENDS EvdevRemoval, TLC

NodeSymmetry == Permutations(Node)
=============================================================================
