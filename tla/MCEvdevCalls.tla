---------------------------- MODULE MCEvdevCalls ----------------------------
(* Instances of EvdevCalls for TLC. *)
EXTENDS EvdevCalls, TLC

DeviceSymmetry == Permutations(Device)
=============================================================================
