---------------------------- MODULE MCMacDevices ----------------------------
(* Instances of MacDevices for TLC. *)
EXTENDS MacDevices, TLC
=============================================================================
