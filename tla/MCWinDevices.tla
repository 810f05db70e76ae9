---------------------------- MODULE MCWinDevices ----------------------------
(* Instances of WinDevices for TLC. *)
EXTENDS WinDevices, TLC


=============================================================================
