---------------------------- MODULE MCHostPower ----------------------------
(* Instances of HostPower for TLC. *)
EXTENDS HostPower
=============================================================================
