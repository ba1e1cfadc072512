---------------------------- MODULE MCDriveTable ----------------------------
(* Instances of DriveTable for TLC. *)
EXTENDS DriveTable
=============================================================================
