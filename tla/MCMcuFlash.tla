----------------------------- MODULE MCMcuFlash -----------------------------
(* Instance of McuFlash for TLC: its constants are model values and numbers. *)
EXTENDS McuFlash
=============================================================================
