----------------------------- MODULE MCDBChange -----------------------------
(* DBChangeTrigger on a small instance: see the .cfg files for the bounds. *)
EXTENDS DBChangeTrigger
=============================================================================
