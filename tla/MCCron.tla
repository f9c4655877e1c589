------------------------------- MODULE MCCron -------------------------------
(* CronTrigger on a small instance: see the .cfg files for the bounds.     *)
EXTENDS CronTrigger
=============================================================================
