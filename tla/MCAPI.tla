------------------------------- MODULE MCAPI -------------------------------
(* APITrigger on a small instance: see MCAPI.cfg for the bounds. Clients   *)
(* differ in nothing, and only safety is checked.                          *)
EXTENDS APITrigger

Symmetric == Permutations(Clients)
=============================================================================
