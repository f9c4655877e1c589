------------------------------ MODULE MCLedger ------------------------------
(* Ledger on a small instance: see MCLedger.cfg for the bounds.            *)
EXTENDS Ledger
=============================================================================
