----------------------------- MODULE MCWebhook -----------------------------
(* WebhookExecution on a small instance: see MCWebhook.cfg for the bounds. *)
EXTENDS WebhookExecution
=============================================================================
