-------------------------- MODULE MCWebhookSender --------------------------
(* Small instances of WebhookSender. *)
EXTENDS WebhookSender, TLC

Symmetry == Permutations(Tasks)
=============================================================================
