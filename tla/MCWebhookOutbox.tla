-------------------------- MODULE MCWebhookOutbox --------------------------
(* Small instances of WebhookOutbox for TLC.                                *)
EXTENDS WebhookOutbox, TLC

Symmetry == Permutations(Workers)
=============================================================================
