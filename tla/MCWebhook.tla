----------------------------- MODULE MCWebhook -----------------------------
(* Instances of Webhook for TLC.                                           *)
EXTENDS Webhook, TLC

CONSTANTS a1, a2, a3, k1, k2

OneSession == (a1 :> k1) @@ (a2 :> k1) @@ (a3 :> k2)
=============================================================================
