------------------------- MODULE MCWebhookDelivery -------------------------
(* The instance of WebhookDelivery that TLC checks. *)
EXTENDS WebhookDelivery

CONSTANTS d1, d2, p1, p2
=============================================================================
