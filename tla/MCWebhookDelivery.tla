--------------------------- MODULE MCWebhookDelivery ---------------------------
(* Constants of WebhookDelivery for TLC. *)
EXTENDS WebhookDelivery, MCSourceResolution

=============================================================================
