--------------------------- MODULE MCWebhookOutbox ---------------------------
(* WebhookOutbox on a small instance.                                      *)
EXTENDS WebhookOutbox

CONSTANTS w1, w2

TwoWorkers == {w1, w2}
=============================================================================
