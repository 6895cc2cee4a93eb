------------------------- MODULE MCWebhookDispatch --------------------------
(***************************************************************************)
(* A small instance of WebhookDispatch.                                    *)
(***************************************************************************)
EXTENDS WebhookDispatch

CONSTANTS e1,       \* a delivery
          x1, x2    \* dispatchers

OneDelivery == {e1}
TwoDispatchers == {x1, x2}
=============================================================================
