----------------------------- MODULE MCWebhooks -----------------------------
(* An instance of Webhooks for TLC: two events, each for an endpoint of its own. *)
EXTENDS Webhooks, TLC

CONSTANTS e1, e2, p, q

MCSubscribers == (e1 :> {p}) @@ (e2 :> {q})
=============================================================================
