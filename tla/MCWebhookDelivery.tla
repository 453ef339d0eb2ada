-------------------------- MODULE MCWebhookDelivery --------------------------
(* Instances of WebhookDelivery for TLC. *)
EXTENDS WebhookDelivery, TLC

CONSTANTS k1, k2, h1, h2, u1, e1

OneCall    == {k1}
TwoCalls   == {k1, k2}
TwoHooks   == {h1, h2}
OneUrl     == {u1}
OneKind    == {e1}
Subscribed == {{e1}}

Symmetry == Permutations(TwoCalls) \cup Permutations(TwoHooks)

=============================================================================
