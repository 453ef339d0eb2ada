---------------------------- MODULE MCAlertPipeline ----------------------------
(* Instances of AlertPipeline for TLC. *)
EXTENDS AlertPipeline, TLC

CONSTANTS k1, h1, h2, u1, e1

OneCall    == {k1}
TwoHooks   == {h1, h2}
OneUrl     == {u1}
OneKind    == {e1}
Subscribed == {{e1}}

===============================================================================
