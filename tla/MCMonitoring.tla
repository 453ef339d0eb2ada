---------------------------- MODULE MCMonitoring ----------------------------
(* Instances of Monitoring for TLC. *)
EXTENDS Monitoring, TLC

CONSTANTS m1, c1, c2, a1

OneRule   == {m1}
OneCheck  == {c1}
TwoChecks == {c1, c2}
OneAdmin  == {a1}
NoAdmin   == {}
OneHealthRule == {m1}

\* Checks that may run at the same time are interchangeable.
Symmetry == Permutations(TwoChecks)

=============================================================================
