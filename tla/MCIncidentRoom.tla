---------------------------- MODULE MCIncidentRoom ----------------------------
(* Instances of IncidentRoom for TLC. *)
EXTENDS IncidentRoom, TLC

CONSTANTS i1, i2, s1, s2, r1, r2, r3

TwoIds        == {i1, i2}
TwoSockets    == {s1, s2}
ThreeRequests == {r1, r2, r3}

Symmetry == Permutations(TwoIds) \cup Permutations(TwoSockets)
              \cup Permutations(ThreeRequests)

=============================================================================
