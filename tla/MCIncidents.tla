----------------------------- MODULE MCIncidents -----------------------------
(* Instances of Incidents for TLC. *)
EXTENDS Incidents, TLC

CONSTANTS i1, i2, r1, r2, r3, r4, r5, d1, d2

TwoIds        == {i1, i2}
OneId         == {i1}
ThreeRequests == {r1, r2, r3}
FourRequests  == {r1, r2, r3, r4}
FiveRequests  == FourRequests \cup {r5}
TwoDates      == {d1, d2}

\* Ids, requests and dates are interchangeable.
Symmetry     == Permutations(TwoIds) \cup Permutations(ThreeRequests)
                  \cup Permutations(TwoDates)
SymmetryFive == Permutations(FiveRequests) \cup Permutations(TwoDates)

=============================================================================
