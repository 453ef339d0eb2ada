------------------------------ MODULE MCRoomPage ------------------------------
(* Instances of RoomPage for TLC. *)
EXTENDS RoomPage, TLC

CONSTANTS i1, i2

TwoIds == {i1, i2}

Symmetry == Permutations(TwoIds)

=============================================================================
