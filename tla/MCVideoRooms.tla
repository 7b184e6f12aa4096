---------------------------- MODULE MCVideoRooms ----------------------------
(* Small instances of VideoRooms for TLC. *)
EXTENDS VideoRooms, TLC

Symmetry ==
    Permutations(Users) \union Permutations(Sockets) \union Permutations(Rooms)
=============================================================================
