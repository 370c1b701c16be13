------------------------------- MODULE MCRoom -------------------------------
(* Small instances of RoomLifecycle for TLC. *)
EXTENDS RoomLifecycle, TLC

CONSTANTS p1, p2, alice

TwoSessions == (p1 :> alice) @@ (p2 :> alice)

\* Room objects are interchangeable.
SameRooms == Permutations(Rooms)
=============================================================================
