------------------------------- MODULE MCInfo -------------------------------
(* A small instance of ParticipantInfo for TLC. *)
EXTENDS ParticipantInfo

Visible == [hidden |-> FALSE, can_update_metadata |-> TRUE, can_publish |-> TRUE]
Hidden == [hidden |-> TRUE, can_update_metadata |-> FALSE, can_publish |-> FALSE]

OnlyVisible == {Visible}

Change(m, a, p) == [metadata |-> m, attributes |-> a, permission |-> p]

SmallUpdates ==
    {Change("m", "a", None), Change(None, Remove, Visible), Change("m", None, Hidden)}

=============================================================================
