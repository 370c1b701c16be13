------------------------------ MODULE MCAgent ------------------------------
(* Small instances of AgentDispatch for TLC. *)
EXTENDS AgentDispatch, TLC

\* Rooms and joins are interchangeable.
Interchangeable == Permutations(Rooms) \cup Permutations(Joins)
=============================================================================
