----------------------------- MODULE MCSession -----------------------------
(* Small instances of SignalSession for TLC. *)
EXTENDS SignalSession
=============================================================================
