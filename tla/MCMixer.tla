------------------------------ MODULE MCMixer ------------------------------
(* Two tracks that are recorded at the same time, for TLC. *)
EXTENDS Mixer
=============================================================================
