----------------------------- MODULE MCCluster -----------------------------
(* Small instances of Cluster for TLC. *)
EXTENDS Cluster, TLC

Interchangeable == Permutations(Nodes) \cup Permutations(Joins)
=============================================================================
