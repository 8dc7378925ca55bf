------------------------- MODULE MCClusterIntegrity -------------------------
(* Instances of ClusterIntegrity for TLC.                                  *)
EXTENDS ClusterIntegrity, TLC

Sym == Permutations(Files) \cup Permutations(Contents)
=============================================================================
