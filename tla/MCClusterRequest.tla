-------------------------- MODULE MCClusterRequest --------------------------
(* The instance of ClusterRequest for TLC.                                 *)
EXTENDS ClusterRequest

(* Counters are only added to and compared, so the client may start at 0;  *)
(* the peers run the same code, so the server is at most half way round.   *)
AnyStart == {s \in [Peers -> Counters] : s["client"] = 0 /\ 2 * s["server"] <= Space}
=============================================================================
