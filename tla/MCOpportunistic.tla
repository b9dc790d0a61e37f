-------------------------- MODULE MCOpportunistic --------------------------
(* Opportunistic with the disturbances of each run.                        *)
EXTENDS Opportunistic

\* Everything the cluster and the users do, with an up-to-date cache.
MCClusterFaults == {"fit", "edit", "child", "listPods", "slow"}

\* Faults of the controller's own reads, writes and memory as well.
MCAllFaults == {"fit", "child", "listPods", "slow", "apply", "restart", "lag", "read"}
=============================================================================
